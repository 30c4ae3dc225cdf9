-------------------------- MODULE EnforcementProofs --------------------------
(***************************************************************************)
(* The blacklist maps of the exec probe follow the policy in force, the    *)
(* responses are those that the policy calls for and the Suppressor mutes  *)
(* none that was not given, for every set of programs, policies, names and *)
(* pids and however many processes start and reloads take place.           *)
(***************************************************************************)
EXTENDS Enforcement, PolicyEngineProofs, SequenceTheorems

Steps == {"idle", "clear", "clearFilename", "add"}

ShortOf(p) == BlacklistNames(p) \ LongNames

LongOf(p) == BlacklistNames(p) \cap LongNames

\* The maps hold what syncBPFMaps has put there: every name of the policy
\* except those still to be added.
Filled ==
  /\ maps.comm = ShortOf(policy) \ sync.names
  /\ maps.filename = LongOf(policy) \ sync.names

\* Where the maps are at each step of a sync. Until the first one they hold
\* what main has put there; after a failure nothing is claimed.
MapsInv ==
  /\ policy \in Policies
  /\ synced \in {"start", "yes", "failed"}
  /\ sync = [step |-> sync.step, names |-> sync.names]
  /\ sync.step \in Steps
  /\ maps = [comm |-> maps.comm, filename |-> maps.filename]
  /\ synced = "start" => sync.step = "idle" /\ maps = StartMaps(policy)
  /\ synced = "yes" /\ sync.step = "clear" => sync.names = {}
  /\ synced = "yes" /\ sync.step = "clearFilename" => sync.names = {} /\ maps.comm = {}
  /\ synced = "yes" /\ sync.step = "add" => sync.names \subseteq BlacklistNames(policy) /\ Filled
  /\ synced = "yes" /\ sync.step = "idle" => sync.names = {} /\ Filled

mapState == <<policy, synced, sync, maps>>

\* No step outside ReplacePolicy and syncBPFMaps touches the maps, the policy
\* or the progress of the sync.
LEMMA OthersLeaveMaps ==
  ASSUME \/ Exec \/ Exit \/ Attack
         \/ \E key \in cooling : CooldownOver(key)
         \/ FastPathExec \/ FastPathPtraceEnh \/ FastPathLDPreload
         \/ FastPathInstrument \/ FastPathSelfProtect
         \/ DeferredEnrich \/ DeferredApply \/ PollBegin \/ PollOne
  PROVE  UNCHANGED mapState
<1>1. CASE Exec \/ Exit \/ Attack
  BY ZenonT(30), <1>1 DEF Exec, Exit, Attack, mapState, control, kernel
<1>2. CASE \E key \in cooling : CooldownOver(key)
  BY ZenonT(30), <1>2 DEF CooldownOver, mapState, control, kernel
<1>3. CASE FastPathExec
  BY ZenonT(30), <1>3 DEF FastPathExec, mapState, control
<1>4. CASE FastPathPtraceEnh \/ FastPathLDPreload \/ FastPathInstrument
  BY Zenon, <1>4 DEF FastPathPtraceEnh, FastPathLDPreload, FastPathInstrument, FastPathAttack,
              mapState, control
<1>5. CASE FastPathSelfProtect
  BY ZenonT(30), <1>5 DEF FastPathSelfProtect, mapState, control
<1>6. CASE DeferredEnrich \/ DeferredApply
  BY ZenonT(30), <1>6 DEF DeferredEnrich, DeferredApply, mapState, control, kernel
<1>7. CASE PollBegin \/ PollOne
  BY Zenon, <1>7 DEF PollBegin, PollOne, mapState, control, kernel
<1> QED BY ZenonT(30), <1>1, <1>2, <1>3, <1>4, <1>5, <1>6, <1>7

LEMMA MapsInvInit == Init => MapsInv
BY SMTT(30) DEF Init, MapsInv, StartMaps, Steps

LEMMA MapsInvNext == MapsInv /\ [Next]_vars => MapsInv'
<1> SUFFICES ASSUME MapsInv, [Next]_vars
             PROVE  MapsInv'
  BY ZenonT(30)
<1> USE DEF MapsInv, Filled, Steps
<1>1. CASE ReplacePolicy
  BY ZenonT(30), <1>1 DEF ReplacePolicy, kernel, StartMaps
<1>2. CASE BlacklistClear
  BY ZenonT(30), <1>2 DEF BlacklistClear, MapOpWorks, MapOpFails
<1>3. CASE BlacklistFilenameClear
  BY ZenonT(30), <1>3 DEF BlacklistFilenameClear, MapOpWorks, MapOpFails, ShortOf, LongOf
<1>4. CASE BlacklistAdd
  <2>1. PICK x \in sync.names :
          /\ \/ /\ MapOpWorks
                /\ maps' = IF x \in LongNames
                             THEN [maps EXCEPT !.filename = @ \cup {x}]
                             ELSE [maps EXCEPT !.comm = @ \cup {x}]
             \/ MapOpFails /\ maps' = maps
          /\ sync' = [sync EXCEPT !.names = @ \ {x}]
    BY Zenon, <1>4 DEF BlacklistAdd
  <2>2. sync.step = "add" /\ policy' = policy
    BY ZenonT(30), <1>4 DEF BlacklistAdd
  <2>3. CASE MapOpFails
    BY ZenonT(30), <2>1, <2>2, <2>3 DEF MapOpFails
  <2>4. CASE MapOpWorks /\ synced = "yes" /\ x \in LongNames
    BY SMTT(30), <2>1, <2>2, <2>4 DEF MapOpWorks, MapOpFails, ShortOf, LongOf
  <2>5. CASE MapOpWorks /\ synced = "yes" /\ x \notin LongNames
    BY <2>1, <2>2, <2>5 DEF MapOpWorks, MapOpFails, ShortOf, LongOf
  <2>6. CASE MapOpWorks /\ synced # "yes"
    BY ZenonT(30), <2>1, <2>2, <2>6 DEF MapOpWorks, MapOpFails
  <2> QED BY ZenonT(30), <2>1, <2>3, <2>4, <2>5, <2>6
<1>5. CASE SyncDone
  BY ZenonT(30), <1>5 DEF SyncDone, kernel
<1>6. CASE UNCHANGED vars
  BY ZenonT(30), <1>6 DEF vars, control, kernel, StartMaps, ShortOf, LongOf, BlacklistNames
<1>7. ASSUME UNCHANGED mapState
      PROVE  MapsInv'
  BY ZenonT(30), <1>7 DEF mapState, StartMaps, ShortOf, LongOf, BlacklistNames
<1> QED BY ZenonT(40), <1>1, <1>2, <1>3, <1>4, <1>5, <1>6, <1>7, OthersLeaveMaps DEF Next

\* Between two reloads, and unless a map operation failed, the exec probe kills
\* only what the blacklist in force names, and everything it names by a comm:
\* the maps agree with the policy whatever starts, exits or is evaluated
\* meanwhile (ReplacePolicy and syncBPFMaps of agent.go).
THEOREM ProbeFollowsPolicy == Spec => []Ring0FollowsPolicy
<1>1. MapsInv => Ring0FollowsPolicy
  <2> SUFFICES ASSUME MapsInv, sync.step = "idle", synced # "failed",
                      NEW prog \in Programs
               PROVE  /\ ProbeKills(prog) =>
                           \E x \in BlacklistNames(policy) :
                             NamesComm(x, prog) \/ x = Image[prog].path
                      /\ (\E x \in BlacklistNames(policy) \ LongNames : NamesComm(x, prog))
                           => ProbeKills(prog)
    BY Zenon DEF Ring0FollowsPolicy
  <2>1. \A x \in BlacklistNames(policy) \ LongNames : Comm[x] = x
    BY ZenonT(30), CommAssumption DEF MapsInv
  <2>2. CASE synced = "start"
    BY <2>1, <2>2 DEF MapsInv, StartMaps, ProbeKills, NamesComm
  <2>3. CASE synced = "yes"
    BY ZenonT(30), <2>1, <2>3 DEF MapsInv, Filled, ShortOf, LongOf, ProbeKills, NamesComm
  <2> QED BY ZenonT(30), <2>2, <2>3 DEF MapsInv
<1> QED BY <1>1, MapsInvInit, MapsInvNext, PTL DEF Spec

----------------------------------------------------------------------------
(***************************************************************************)
(* Processes                                                               *)
(***************************************************************************)

Proc == [pid : Pids, prog : Programs, alive : BOOLEAN]

\* No two live processes have the same pid.
ProcInv ==
  /\ procs \in Seq(Proc)
  /\ \A m, n \in DOMAIN procs : Live(m) /\ Live(n) /\ procs[m].pid = procs[n].pid => m = n

\* What a step may do to the processes there are: at most end them.
Persist ==
  /\ DOMAIN procs \subseteq DOMAIN procs'
  /\ \A n \in DOMAIN procs :
       /\ procs'[n].pid = procs[n].pid
       /\ procs'[n].prog = procs[n].prog
       /\ procs'[n].alive => procs[n].alive

LEMMA Same ==
  ASSUME ProcInv, UNCHANGED procs
  PROVE  ProcInv' /\ Persist
BY Zenon DEF ProcInv, Persist, Live

LEMMA Births ==
  ASSUME ProcInv, NEW pid \in Pids, NEW prog \in Programs, NEW alive \in BOOLEAN,
         \A n \in DOMAIN procs : Live(n) => procs[n].pid # pid,
         procs' = Append(procs, [pid |-> pid, prog |-> prog, alive |-> alive])
  PROVE  /\ ProcInv' /\ Persist
         /\ Len(procs) + 1 \in DOMAIN procs'
<1> DEFINE e == [pid |-> pid, prog |-> prog, alive |-> alive]
           l == Len(procs)
<1>1. e \in Proc /\ e.pid = pid
  BY Zenon DEF Proc
<1> HIDE DEF e
<1>2. procs \in Seq(Proc) /\ procs' = Append(procs, e)
  BY Zenon DEF ProcInv, e
<1>3. l \in Nat /\ DOMAIN procs = 1 .. l
  BY Zenon, <1>2, LenProperties
<1>4. /\ procs' \in Seq(Proc)
      /\ DOMAIN procs' = 1 .. l + 1
      /\ \A i \in 1 .. l : procs'[i] = procs[i]
      /\ procs'[l + 1] = e
  <2>1. /\ Append(procs, e) \in Seq(Proc)
        /\ Len(Append(procs, e)) = l + 1
        /\ \A i \in 1 .. l : Append(procs, e)[i] = procs[i]
        /\ Append(procs, e)[l + 1] = e
    BY <1>1, <1>2, AppendProperties
  <2> QED BY Zenon, <1>2, <2>1, LenProperties
<1> HIDE DEF l
<1>5. DOMAIN procs \subseteq DOMAIN procs' /\ l + 1 \in DOMAIN procs'
  BY <1>3, <1>4
<1>6. \A i \in DOMAIN procs' : i \in DOMAIN procs \/ i = l + 1
  BY <1>3, <1>4
<1>7. Persist
  BY Zenon, <1>3, <1>4, <1>5 DEF Persist
<1>8. ASSUME NEW m \in DOMAIN procs', NEW n \in DOMAIN procs',
             procs'[m].alive, procs'[n].alive, procs'[m].pid = procs'[n].pid
      PROVE  m = n
  <2>1. CASE m \in DOMAIN procs /\ n \in DOMAIN procs
    <3>1. procs'[m] = procs[m] /\ procs'[n] = procs[n]
      BY Zenon, <1>3, <1>4, <2>1
    <3>2. Live(m) /\ Live(n) /\ procs[m].pid = procs[n].pid
      BY Zenon, <1>8, <3>1 DEF Live
    <3> QED BY Zenon, <2>1, <3>2 DEF ProcInv
  <2>2. CASE m \in DOMAIN procs /\ n = l + 1
    BY ZenonT(40), <1>1, <1>3, <1>4, <1>8, <2>2 DEF Live
  <2>3. CASE m = l + 1 /\ n \in DOMAIN procs
    BY ZenonT(40), <1>1, <1>3, <1>4, <1>8, <2>3 DEF Live
  <2> QED BY Zenon, <1>6, <2>1, <2>2, <2>3
<1>9. ProcInv'
  BY Zenon, <1>4, <1>8 DEF ProcInv, Live
<1> QED BY Zenon, <1>5, <1>7, <1>9 DEF l

\* A sequence with one element replaced.
LEMMA Replaced ==
  ASSUME NEW S, NEW s \in Seq(S), NEW n \in DOMAIN s, NEW e \in S
  PROVE  /\ [s EXCEPT ![n] = e] \in Seq(S)
         /\ DOMAIN [s EXCEPT ![n] = e] = DOMAIN s
         /\ \A j \in DOMAIN s : [s EXCEPT ![n] = e][j] = IF j = n THEN e ELSE s[j]
<1>1. DOMAIN s = 1 .. Len(s)
  BY Zenon, LenProperties
<1>2. [s EXCEPT ![n] = e] \in Seq(S)
  BY ZenonT(30), <1>1, ExceptSeq
<1> QED BY Zenon, <1>2

LEMMA Deaths ==
  ASSUME ProcInv, NEW n \in DOMAIN procs, procs' = [procs EXCEPT ![n].alive = FALSE]
  PROVE  ProcInv' /\ Persist
<1> DEFINE e == [procs[n] EXCEPT !.alive = FALSE]
           l == Len(procs)
<1>1. l \in Nat /\ DOMAIN procs = 1 .. l /\ procs \in [1 .. l -> Proc]
  BY Zenon, LenProperties DEF ProcInv
<1>2. e \in Proc /\ e.pid = procs[n].pid /\ e.prog = procs[n].prog /\ e.alive = FALSE
  <2>1. procs[n] \in Proc
    BY Zenon, <1>1
  <2> QED BY Zenon, <2>1 DEF Proc
<1> HIDE DEF e
<1>3. procs' = [procs EXCEPT ![n] = e]
  BY Zenon DEF e
<1>4. /\ procs' \in Seq(Proc)
      /\ DOMAIN procs' = 1 .. l
      /\ \A j \in 1 .. l : procs'[j] = IF j = n THEN e ELSE procs[j]
  <2>1. procs \in Seq(Proc) /\ e \in Proc
    BY Zenon, <1>2 DEF ProcInv
  <2>2. /\ [procs EXCEPT ![n] = e] \in Seq(Proc)
        /\ DOMAIN [procs EXCEPT ![n] = e] = DOMAIN procs
        /\ \A j \in DOMAIN procs : [procs EXCEPT ![n] = e][j] = IF j = n THEN e ELSE procs[j]
    BY Zenon, <2>1, Replaced
  <2> QED BY Zenon, <1>1, <1>3, <2>2
<1>5. Persist
  BY Zenon, <1>1, <1>2, <1>4 DEF Persist
<1>6. \A j \in DOMAIN procs' : procs'[j].alive => Live(j) /\ procs'[j].pid = procs[j].pid
  BY Zenon, <1>1, <1>2, <1>4, <1>5 DEF Persist, Live
<1>7. ASSUME NEW i \in DOMAIN procs', NEW j \in DOMAIN procs',
             procs'[i].alive, procs'[j].alive, procs'[i].pid = procs'[j].pid
      PROVE  i = j
  <2>1. Live(i) /\ Live(j) /\ procs[i].pid = procs[j].pid
    BY Zenon, <1>6, <1>7
  <2>2. i \in DOMAIN procs /\ j \in DOMAIN procs
    BY Zenon, <1>1, <1>4
  <2> QED BY Zenon, <2>1, <2>2 DEF ProcInv
<1>8. ProcInv'
  BY ZenonT(60), <1>4, <1>7 DEF ProcInv, Live
<1> QED BY Zenon, <1>5, <1>8

\* Whoever has a pid; a live process has its own.
LEMMA Holders ==
  ASSUME ProcInv, NEW n \in DOMAIN procs
  PROVE  /\ Holder(n) = 0 \/ Holder(n) \in DOMAIN procs
         /\ Live(n) => Holder(n) = n
         /\ Holder(n) = n => Live(n)
<1> DEFINE same == {m \in DOMAIN procs : procs[m].pid = procs[n].pid /\ Live(m)}
<1>1. Holder(n) = IF same = {} THEN 0 ELSE CHOOSE m \in same : TRUE
  BY Zenon DEF Holder
<1>2. Live(n) => n \in same /\ \A m \in same : m = n
  BY Zenon DEF ProcInv
<1>3. n # 0
  <2>1. DOMAIN procs = 1 .. Len(procs)
    BY Zenon, LenProperties DEF ProcInv
  <2> QED BY <2>1
<1>4. \A m \in same : m \in DOMAIN procs /\ Live(m)
  BY Zenon
<1> HIDE DEF same
<1>5. same = {} \/ (CHOOSE m \in same : TRUE) \in same
  BY Zenon
<1> QED BY Zenon, <1>1, <1>2, <1>3, <1>4, <1>5

LEMMA Strikes ==
  ASSUME ProcInv, NEW target, target = 0 \/ target \in DOMAIN procs, Strike(target)
  PROVE  ProcInv' /\ Persist
BY Zenon, Same, Deaths DEF Strike

----------------------------------------------------------------------------
(***************************************************************************)
(* What is queued or under way                                             *)
(***************************************************************************)

Event == [kind : {"exec"} \cup Attacks, n : Nat]

FastInv == fast \in Seq(Event) /\ \A i \in DOMAIN fast : fast[i].n \in DOMAIN procs

DeferredInv == deferred \in Seq(Nat) /\ \A i \in DOMAIN deferred : deferred[i] \in DOMAIN procs

\* What was found was found with a policy and about a process h that had the pid
\* of w.n then: w.n itself if it still lives.
Enriched(w) ==
  /\ w.n \in DOMAIN procs
  /\ w.pol \in Policies
  /\ \E h \in DOMAIN procs : /\ w.found = evaluateAll(Pol[w.pol], Now, EnrichedView(w.n, h))
                             /\ Live(w.n) => h = w.n

PendingInv == pending = NoWork \/ Enriched(pending)

CycleInv ==
  /\ cycle = [pol |-> cycle.pol, todo |-> cycle.todo]
  /\ cycle.pol \in Policies
  /\ cycle.todo \subseteq DOMAIN procs

WorkInv == FastInv /\ DeferredInv /\ PendingInv /\ CycleInv

LEMMA FastKept ==
  ASSUME FastInv, Persist, UNCHANGED fast
  PROVE  FastInv'
BY Zenon DEF FastInv, Persist

LEMMA DeferredKept ==
  ASSUME DeferredInv, Persist, UNCHANGED deferred
  PROVE  DeferredInv'
BY Zenon DEF DeferredInv, Persist

LEMMA CycleKept ==
  ASSUME CycleInv, Persist, UNCHANGED cycle
  PROVE  CycleInv'
BY Zenon DEF CycleInv, Persist

\* A view is made of the program, which a process keeps.
LEMMA ViewKept ==
  ASSUME Persist, NEW n \in DOMAIN procs, NEW h \in DOMAIN procs
  PROVE  EnrichedView(n, h)' = EnrichedView(n, h)
<1>1. procs'[n].prog = procs[n].prog /\ procs'[h].prog = procs[h].prog
  BY Zenon DEF Persist
<1>2. View("deferred", h)' = View("deferred", h)
  BY Zenon, <1>1 DEF View
<1> QED BY ZenonT(30), <1>1, <1>2 DEF EnrichedView

LEMMA PendingKept ==
  ASSUME PendingInv, Persist, UNCHANGED pending
  PROVE  PendingInv'
<1>1. CASE pending = NoWork
  BY Zenon, <1>1 DEF PendingInv
<1>2. CASE Enriched(pending)
  <2>1. PICK h \in DOMAIN procs :
          /\ pending.found = evaluateAll(Pol[pending.pol], Now, EnrichedView(pending.n, h))
          /\ Live(pending.n) => h = pending.n
    BY Zenon, <1>2 DEF Enriched
  <2>2. pending.n \in DOMAIN procs /\ pending.pol \in Policies
    BY Zenon, <1>2 DEF Enriched
  <2>3. PICK m : m = pending.n
    BY Zenon
  <2>4. EnrichedView(m, h)' = EnrichedView(m, h)
    BY Zenon, <2>2, <2>3, ViewKept
  <2>5. h \in DOMAIN procs' /\ m \in DOMAIN procs' /\ (Live(m)' => Live(m))
    BY Zenon, <2>2, <2>3 DEF Persist, Live
  <2>6. pending' = pending /\ pending'.n = m
    BY Zenon, <2>3
  <2>7. Enriched(pending)'
    BY ZenonT(40), <2>1, <2>2, <2>3, <2>4, <2>5, <2>6 DEF Enriched
  <2> QED BY Zenon, <2>7 DEF PendingInv
<1> QED BY Zenon, <1>1, <1>2 DEF PendingInv

\* With the process itself, the deferred view is its own.
LEMMA OwnView ==
  ASSUME NEW n
  PROVE  EnrichedView(n, n) = View("deferred", n)
<1> DEFINE t == Traits[procs[n].prog]
           f == [x \in Sees["deferred"] |-> t[x]]
<1>1. View("deferred", n) = f
  BY Zenon DEF View, ViewOf, Restrict
<1>2. "name" \in Sees["deferred"] /\ "user" \in Sees["deferred"]
  BY Zenon DEF Sees
<1>3. [f EXCEPT !["name"] = t["name"], !["user"] = t["user"]] = f
  <2> HIDE DEF t
  <2> QED BY ZenonT(30), <1>2
<1> QED BY Zenon, <1>1, <1>3 DEF EnrichedView

LEMMA Taken ==
  ASSUME FastInv, NEW kinds, Take(kinds)
  PROVE  /\ Head(fast).n \in DOMAIN procs
         /\ fast' \in Seq(Event)
         /\ \A i \in DOMAIN fast' : fast'[i].n \in DOMAIN procs
<1>1. fast \in Seq(Event) /\ fast # << >> /\ fast' = Tail(fast)
  BY Zenon DEF Take, FastInv
<1>2. /\ Len(fast) \in Nat \ {0} /\ DOMAIN fast = 1 .. Len(fast)
      /\ Tail(fast) \in Seq(Event) /\ Len(Tail(fast)) = Len(fast) - 1
      /\ \A i \in 1 .. Len(Tail(fast)) : Tail(fast)[i] = fast[i + 1]
  BY Zenon, <1>1, EmptySeq, LenProperties, HeadTailProperties
<1>3. DOMAIN fast' = 1 .. Len(fast')
  BY Zenon, <1>1, <1>2, LenProperties
<1>4. Head(fast) = fast[1] /\ 1 \in DOMAIN fast
  BY <1>1, <1>2
<1>5. ASSUME NEW i \in DOMAIN fast'
      PROVE  i + 1 \in DOMAIN fast /\ fast'[i] = fast[i + 1]
  BY <1>1, <1>2, <1>3
<1> QED BY Zenon, <1>1, <1>2, <1>4, <1>5 DEF FastInv

----------------------------------------------------------------------------
(***************************************************************************)
(* Responses                                                               *)
(***************************************************************************)

\* A key that cools is the key of a response that was given, of a rule that
\* audits, or of a process whose start ticks were not known.
CoolInv == \A key \in cooling : key[2] = 0 \/ key \in answered \/ Audits(key[1])

LEMMA CoolKept ==
  ASSUME CoolInv, cooling' \subseteq cooling, answered \subseteq answered'
  PROVE  CoolInv'
BY Zenon DEF CoolInv

LEMMA LoadedPol ==
  ASSUME NEW p \in Policies
  PROVE  Loaded(Pol[p]) /\ Now \in ClockTimes
BY Zenon, PolicyAssumption DEF Loaded

LEMMA FoundAudits ==
  ASSUME NEW pol \in Policies, NEW view, NEW r \in AuditRules(evaluateAll(Pol[pol], Now, view))
  PROVE  Audits(r.id)
<1>1. r \in Range(evaluateAll(Pol[pol], Now, view)) /\ HasEffect(r, "audit")
  BY Zenon DEF AuditRules
<1>2. PICK q \in Range(Pol[pol].rules) : r.id = q.id /\ r.effect = q.effect
  <2>1. PICK p : p = Pol[pol] /\ Loaded(p)
    BY Zenon, LoadedPol
  <2>2. OfPolicy(p, r)
    BY Zenon, <1>1, <2>1, FoundIsOfPolicy
  <2> QED BY Zenon, <2>1, <2>2 DEF OfPolicy
<1>3. HasEffect(q, "audit")
  BY Zenon, <1>1, <1>2 DEF HasEffect, EffectiveEffect
<1> QED BY Zenon, <1>2, <1>3 DEF Audits

\* A step that decides nothing about a response.
LEMMA NothingDecided ==
  ASSUME outcome' = NoOutcome
  PROVE  AnswersAreJustified' /\ CoolingResponseWasGiven'
<1>1. outcome'.what = "nothing"
  BY Zenon DEF NoOutcome
<1> QED BY Zenon, <1>1 DEF AnswersAreJustified, CoolingResponseWasGiven

IsAnswer(o, by, n, target, pol, id) ==
  /\ o.what = "answer"
  /\ o.by = by
  /\ o.n = n
  /\ o.target = target
  /\ o.pol = pol
  /\ o.rule = id

LEMMA AnswerStep ==
  ASSUME ProcInv, NEW by, NEW n, NEW target, target = 0 \/ target \in DOMAIN procs,
         NEW pol, NEW rule, Answer(by, n, target, pol, rule)
  PROVE  /\ ProcInv' /\ Persist
         /\ answered' = answered \cup {<<rule.id, target>>}
         /\ IsAnswer(outcome', by, n, target, pol, rule.id)
         /\ CoolingResponseWasGiven'
<1>1. ProcInv' /\ Persist
  BY Zenon, Strikes DEF Answer
<1>2. outcome' = [what |-> "answer", by |-> by, n |-> n, target |-> target,
                  pol |-> pol, rule |-> rule.id]
  BY Zenon DEF Answer
<1>3. IsAnswer(outcome', by, n, target, pol, rule.id)
  BY ZenonT(30), <1>2 DEF IsAnswer
<1>4. CoolingResponseWasGiven'
  BY Zenon, <1>3 DEF CoolingResponseWasGiven, IsAnswer
<1> QED BY Zenon, <1>1, <1>3, <1>4 DEF Answer

\* The paths that evaluate rules answer with the rule of the reference.
LEMMA RuleAnswer ==
  ASSUME NEW by \in {"poll", "deferred", "ptrace", "ldpreload", "instrument"},
         NEW n, NEW target, NEW pol \in Policies, NEW id,
         IsAnswer(outcome', by, n, target, pol, id),
         target = n => id = ResponseRule(evaluateAll(Pol[pol], Now, ViewOf(by, procs'[n].prog))).id
  PROVE  AnswersAreJustified'
<1>1. PICK prog : prog = procs'[n].prog
  BY Zenon
<1>2. target # n \/ id = ReferenceResponse(Pol[pol], Now, ViewOf(by, prog))
  BY ZenonT(40), <1>1, LoadedPol, ResponseIsReference
<1>3. by \notin {"access", "exec", "selfprotect"}
  BY Zenon
<1> QED BY ZenonT(30), <1>1, <1>2, <1>3 DEF AnswersAreJustified, IsAnswer

LEMMA AccessAnswer ==
  ASSUME NEW n, NEW target, NEW pol, NEW id, IsAnswer(outcome', "access", n, target, pol, id),
         AccessDenies(pol, procs'[n].prog)
  PROVE  AnswersAreJustified'
BY ZenonT(30) DEF AnswersAreJustified, IsAnswer

LEMMA ExecAnswer ==
  ASSUME NEW n, NEW target, NEW pol, NEW id, IsAnswer(outcome', "exec", n, target, pol, id),
         AccessDenies(pol, procs'[n].prog) \/ HiddenWhitelist(pol)
  PROVE  AnswersAreJustified'
BY ZenonT(30) DEF AnswersAreJustified, IsAnswer

LEMMA SelfProtectAnswer ==
  ASSUME NEW n, NEW target, NEW pol, NEW id,
         IsAnswer(outcome', "selfprotect", n, target, pol, id),
         target = n \/ ~Live(n)'
  PROVE  AnswersAreJustified'
BY ZenonT(30) DEF AnswersAreJustified, IsAnswer

\* What EvaluateProcessAccess denies, the lists deny.
LEMMA Denial ==
  ASSUME NEW pol, NEW view, NEW rule, rule = EvaluateProcessAccess(Pol[pol], view),
         rule # NoRule, rule.decision # "allow"
  PROVE  /\ ~Whitelisted(pol, view)
         /\ \/ Blacklisted(pol, view)
            \/ Pol[pol].access.mode = "enforce" /\ Pol[pol].access.whitelist # {}
<1>1. AccessRule("process-access-whitelist", "allow", "none").decision = "allow"
  BY Zenon DEF AccessRule
<1> QED BY Zenon, <1>1 DEF EvaluateProcessAccess, Whitelisted, Blacklisted

LEMMA PollDenial ==
  ASSUME NEW pol, NEW prog, NEW rule,
         rule = EvaluateProcessAccess(Pol[pol], ViewOf("poll", prog)),
         rule # NoRule, rule.decision # "allow"
  PROVE  AccessDenies(pol, prog)
BY Zenon, Denial DEF AccessDenies

\* The poll sees all that the fast path sees.
LEMMA ExecSeesLess ==
  ASSUME NEW prog, NEW m
  PROVE  /\ matches(m, ViewOf("exec", prog)) => matches(m, ViewOf("poll", prog))
         /\ matches(m, ViewOf("poll", prog)) /\ DOMAIN m \subseteq Sees["exec"]
              => matches(m, ViewOf("exec", prog))
<1> DEFINE E == Sees["exec"]
           P == Sees["poll"]
           t == Traits[prog]
<1>1. E \subseteq P
  BY Zenon DEF Sees
<1>2. ViewOf("exec", prog) = [x \in E |-> t[x]] /\ ViewOf("poll", prog) = [x \in P |-> t[x]]
  BY Zenon DEF ViewOf, Restrict
<1> HIDE DEF E, P, t
<1>3. /\ DOMAIN ViewOf("exec", prog) = E /\ DOMAIN ViewOf("poll", prog) = P
      /\ \A x \in E : ViewOf("exec", prog)[x] = t[x]
      /\ \A x \in P : ViewOf("poll", prog)[x] = t[x]
  BY Zenon, <1>2
<1> QED BY Zenon, <1>1, <1>3 DEF matches, E

LEMMA ExecDenial ==
  ASSUME NEW pol, NEW prog, NEW rule,
         rule = EvaluateProcessAccess(Pol[pol], ViewOf("exec", prog)),
         rule # NoRule, rule.decision # "allow"
  PROVE  AccessDenies(pol, prog) \/ HiddenWhitelist(pol)
<1>1. /\ ~Whitelisted(pol, ViewOf("exec", prog))
      /\ \/ Blacklisted(pol, ViewOf("exec", prog))
         \/ Pol[pol].access.mode = "enforce" /\ Pol[pol].access.whitelist # {}
  BY Zenon, Denial
<1>2. Blacklisted(pol, ViewOf("exec", prog)) => Blacklisted(pol, ViewOf("poll", prog))
  BY Zenon, ExecSeesLess DEF Blacklisted
<1>3. Whitelisted(pol, ViewOf("poll", prog)) => HiddenWhitelist(pol)
  BY Zenon, <1>1, ExecSeesLess DEF Whitelisted, HiddenWhitelist
<1> QED BY Zenon, <1>1, <1>2, <1>3 DEF AccessDenies

\* applyMatchSet, for the process n and whoever has its pid.
LEMMA MatchSetStep ==
  ASSUME ProcInv, CoolInv, NEW found, NEW by \in {"poll", "deferred"}, NEW n \in DOMAIN procs,
         NEW target, target = 0 \/ target \in DOMAIN procs, NEW pol \in Policies,
         NEW view, found = evaluateAll(Pol[pol], Now, view),
         target = n => found = evaluateAll(Pol[pol], Now, View(by, n)),
         applyMatchSet(found, by, n, target, pol)
  PROVE  /\ ProcInv' /\ Persist /\ CoolInv'
         /\ AnswersAreJustified' /\ CoolingResponseWasGiven'
<1> DEFINE audits == AuditRules(found)
           audited == {r.id : r \in audits}
           resp == ResponseRule(found)
           key == <<resp.id, target>>
           auditKeys == {<<r.id, target>> : r \in audits}
<1>1. \A r \in audits : Audits(r.id)
  BY Zenon, FoundAudits
<1>2. key[1] = resp.id /\ key[2] = target
  BY ZenonT(30)
<1>3. \A x \in auditKeys : Audits(x[1])
  <2>1. ASSUME NEW x \in auditKeys
        PROVE  Audits(x[1])
    <3>1. PICK r \in audits : x = <<r.id, target>>
      BY Zenon
    <3>2. x[1] = r.id
      BY ZenonT(30), <3>1
    <3> QED BY ZenonT(40), <1>1, <3>1, <3>2
  <2> QED BY Zenon, <2>1
<1>4. CASE Limited
  <2>1. UNCHANGED <<procs, cooling, answered>> /\ outcome' = NoOutcome
    BY Zenon, <1>4 DEF Limited, NoAnswer, Silent
  <2> QED BY ZenonT(40), <2>1, Same, CoolKept, NothingDecided
<1>5. CASE /\ cooling' = cooling \cup auditKeys \cup (IF resp = NoRule THEN {} ELSE {key})
           /\ \/ (resp = NoRule \/ target = 0) /\ NoAnswer
              \/ /\ resp # NoRule /\ target # 0 /\ key \notin cooling /\ resp.id \notin audited
                 /\ Answer(by, n, target, pol, resp)
              \/ /\ resp # NoRule /\ target # 0 /\ (key \in cooling \/ resp.id \in audited)
                 /\ outcome' = [what |-> "muted", target |-> target, pol |-> pol,
                                rule |-> resp.id,
                                why |-> IF key \in cooling THEN "cooling" ELSE "audited"]
                 /\ UNCHANGED <<answered, procs>>
  <2> HIDE DEF audits, audited, auditKeys, resp
  <2>1. \A x \in cooling' : x \in cooling \/ Audits(x[1]) \/ (resp # NoRule /\ x = key)
    BY Zenon, <1>3, <1>5
  <2>2. ASSUME answered \subseteq answered',
               resp = NoRule \/ target = 0 \/ key \in answered' \/ Audits(resp.id) \/ key \in cooling
        PROVE  CoolInv'
    <3>1. resp # NoRule => key[2] = 0 \/ key \in answered' \/ Audits(key[1])
      BY Zenon, <1>2, <2>2 DEF CoolInv
    <3>2. \A x \in cooling : x[2] = 0 \/ x \in answered' \/ Audits(x[1])
      BY Zenon, <2>2 DEF CoolInv
    <3> HIDE DEF key
    <3> QED BY Zenon, <2>1, <3>1, <3>2 DEF CoolInv
  <2>3. CASE (resp = NoRule \/ target = 0) /\ NoAnswer
    <3>1. UNCHANGED <<procs, answered>> /\ outcome' = NoOutcome
      BY Zenon, <2>3 DEF NoAnswer, Silent
    <3>2. CoolInv'
      BY Zenon, <2>2, <2>3, <3>1
    <3> QED BY ZenonT(40), <3>1, <3>2, Same, NothingDecided
  <2>4. CASE /\ resp # NoRule /\ target # 0 /\ key \notin cooling /\ resp.id \notin audited
             /\ Answer(by, n, target, pol, resp)
    <3>1. /\ ProcInv' /\ Persist
          /\ answered' = answered \cup {key}
          /\ IsAnswer(outcome', by, n, target, pol, resp.id)
          /\ CoolingResponseWasGiven'
      BY Zenon, <2>4, AnswerStep
    <3>2. CoolInv'
      BY Zenon, <2>2, <3>1
    <3>3. procs'[n].prog = procs[n].prog
      BY Zenon, <3>1 DEF Persist
    <3>4. target = n => resp.id = ResponseRule(evaluateAll(Pol[pol], Now, ViewOf(by, procs'[n].prog))).id
      BY Zenon, <3>3 DEF resp, View
    <3>5. AnswersAreJustified'
      BY Zenon, <3>1, <3>4, RuleAnswer
    <3> QED BY Zenon, <3>1, <3>2, <3>5
  <2>5. CASE /\ resp # NoRule /\ target # 0 /\ (key \in cooling \/ resp.id \in audited)
             /\ outcome' = [what |-> "muted", target |-> target, pol |-> pol,
                            rule |-> resp.id,
                            why |-> IF key \in cooling THEN "cooling" ELSE "audited"]
             /\ UNCHANGED <<answered, procs>>
    <3>1. resp.id \in audited => Audits(resp.id)
      BY Zenon, <1>1 DEF audited
    <3>2. CoolInv'
      BY ZenonT(40), <2>2, <2>5, <3>1
    <3>3. outcome'.what = "muted" /\ outcome'.rule = resp.id /\ outcome'.target = target
          /\ outcome'.why = IF key \in cooling THEN "cooling" ELSE "audited"
      <4> HIDE DEF key
      <4> QED BY ZenonT(30), <2>5
    <3>4. AnswersAreJustified'
      BY Zenon, <3>3 DEF AnswersAreJustified
    <3>5. outcome'.why = "cooling" => key \in answered' \/ Audits(resp.id)
      BY ZenonT(40), <1>2, <2>5, <3>3 DEF CoolInv
    <3>6. CoolingResponseWasGiven'
      BY ZenonT(40), <3>3, <3>5 DEF CoolingResponseWasGiven
    <3> QED BY ZenonT(40), <2>5, <3>2, <3>4, <3>6, Same
  <2> QED BY ZenonT(40), <1>5, <2>3, <2>4, <2>5
<1>6. Limited \/ (cooling' = cooling \cup auditKeys \cup (IF resp = NoRule THEN {} ELSE {key})
                  /\ CASE resp = NoRule \/ target = 0 -> NoAnswer
                       [] resp # NoRule /\ target # 0 /\ key \notin cooling /\ resp.id \notin audited ->
                            Answer(by, n, target, pol, resp)
                       [] OTHER -> /\ outcome' = [what |-> "muted", target |-> target, pol |-> pol,
                                                  rule |-> resp.id,
                                                  why |-> IF key \in cooling THEN "cooling" ELSE "audited"]
                                   /\ UNCHANGED <<answered, procs>>)
  BY Zenon DEF applyMatchSet, dedupKeyForRule
<1> HIDE DEF audits, audited, auditKeys, resp, key
<1>7. QED
  BY ZenonT(30), <1>4, <1>5, <1>6

\* A response by the process access lists in the polling loop.
LEMMA AccessStep ==
  ASSUME ProcInv, CoolInv, NEW n \in DOMAIN procs, NEW pol, NEW rule,
         AccessDenies(pol, procs[n].prog), ApplyAccessRule(n, pol, rule)
  PROVE  /\ ProcInv' /\ Persist /\ CoolInv'
         /\ AnswersAreJustified' /\ CoolingResponseWasGiven'
<1> DEFINE key == <<rule.id, n>>
<1>1. CASE NoAnswer /\ UNCHANGED cooling
  <2>1. UNCHANGED <<procs, cooling, answered>> /\ outcome' = NoOutcome
    BY Zenon, <1>1 DEF NoAnswer, Silent
  <2> QED BY ZenonT(40), <2>1, Same, CoolKept, NothingDecided
<1>2. CASE cooling' = cooling \cup {key} /\ Answer("access", n, n, pol, rule)
  <2>1. /\ ProcInv' /\ Persist
        /\ answered' = answered \cup {key}
        /\ IsAnswer(outcome', "access", n, n, pol, rule.id)
        /\ CoolingResponseWasGiven'
    BY Zenon, <1>2, AnswerStep
  <2>2. AnswersAreJustified'
    BY Zenon, <2>1, AccessAnswer DEF Persist
  <2>3. CoolInv'
    <3> HIDE DEF key
    <3> QED BY Zenon, <1>2, <2>1 DEF CoolInv
  <2> QED BY Zenon, <2>1, <2>2, <2>3
<1> QED BY Zenon, <1>1, <1>2 DEF ApplyAccessRule, Limited, dedupKeyForRule

----------------------------------------------------------------------------
(***************************************************************************)
(* The steps                                                               *)
(***************************************************************************)

EnfInv ==
  /\ MapsInv /\ ProcInv /\ WorkInv /\ CoolInv
  /\ AnswersAreJustified /\ CoolingResponseWasGiven

\* What every step keeps of the processes, the gates and the responses.
Kept ==
  /\ ProcInv' /\ Persist /\ CoolInv'
  /\ AnswersAreJustified' /\ CoolingResponseWasGiven'

\* A step that leaves the processes and the gates alone.
LEMMA QuietStep ==
  ASSUME EnfInv, outcome' = NoOutcome, UNCHANGED <<procs, cooling, answered>>
  PROVE  Kept
<1>1. ProcInv' /\ Persist
  BY Zenon, Same DEF EnfInv
<1>2. CoolInv'
  BY Zenon, CoolKept DEF EnfInv
<1> QED BY Zenon, <1>1, <1>2, NothingDecided DEF Kept

LEMMA WorkKept ==
  ASSUME WorkInv, Persist, UNCHANGED work
  PROVE  WorkInv'
BY ZenonT(40), FastKept, DeferredKept, CycleKept, PendingKept DEF WorkInv, work

\* One more at the end of a queue.
LEMMA Queued ==
  ASSUME NEW S, NEW s \in Seq(S), NEW e \in S
  PROVE  /\ Append(s, e) \in Seq(S)
         /\ \A i \in DOMAIN Append(s, e) : \/ i \in DOMAIN s /\ Append(s, e)[i] = s[i]
                                          \/ Append(s, e)[i] = e
<1>1. /\ Append(s, e) \in Seq(S)
      /\ Len(Append(s, e)) = Len(s) + 1
      /\ \A i \in 1 .. Len(s) : Append(s, e)[i] = s[i]
      /\ Append(s, e)[Len(s) + 1] = e
  BY AppendProperties
<1>2. /\ Len(s) \in Nat /\ DOMAIN s = 1 .. Len(s)
      /\ DOMAIN Append(s, e) = 1 .. Len(Append(s, e))
  BY Zenon, <1>1, LenProperties
<1>3. \A i \in DOMAIN Append(s, e) : i \in DOMAIN s \/ i = Len(s) + 1
  BY <1>1, <1>2
<1> QED BY Zenon, <1>1, <1>2, <1>3

\* One less at the front of it.
LEMMA Dequeued ==
  ASSUME NEW S, NEW s \in Seq(S), s # << >>
  PROVE  /\ 1 \in DOMAIN s /\ Head(s) = s[1]
         /\ Tail(s) \in Seq(S)
         /\ \A i \in DOMAIN Tail(s) : i + 1 \in DOMAIN s /\ Tail(s)[i] = s[i + 1]
<1>1. /\ Len(s) \in Nat \ {0} /\ DOMAIN s = 1 .. Len(s)
      /\ Tail(s) \in Seq(S) /\ Len(Tail(s)) = Len(s) - 1
      /\ \A i \in 1 .. Len(Tail(s)) : Tail(s)[i] = s[i + 1]
  BY ZenonT(40), EmptySeq, LenProperties, HeadTailProperties
<1>2. DOMAIN Tail(s) = 1 .. Len(Tail(s))
  BY Zenon, <1>1, LenProperties
<1>3. 1 \in DOMAIN s /\ Head(s) = s[1]
  BY <1>1
<1>4. \A i \in DOMAIN Tail(s) : i + 1 \in DOMAIN s
  BY <1>1, <1>2
<1> QED BY Zenon, <1>1, <1>2, <1>3, <1>4

LEMMA Delivered ==
  ASSUME FastInv, Persist, NEW kind \in {"exec"} \cup Attacks, NEW n \in DOMAIN procs',
         n \in Nat, Deliver([kind |-> kind, n |-> n])
  PROVE  FastInv'
<1>1. CASE fast' = fast
  BY Zenon, <1>1, FastKept
<1>2. CASE fast' = Append(fast, [kind |-> kind, n |-> n])
  <2>1. PICK ev \in Event : ev = [kind |-> kind, n |-> n] /\ ev.n = n
    BY DEF Event
  <2>2. fast \in Seq(Event) /\ fast' = Append(fast, ev)
    BY Zenon, <1>2, <2>1 DEF FastInv
  <2>3. /\ fast' \in Seq(Event)
        /\ \A i \in DOMAIN fast' : (i \in DOMAIN fast /\ fast'[i] = fast[i]) \/ fast'[i] = ev
    BY ZenonT(40), <2>2, Queued
  <2> QED BY Zenon, <2>1, <2>3 DEF FastInv, Persist
<1> QED BY Zenon, <1>1, <1>2 DEF Deliver

\* A fast path handler has taken its event and touched nothing else that is
\* queued.
LEMMA FastTaken ==
  ASSUME WorkInv, NEW kinds, Take(kinds), Persist, UNCHANGED <<deferred, pending, cycle>>
  PROVE  WorkInv'
<1>1. FastInv'
  <2>1. fast' \in Seq(Event) /\ \A i \in DOMAIN fast' : fast'[i].n \in DOMAIN procs
    BY Zenon, Taken DEF WorkInv
  <2> QED BY Zenon, <2>1 DEF FastInv, Persist
<1> QED BY Zenon, <1>1, DeferredKept, PendingKept, CycleKept DEF WorkInv

LEMMA Inhabited ==
  ASSUME ProcInv, NEW n \in DOMAIN procs
  PROVE  n \in Nat /\ procs[n] \in Proc /\ procs[n].prog \in Programs
<1>1. procs \in [1 .. Len(procs) -> Proc] /\ DOMAIN procs = 1 .. Len(procs) /\ Len(procs) \in Nat
  BY Zenon, LenProperties DEF ProcInv
<1>2. procs[n] \in Proc
  BY Zenon, <1>1
<1> QED BY <1>1, <1>2 DEF Proc

LEMMA ExecStep ==
  ASSUME EnfInv, Exec
  PROVE  Kept /\ WorkInv'
<1>1. PICK pid \in Pids, prog \in Programs :
        /\ \A n \in DOMAIN procs : Live(n) => procs[n].pid # pid
        /\ procs' = Append(procs, [pid |-> pid, prog |-> prog, alive |-> ~ProbeKills(prog)])
  BY Zenon DEF Exec
<1>2. (~ProbeKills(prog)) \in BOOLEAN
  BY Zenon DEF ProbeKills
<1>3. PICK alive \in BOOLEAN : alive = ~ProbeKills(prog)
  BY Zenon, <1>2
<1>4. ProcInv' /\ Persist /\ Len(procs) + 1 \in DOMAIN procs'
  BY Zenon, <1>1, <1>3, Births DEF EnfInv
<1>5. Len(procs) + 1 \in Nat
  <2>1. Len(procs) \in Nat
    BY Zenon, LenProperties DEF EnfInv, ProcInv
  <2> QED BY <2>1
<1>6. FastInv'
  <2>1. Deliver([kind |-> "exec", n |-> Len(procs) + 1])
    BY Zenon DEF Exec
  <2> QED BY ZenonT(40), <1>4, <1>5, <2>1, Delivered DEF EnfInv, WorkInv
<1>7. UNCHANGED <<deferred, pending, cycle, cooling, answered>> /\ outcome' = NoOutcome
  BY Zenon DEF Exec, gates, Silent
<1>8. WorkInv'
  BY ZenonT(40), <1>4, <1>6, <1>7, DeferredKept, PendingKept, CycleKept DEF EnfInv, WorkInv
<1>9. CoolInv'
  BY Zenon, <1>7, CoolKept DEF EnfInv
<1> QED BY ZenonT(40), <1>4, <1>7, <1>8, <1>9, NothingDecided DEF Kept

LEMMA ExitStep ==
  ASSUME EnfInv, Exit
  PROVE  Kept /\ WorkInv'
<1>1. PICK n \in DOMAIN procs : procs' = [procs EXCEPT ![n].alive = FALSE]
  BY Zenon DEF Exit
<1>2. ProcInv' /\ Persist
  BY Zenon, <1>1, Deaths DEF EnfInv
<1>3. UNCHANGED <<work, cooling, answered>> /\ outcome' = NoOutcome
  BY Zenon DEF Exit, gates, Silent
<1>4. WorkInv'
  BY ZenonT(40), <1>2, <1>3, WorkKept DEF EnfInv
<1>5. CoolInv'
  BY ZenonT(40), <1>3, CoolKept DEF EnfInv
<1> QED BY ZenonT(40), <1>2, <1>3, <1>4, <1>5, NothingDecided DEF Kept

LEMMA AttackStep ==
  ASSUME EnfInv, Attack
  PROVE  Kept /\ WorkInv'
<1>1. PICK n \in DOMAIN procs, kind \in Attacks : Deliver([kind |-> kind, n |-> n])
  BY Zenon DEF Attack
<1>2. UNCHANGED <<procs, deferred, pending, cycle, cooling, answered>> /\ outcome' = NoOutcome
  BY Zenon DEF Attack, kernel, gates, Silent
<1>3. Kept
  BY ZenonT(40), <1>2, QuietStep
<1>4. n \in DOMAIN procs' /\ n \in Nat
  BY Zenon, <1>2, Inhabited DEF EnfInv
<1>5. FastInv'
  BY ZenonT(40), <1>1, <1>3, <1>4, Delivered DEF EnfInv, WorkInv, Kept
<1>6. WorkInv'
  BY ZenonT(40), <1>2, <1>3, <1>5, DeferredKept, PendingKept, CycleKept DEF EnfInv, WorkInv, Kept
<1> QED BY Zenon, <1>3, <1>6

\* ReplacePolicy and the steps of syncBPFMaps.
LEMMA SyncStep ==
  ASSUME EnfInv, ReplacePolicy \/ BlacklistClear \/ BlacklistFilenameClear \/ BlacklistAdd \/ SyncDone
  PROVE  Kept /\ WorkInv'
<1>1. UNCHANGED <<procs, work, cooling, answered>> /\ outcome' = NoOutcome
  BY Zenon DEF ReplacePolicy, BlacklistClear, BlacklistFilenameClear, BlacklistAdd, SyncDone,
               kernel, gates, Silent
<1>2. Kept
  BY Zenon, <1>1, QuietStep
<1>3. WorkInv'
  BY Zenon, <1>1, <1>2, WorkKept DEF EnfInv, Kept
<1> QED BY Zenon, <1>2, <1>3

LEMMA CooldownStep ==
  ASSUME EnfInv, NEW key \in cooling, CooldownOver(key)
  PROVE  Kept /\ WorkInv'
<1>1. /\ UNCHANGED <<procs, work, answered>> /\ outcome' = NoOutcome
      /\ cooling' \subseteq cooling
  BY Zenon DEF CooldownOver, kernel, Silent
<1>2. ProcInv' /\ Persist
  BY Zenon, <1>1, Same DEF EnfInv
<1>3. CoolInv'
  BY Zenon, <1>1, CoolKept DEF EnfInv
<1>4. WorkInv'
  BY Zenon, <1>1, <1>2, WorkKept DEF EnfInv
<1> QED BY ZenonT(40), <1>1, <1>2, <1>3, <1>4, NothingDecided DEF Kept

\* A response past the Suppressor leaves its gates alone.
LEMMA UngatedAnswer ==
  ASSUME EnfInv, NEW by, NEW n, NEW target, target = 0 \/ target \in DOMAIN procs,
         NEW pol, NEW rule, Answer(by, n, target, pol, rule), UNCHANGED cooling
  PROVE  /\ ProcInv' /\ Persist /\ CoolInv' /\ CoolingResponseWasGiven'
         /\ IsAnswer(outcome', by, n, target, pol, rule.id)
<1>1. /\ ProcInv' /\ Persist
      /\ answered' = answered \cup {<<rule.id, target>>}
      /\ IsAnswer(outcome', by, n, target, pol, rule.id)
      /\ CoolingResponseWasGiven'
  BY Zenon, AnswerStep DEF EnfInv
<1>2. CoolInv'
  BY Zenon, <1>1, CoolKept DEF EnfInv
<1> QED BY Zenon, <1>1, <1>2

LEMMA FastPathExecStep ==
  ASSUME EnfInv, FastPathExec
  PROVE  Kept /\ WorkInv'
<1>1. PICK n : n = Head(fast).n
  BY ZenonT(30)
<1>2. PICK rule : rule = EvaluateProcessAccess(Pol[policy], View("exec", n))
  BY ZenonT(30)
<1>3. /\ Take({"exec"})
      /\ \/ /\ deferred' = IF Len(deferred) < DeferredCap THEN Append(deferred, n) ELSE deferred
            /\ NoAnswer
         \/ /\ rule # NoRule /\ rule.decision # "allow"
            /\ Answer("exec", n, Holder(n), policy, rule)
            /\ UNCHANGED deferred
      /\ UNCHANGED <<pending, cycle, cooling>>
  BY Zenon, <1>1, <1>2 DEF FastPathExec
<1>4. n \in DOMAIN procs
  BY ZenonT(40), <1>1, <1>3, Taken DEF EnfInv, WorkInv
<1>5. CASE /\ deferred' = IF Len(deferred) < DeferredCap THEN Append(deferred, n) ELSE deferred
           /\ NoAnswer
  <2>1. UNCHANGED <<procs, cooling, answered>> /\ outcome' = NoOutcome
    BY Zenon, <1>3, <1>5 DEF NoAnswer, Silent
  <2>2. Kept
    BY Zenon, <2>1, QuietStep
  <2>3. CASE deferred' = deferred
    BY ZenonT(40), <1>3, <2>2, <2>3, FastTaken DEF EnfInv, Kept
  <2>4. CASE deferred' = Append(deferred, n)
    <3>1. n \in Nat /\ deferred \in Seq(Nat)
      BY Zenon, <1>4, Inhabited DEF EnfInv, WorkInv, DeferredInv
    <3>2. /\ deferred' \in Seq(Nat)
          /\ \A i \in DOMAIN deferred' :
               (i \in DOMAIN deferred /\ deferred'[i] = deferred[i]) \/ deferred'[i] = n
      BY ZenonT(40), <2>4, <3>1, Queued
    <3>3. DeferredInv'
      BY Zenon, <1>4, <2>1, <3>2 DEF EnfInv, WorkInv, DeferredInv
    <3>4. FastInv'
      <4>1. fast' \in Seq(Event) /\ \A i \in DOMAIN fast' : fast'[i].n \in DOMAIN procs
        BY Zenon, <1>3, Taken DEF EnfInv, WorkInv
      <4> QED BY Zenon, <2>1, <4>1 DEF FastInv
    <3>5. PendingInv' /\ CycleInv'
      BY ZenonT(40), <1>3, <2>2, PendingKept, CycleKept DEF EnfInv, WorkInv, Kept
    <3> QED BY ZenonT(40), <2>2, <3>3, <3>4, <3>5 DEF WorkInv
  <2> QED BY ZenonT(40), <1>5, <2>2, <2>3, <2>4
<1>6. CASE /\ rule # NoRule /\ rule.decision # "allow"
           /\ Answer("exec", n, Holder(n), policy, rule)
           /\ UNCHANGED deferred
  <2>1. Holder(n) = 0 \/ Holder(n) \in DOMAIN procs
    BY Zenon, <1>4, Holders DEF EnfInv
  <2>2. PICK h : h = Holder(n)
    BY ZenonT(30)
  <2>3. PICK pol : pol = policy
    BY ZenonT(30)
  <2>4. /\ ProcInv' /\ Persist /\ CoolInv' /\ CoolingResponseWasGiven'
        /\ IsAnswer(outcome', "exec", n, h, pol, rule.id)
    BY ZenonT(40), <1>3, <1>6, <2>1, <2>2, <2>3, UngatedAnswer
  <2>5. AccessDenies(pol, procs[n].prog) \/ HiddenWhitelist(pol)
    BY ZenonT(40), <1>2, <1>6, <2>3, ExecDenial DEF View
  <2>6. procs'[n].prog = procs[n].prog
    BY Zenon, <1>4, <2>4 DEF Persist
  <2>7. AnswersAreJustified'
    BY ZenonT(40), <2>4, <2>5, <2>6, ExecAnswer
  <2>8. WorkInv'
    BY ZenonT(40), <1>3, <1>6, <2>4, FastTaken DEF EnfInv
  <2> QED BY ZenonT(40), <2>4, <2>7, <2>8 DEF Kept
<1> QED BY ZenonT(40), <1>3, <1>5, <1>6

\* With the process itself on its pid, the path read from /proc is its own.
LEMMA OwnPath ==
  ASSUME NEW kind \in {"ptrace", "ldpreload", "instrument"}, NEW n
  PROVE  [View(kind, n) EXCEPT !["path"] = Traits[procs[n].prog]["path"]] = View(kind, n)
<1> DEFINE t == Traits[procs[n].prog]
           f == [x \in Sees[kind] |-> t[x]]
<1>1. View(kind, n) = f
  BY Zenon DEF View, ViewOf, Restrict
<1>2. "path" \in Sees[kind]
  BY DEF Sees
<1>3. [f EXCEPT !["path"] = t["path"]] = f
  <2> HIDE DEF t
  <2> QED BY ZenonT(30), <1>2
<1> QED BY Zenon, <1>1, <1>3

LEMMA FastPathAttackStep ==
  ASSUME EnfInv, NEW kind \in {"ptrace", "ldpreload", "instrument"}, FastPathAttack(kind)
  PROVE  Kept /\ WorkInv'
<1>1. PICK n : n = Head(fast).n
  BY ZenonT(30)
<1>2. PICK now : now = IF Holder(n) = 0 THEN [View(kind, n) EXCEPT !["path"] = {}]
                       ELSE [View(kind, n) EXCEPT !["path"] = Traits[procs[Holder(n)].prog]["path"]]
  BY Zenon
<1>3. PICK resp : resp = ResponseRule(evaluateAll(Pol[policy], Now, now))
  BY ZenonT(30)
<1>4. /\ Take({kind})
      /\ NoAnswer \/ Answer(kind, n, Holder(n), policy, resp)
      /\ UNCHANGED <<deferred, pending, cycle, cooling>>
  BY ZenonT(40), <1>1, <1>2, <1>3 DEF FastPathAttack
<1>5. n \in DOMAIN procs
  BY ZenonT(40), <1>1, <1>4, Taken DEF EnfInv, WorkInv
<1>6. CASE NoAnswer
  <2>1. UNCHANGED <<procs, cooling, answered>> /\ outcome' = NoOutcome
    BY Zenon, <1>4, <1>6 DEF NoAnswer, Silent
  <2>2. Kept
    BY Zenon, <2>1, QuietStep
  <2> QED BY ZenonT(40), <1>4, <2>2, FastTaken DEF EnfInv, Kept
<1>7. CASE Answer(kind, n, Holder(n), policy, resp)
  <2>1. (Holder(n) = 0 \/ Holder(n) \in DOMAIN procs) /\ n # 0
    <3>1. Holder(n) = 0 \/ Holder(n) \in DOMAIN procs
      BY Zenon, <1>5, Holders DEF EnfInv
    <3>2. DOMAIN procs = 1 .. Len(procs)
      BY ZenonT(40), LenProperties DEF EnfInv, ProcInv
    <3>3. n # 0
      BY SMTT(30), <1>5, <3>2
    <3> QED BY Zenon, <3>1, <3>3
  <2>2. PICK h : h = Holder(n)
    BY ZenonT(30)
  <2>3. PICK pol \in Policies : pol = policy
    BY Zenon DEF EnfInv, MapsInv
  <2>4. /\ ProcInv' /\ Persist /\ CoolInv' /\ CoolingResponseWasGiven'
        /\ IsAnswer(outcome', kind, n, h, pol, resp.id)
    BY ZenonT(40), <1>4, <1>7, <2>1, <2>2, <2>3, UngatedAnswer
  <2>5. h = n => now = View(kind, n)
    BY ZenonT(40), <1>2, <2>1, <2>2, OwnPath
  <2>6. procs'[n].prog = procs[n].prog
    BY ZenonT(40), <1>5, <2>4 DEF Persist
  <2>7. h = n => resp.id = ResponseRule(evaluateAll(Pol[pol], Now, ViewOf(kind, procs'[n].prog))).id
    BY ZenonT(40), <1>3, <2>3, <2>5, <2>6 DEF View
  <2>8. AnswersAreJustified'
    <3>1. kind \in {"poll", "deferred", "ptrace", "ldpreload", "instrument"}
      BY Zenon
    <3> QED BY ZenonT(40), <2>4, <2>7, <3>1, RuleAnswer
  <2>9. WorkInv'
    BY ZenonT(40), <1>4, <2>4, FastTaken DEF EnfInv
  <2> QED BY ZenonT(40), <2>4, <2>8, <2>9 DEF Kept
<1> QED BY ZenonT(40), <1>4, <1>6, <1>7

LEMMA FastPathSelfProtectStep ==
  ASSUME EnfInv, FastPathSelfProtect
  PROVE  Kept /\ WorkInv'
<1>1. PICK n : n = Head(fast).n
  OBVIOUS
<1>2. PICK rule : rule = [id |-> "self-protect-enforce"]
  BY Zenon
<1>3. /\ Take({"selfprotect"})
      /\ NoAnswer \/ Answer("selfprotect", n, Holder(n), policy, rule)
      /\ UNCHANGED <<deferred, pending, cycle, cooling>>
  BY Zenon, <1>1, <1>2 DEF FastPathSelfProtect
<1>4. n \in DOMAIN procs
  BY ZenonT(40), <1>1, <1>3, Taken DEF EnfInv, WorkInv
<1>5. CASE NoAnswer
  <2>1. UNCHANGED <<procs, cooling, answered>> /\ outcome' = NoOutcome
    BY ZenonT(40), <1>3, <1>5 DEF NoAnswer, Silent
  <2>2. Kept
    BY Zenon, <2>1, QuietStep
  <2> QED BY ZenonT(40), <1>3, <2>2, FastTaken DEF EnfInv, Kept
<1>6. CASE Answer("selfprotect", n, Holder(n), policy, rule)
  <2>1. /\ Holder(n) = 0 \/ Holder(n) \in DOMAIN procs
        /\ Live(n) => Holder(n) = n
    BY ZenonT(40), <1>4, Holders DEF EnfInv
  <2>2. PICK h : h = Holder(n)
    OBVIOUS
  <2>3. PICK pol : pol = policy
    OBVIOUS
  <2>4. /\ ProcInv' /\ Persist /\ CoolInv' /\ CoolingResponseWasGiven'
        /\ IsAnswer(outcome', "selfprotect", n, h, pol, rule.id)
    BY ZenonT(40), <1>3, <1>6, <2>1, <2>2, <2>3, UngatedAnswer
  <2>5. h = n \/ ~Live(n)'
    BY ZenonT(40), <1>4, <2>1, <2>2, <2>4 DEF Persist, Live
  <2>6. AnswersAreJustified'
    BY ZenonT(40), <2>4, <2>5, SelfProtectAnswer
  <2>7. WorkInv'
    BY ZenonT(40), <1>3, <2>4, FastTaken DEF EnfInv
  <2> QED BY ZenonT(40), <2>4, <2>6, <2>7 DEF Kept
<1> QED BY Zenon, <1>3, <1>5, <1>6

LEMMA DeferredEnrichStep ==
  ASSUME EnfInv, DeferredEnrich
  PROVE  Kept /\ WorkInv'
<1>1. PICK n : n = Head(deferred)
  BY ZenonT(30)
<1>2. PICK h : h = Holder(n)
  OBVIOUS
<1>3. PICK found : found = evaluateAll(Pol[policy], Now, EnrichedView(n, h))
  BY ZenonT(30)
<1>4. /\ deferred # << >> /\ deferred' = Tail(deferred)
      /\ \/ pending' = NoWork
         \/ h # 0 /\ pending' = [n |-> n, found |-> found, pol |-> policy]
  BY ZenonT(40), <1>1, <1>2, <1>3 DEF DeferredEnrich
<1>5. UNCHANGED <<procs, fast, cycle, cooling, answered>> /\ outcome' = NoOutcome
  BY Zenon DEF DeferredEnrich, kernel, gates, Silent
<1>6. Kept
  BY Zenon, <1>5, QuietStep
<1>7. /\ 1 \in DOMAIN deferred /\ Head(deferred) = deferred[1]
      /\ Tail(deferred) \in Seq(Nat)
      /\ \A i \in DOMAIN Tail(deferred) : i + 1 \in DOMAIN deferred /\ Tail(deferred)[i] = deferred[i + 1]
  BY ZenonT(40), <1>4, Dequeued DEF EnfInv, WorkInv, DeferredInv
<1>8. n \in DOMAIN procs /\ DeferredInv'
  BY ZenonT(40), <1>1, <1>4, <1>5, <1>7 DEF EnfInv, WorkInv, DeferredInv
<1>9. FastInv' /\ CycleInv'
  BY ZenonT(40), <1>5, <1>6, FastKept, CycleKept DEF EnfInv, WorkInv, Kept
<1>10. PendingInv'
  <2>1. CASE pending' = NoWork
    BY ZenonT(40), <2>1 DEF PendingInv
  <2>2. CASE h # 0 /\ pending' = [n |-> n, found |-> found, pol |-> policy]
    <3>1. PICK pol \in Policies : pol = policy
      BY Zenon DEF EnfInv, MapsInv
    <3>2. pending'.n = n /\ pending'.found = found /\ pending'.pol = pol
      BY ZenonT(30), <2>2, <3>1
    <3>3. h \in DOMAIN procs /\ (Live(n) => h = n)
      BY ZenonT(40), <1>2, <1>8, <2>2, Holders DEF EnfInv
    <3>4. EnrichedView(n, h)' = EnrichedView(n, h)
      BY ZenonT(40), <1>6, <1>8, <3>3, ViewKept DEF Kept
    <3>5. /\ n \in DOMAIN procs' /\ h \in DOMAIN procs'
          /\ Live(n)' => h = n
      BY ZenonT(40), <1>5, <1>8, <3>3 DEF Live
    <3>6. found = evaluateAll(Pol[pol], Now, EnrichedView(n, h)')
      BY ZenonT(40), <1>3, <3>1, <3>4
    <3>7. Enriched(pending)'
      BY ZenonT(40), <3>2, <3>5, <3>6 DEF Enriched
    <3> QED BY Zenon, <3>7 DEF PendingInv
  <2> QED BY ZenonT(40), <1>4, <2>1, <2>2
<1> QED BY ZenonT(40), <1>6, <1>8, <1>9, <1>10 DEF WorkInv

LEMMA DeferredApplyStep ==
  ASSUME EnfInv, DeferredApply
  PROVE  Kept /\ WorkInv'
<1>1. pending # NoWork /\ pending' = NoWork /\ UNCHANGED <<fast, deferred, cycle>>
  BY Zenon DEF DeferredApply
<1>2. Kept
  <2>1. CASE NoAnswer /\ UNCHANGED cooling
    <3>1. UNCHANGED <<procs, cooling, answered>> /\ outcome' = NoOutcome
      BY Zenon, <2>1 DEF NoAnswer, Silent
    <3> QED BY Zenon, <3>1, QuietStep
  <2>2. CASE \E target \in {Holder(pending.n), 0} :
               applyMatchSet(pending.found, "deferred", pending.n, target, pending.pol)
    <3>1. PICK n, found, pol, h :
            n = pending.n /\ found = pending.found /\ pol = pending.pol /\ h = Holder(n)
      BY Zenon
    <3>2. PICK target \in {h, 0} : applyMatchSet(found, "deferred", n, target, pol)
      BY ZenonT(40), <2>2, <3>1
    <3>3. PICK g \in DOMAIN procs :
            /\ n \in DOMAIN procs /\ pol \in Policies
            /\ found = evaluateAll(Pol[pol], Now, EnrichedView(n, g))
            /\ Live(n) => g = n
      BY Zenon, <1>1, <3>1 DEF EnfInv, WorkInv, PendingInv, Enriched
    <3>4. (h = 0 \/ h \in DOMAIN procs) /\ (h = n => Live(n))
      BY ZenonT(40), <3>1, <3>3, Holders DEF EnfInv
    <3>5. n # 0
      <4>1. DOMAIN procs = 1 .. Len(procs)
        BY Zenon, LenProperties DEF EnfInv, ProcInv
      <4> QED BY <3>3, <4>1
    <3>6. target = n => found = evaluateAll(Pol[pol], Now, View("deferred", n))
      <4>1. ASSUME target = n
            PROVE  g = n
        BY ZenonT(40), <3>2, <3>3, <3>4, <3>5, <4>1
      <4> QED BY Zenon, <3>3, <4>1, OwnView
    <3>7. target = 0 \/ target \in DOMAIN procs
      BY Zenon, <3>2, <3>4
    <3>8. PICK view : found = evaluateAll(Pol[pol], Now, view)
      BY Zenon, <3>3
    <3> QED BY ZenonT(40), <3>2, <3>3, <3>6, <3>7, <3>8, MatchSetStep DEF EnfInv, Kept
  <2> QED BY ZenonT(40), <2>1, <2>2 DEF DeferredApply
<1>3. FastInv' /\ DeferredInv' /\ CycleInv'
  BY ZenonT(40), <1>1, <1>2, FastKept, DeferredKept, CycleKept DEF EnfInv, WorkInv, Kept
<1>4. PendingInv'
  BY Zenon, <1>1 DEF PendingInv
<1> QED BY Zenon, <1>2, <1>3, <1>4 DEF WorkInv

LEMMA PollBeginStep ==
  ASSUME EnfInv, PollBegin
  PROVE  Kept /\ WorkInv'
<1>1. UNCHANGED <<procs, fast, deferred, pending, cooling, answered>> /\ outcome' = NoOutcome
  BY Zenon DEF PollBegin, kernel, gates, Silent
<1>2. Kept
  BY Zenon, <1>1, QuietStep
<1>3. CycleInv'
  <2>1. PICK todo \in SUBSET DOMAIN procs : todo = {n \in DOMAIN procs : Live(n)}
    BY Zenon
  <2>2. PICK pol \in Policies : pol = policy
    BY Zenon DEF EnfInv, MapsInv
  <2>3. cycle' = [pol |-> pol, todo |-> todo]
    BY Zenon, <2>1, <2>2 DEF PollBegin
  <2>4. cycle'.pol = pol /\ cycle'.todo = todo
    BY ZenonT(30), <2>3
  <2> QED BY Zenon, <1>1, <2>3, <2>4 DEF CycleInv
<1>4. FastInv' /\ DeferredInv' /\ PendingInv'
  BY ZenonT(40), <1>1, <1>2, FastKept, DeferredKept, PendingKept DEF EnfInv, WorkInv, Kept
<1> QED BY Zenon, <1>2, <1>3, <1>4 DEF WorkInv

LEMMA PollOneStep ==
  ASSUME EnfInv, PollOne
  PROVE  Kept /\ WorkInv'
<1>1. PICK pol : pol = cycle.pol
  BY ZenonT(30)
<1>2. PICK n \in cycle.todo :
        /\ cycle' = [cycle EXCEPT !.todo = @ \ {n}]
        /\ LET rule == AccessVerdict[cycle.pol][procs[n].prog]
               found == RuleVerdict[cycle.pol][procs[n].prog]
           IN  CASE rule.decision = "allow" -> NoAnswer /\ UNCHANGED <<cooling, events>>
                 [] rule # NoRule /\ rule.decision # "allow" -> ApplyAccessRule(n, cycle.pol, rule)
                 [] rule = NoRule /\ found # << >> -> applyMatchSet(found, "poll", n, n, cycle.pol)
                 [] OTHER -> NoAnswer /\ UNCHANGED <<cooling, events>>
  BY Zenon DEF PollOne
<1>3. n \in DOMAIN procs /\ pol \in Policies
  BY Zenon, <1>1, <1>2 DEF EnfInv, WorkInv, CycleInv
<1>4. PICK prog \in Programs : prog = procs[n].prog
  BY Zenon, <1>3, Inhabited DEF EnfInv
<1>5. PICK rule, found : /\ rule = EvaluateProcessAccess(Pol[pol], ViewOf("poll", prog))
                         /\ found = evaluateAll(Pol[pol], Now, ViewOf("poll", prog))
  BY Zenon
<1>6. rule = AccessVerdict[cycle.pol][procs[n].prog] /\ found = RuleVerdict[cycle.pol][procs[n].prog]
  BY ZenonT(40), <1>1, <1>3, <1>4, <1>5 DEF AccessVerdict, RuleVerdict
<1>7. \/ NoAnswer /\ UNCHANGED cooling
      \/ rule # NoRule /\ rule.decision # "allow" /\ ApplyAccessRule(n, pol, rule)
      \/ applyMatchSet(found, "poll", n, n, pol)
  <2>1. (CASE rule.decision = "allow" -> NoAnswer /\ UNCHANGED <<cooling, events>>
           [] rule # NoRule /\ rule.decision # "allow" -> ApplyAccessRule(n, pol, rule)
           [] rule = NoRule /\ found # << >> -> applyMatchSet(found, "poll", n, n, pol)
           [] OTHER -> NoAnswer /\ UNCHANGED <<cooling, events>>)
    BY ZenonT(40), <1>1, <1>2, <1>6
  <2>2. NoRule.decision # "allow"
    BY ZenonT(30) DEF NoRule
  <2> QED BY Zenon, <2>1, <2>2
<1>8. Kept
  <2>1. CASE NoAnswer /\ UNCHANGED cooling
    <3>1. UNCHANGED <<procs, cooling, answered>> /\ outcome' = NoOutcome
      BY Zenon, <2>1 DEF NoAnswer, Silent
    <3> QED BY Zenon, <3>1, QuietStep
  <2>2. CASE rule # NoRule /\ rule.decision # "allow" /\ ApplyAccessRule(n, pol, rule)
    <3>1. AccessDenies(pol, procs[n].prog)
      BY ZenonT(40), <1>4, <1>5, <2>2, PollDenial
    <3> QED BY ZenonT(40), <1>3, <2>2, <3>1, AccessStep DEF EnfInv, Kept
  <2>3. CASE applyMatchSet(found, "poll", n, n, pol)
    <3>1. found = evaluateAll(Pol[pol], Now, View("poll", n))
      BY Zenon, <1>4, <1>5 DEF View
    <3>2. PICK view : found = evaluateAll(Pol[pol], Now, view)
      BY Zenon, <3>1
    <3> QED BY ZenonT(40), <1>3, <2>3, <3>1, <3>2, MatchSetStep DEF EnfInv, Kept
  <2> QED BY ZenonT(40), <1>7, <2>1, <2>2, <2>3
<1>9. CycleInv'
  <2>1. PICK todo \in SUBSET DOMAIN procs : cycle = [pol |-> pol, todo |-> todo]
    BY Zenon, <1>1 DEF EnfInv, WorkInv, CycleInv
  <2>2. cycle' = [pol |-> pol, todo |-> todo \ {n}]
    BY ZenonT(40), <1>2, <2>1
  <2>3. cycle'.pol = pol /\ cycle'.todo = todo \ {n}
    BY ZenonT(30), <2>2
  <2> QED BY ZenonT(40), <1>3, <1>8, <2>1, <2>2, <2>3 DEF CycleInv, Kept, Persist
<1>10. FastInv' /\ DeferredInv' /\ PendingInv'
  <2>1. UNCHANGED <<fast, deferred, pending>>
    BY Zenon DEF PollOne
  <2> QED BY ZenonT(40), <1>8, <2>1, FastKept, DeferredKept, PendingKept DEF EnfInv, WorkInv, Kept
<1> QED BY ZenonT(40), <1>8, <1>9, <1>10 DEF WorkInv

LEMMA EnfInvInit == Init => EnfInv
<1> SUFFICES ASSUME Init
             PROVE  EnfInv
  BY ZenonT(30)
<1>1. procs = << >> /\ fast = << >> /\ deferred = << >>
  BY Zenon DEF Init
<1>2. DOMAIN << >> = {}
  OBVIOUS
<1>3. ProcInv /\ FastInv /\ DeferredInv
  <2>1. procs \in Seq(Proc) /\ fast \in Seq(Event) /\ deferred \in Seq(Nat)
    BY <1>1
  <2> QED BY ZenonT(30), <1>1, <1>2, <2>1 DEF ProcInv, FastInv, DeferredInv
<1>4. CycleInv
  BY ZenonT(30) DEF Init, CycleInv
<1>5. PendingInv /\ CoolInv
  BY Zenon DEF Init, PendingInv, CoolInv
<1>6. AnswersAreJustified /\ CoolingResponseWasGiven
  <2>1. outcome.what = "nothing"
    BY ZenonT(30) DEF Init, NoOutcome
  <2> QED BY Zenon, <2>1 DEF AnswersAreJustified, CoolingResponseWasGiven
<1> QED BY ZenonT(40), <1>3, <1>4, <1>5, <1>6, MapsInvInit DEF EnfInv, WorkInv

LEMMA EnfInvNext == EnfInv /\ [Next]_vars => EnfInv'
<1> SUFFICES ASSUME EnfInv, [Next]_vars
             PROVE  EnfInv'
  OBVIOUS
<1>1. MapsInv'
  BY Zenon, MapsInvNext DEF EnfInv
<1>2. CASE UNCHANGED vars
  <2>1. UNCHANGED <<procs, work, cooling, answered, outcome>>
    BY Zenon, <1>2 DEF vars, kernel, gates
  <2>2. ProcInv' /\ Persist
    BY Zenon, <2>1, Same DEF EnfInv
  <2>3. WorkInv' /\ CoolInv'
    BY Zenon, <2>1, <2>2, WorkKept, CoolKept DEF EnfInv
  <2>4. AnswersAreJustified'
    BY Zenon, <2>1 DEF EnfInv, AnswersAreJustified, Live
  <2>5. CoolingResponseWasGiven'
    BY Zenon, <2>1 DEF EnfInv, CoolingResponseWasGiven
  <2> QED BY ZenonT(40), <1>1, <2>2, <2>3, <2>4, <2>5 DEF EnfInv
<1>3. CASE Next
  <2>1. ASSUME FastPathPtraceEnh \/ FastPathLDPreload \/ FastPathInstrument
        PROVE  Kept /\ WorkInv'
    BY Zenon, <2>1, FastPathAttackStep DEF FastPathPtraceEnh, FastPathLDPreload, FastPathInstrument
  <2>2. Kept /\ WorkInv'
    BY ZenonT(40), <1>3, <2>1, ExecStep, ExitStep, AttackStep, SyncStep, CooldownStep,
       FastPathExecStep, FastPathSelfProtectStep, DeferredEnrichStep, DeferredApplyStep,
       PollBeginStep, PollOneStep DEF Next
  <2> QED BY Zenon, <1>1, <2>2 DEF EnfInv, Kept
<1> QED BY Zenon, <1>2, <1>3

\* Every response the agent asks for is one that the policy calls for: the
\* access lists deny the program of the process, as the poll or the exec
\* handler sees it, or the rule is the first of the policy that answers to
\* the process, unless its pid has changed hands (RunOnce, the fast path and
\* processDeferredEval of agent.go).
THEOREM AnswersFollowPolicy == Spec => []AnswersAreJustified
<1>1. EnfInv => AnswersAreJustified
  BY ZenonT(40) DEF EnfInv
<1> QED BY <1>1, EnfInvInit, EnfInvNext, PTL DEF Spec

\* A response that the Suppressor turns down because its key is cooling was
\* given to that very process before, unless its rule also audits
\* (applyMatchSet and dedupKeyForRule of agent.go).
THEOREM MutedWasGiven == Spec => []CoolingResponseWasGiven
<1>1. EnfInv => CoolingResponseWasGiven
  BY Zenon DEF EnfInv
<1> QED BY <1>1, EnfInvInit, EnfInvNext, PTL DEF Spec
=============================================================================
