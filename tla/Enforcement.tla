---------------------------- MODULE Enforcement ----------------------------
(***************************************************************************)
(* From a process to a response: the exec probe and its blacklist maps in  *)
(* the kernel, the fast path, the deferred evaluation and the polling loop *)
(* of the agent (internal/control/agent.go), all working from the policy   *)
(* in force while it is being replaced, on processes that start, exit and  *)
(* have their pids reused.                                                 *)
(*                                                                         *)
(* A process is the number of its exec: procs[n] has its pid, its program  *)
(* and whether it lives. The number also stands for the start ticks, which *)
(* tell two processes of one pid apart. What a response does is the        *)
(* responder's business: here a response is that Responder.Apply is called *)
(* for a process, and the process may die of it.                           *)
(***************************************************************************)
EXTENDS PolicyEngine

CONSTANTS
  Pids,         \* process identifiers
  Programs,     \* what a process may execute
  Image,        \* Image[prog]: its comm and its exec path
  Traits,       \* Traits[prog]: the view of prog with every field filled in
  LongNames,    \* process names of more than 15 characters
  Comm,         \* Comm[name]: the name as the kernel keeps it, at most 15 characters
  Policies,     \* policies by name
  Pol,          \* Pol[name]: the policy
  Now,          \* minute of the day
  Attacks,      \* kinds of anti-attack events the probes may report
  FastCap,      \* capacity of fastOut (256 in the code)
  DeferredCap,  \* capacity of deferredEvalCh (256)
  MaxExecs,     \* bound: processes
  MaxEvents     \* bound: policy replacements, anti-attack events and evaluations
                \* that meet an empty token bucket, together

VARIABLES
  procs,     \* processes so far
  policy,    \* Agent.Policy
  sync,      \* progress of syncBPFMaps, which runs under Agent.mu
  maps,      \* blacklist_comm and blacklist_filename
  synced,    \* the last syncBPFMaps met no error; "start" before the first
  fast,      \* fastOut
  deferred,  \* deferredEvalCh
  pending,   \* the deferred evaluation between its two checks of the pid
  cycle,     \* the snapshot and the policy of the running RunOnce
  cooling,   \* dedup keys within their cooldown
  answered,  \* rules that have had a response, with the process it was for
  outcome,   \* what the last step decided about a response, if anything
  events

kernel == <<procs, maps>>
control == <<policy, sync, synced>>
work == <<fast, deferred, pending, cycle>>
gates == <<cooling, answered>>
vars == <<kernel, control, work, gates, outcome, events>>

NoOutcome == [what |-> "nothing"]

\* A step that has nothing to do with responses.
Silent == outcome' = NoOutcome

\* One of the bounded events happens.
Happens == events < MaxEvents /\ events' = events + 1

NoWork == [n |-> 0]

Live(n) == procs[n].alive

\* The process that now has the pid of process n, 0 if none has.
Holder(n) ==
  LET same == {m \in DOMAIN procs : procs[m].pid = procs[n].pid /\ Live(m)}
  IN  IF same = {} THEN 0 ELSE CHOOSE m \in same : TRUE

\* The fields each evaluation fills in. Only the deferred one looks at the
\* environment and the mapped libraries; the fast path has no command line.
Sees == [exec       |-> {"name", "path", "user"},
         poll       |-> {"name", "path", "user", "cmdline"},
         deferred   |-> {"name", "path", "user", "cmdline", "environ", "maps"},
         ptrace     |-> {"name", "path", "user", "ptrace"},
         ldpreload  |-> {"name", "path", "user", "environ"},
         instrument |-> {"name", "path", "user", "maps"}]

ViewOf(stage, prog) == Restrict(Traits[prog], Sees[stage])

View(stage, n) == ViewOf(stage, procs[n].prog)

(***************************************************************************)
(* The blacklist maps                                                      *)
(***************************************************************************)

\* Names of the policy's blacklist; entries without a name are skipped.
BlacklistNames(p) ==
  {m["name"] : m \in {e \in Pol[p].access.blacklist : "name" \in DOMAIN e}}

\* Load returns only policies that Validate accepts.
ASSUME PolicyAssumption ==
  /\ \A p \in Policies : Decoded(Pol[p]) /\ Validate(Pol[p])
  /\ Now \in ClockTimes

\* A name of at most 15 characters is kept as it is.
ASSUME CommAssumption ==
  \A p \in Policies : \A x \in BlacklistNames(p) \ LongNames : Comm[x] = x

\* main fills the maps at the start: every name goes to blacklist_comm,
\* where edr_blacklist_add cuts it to 15 characters.
StartMaps(p) == [comm |-> {Comm[x] : x \in BlacklistNames(p)}, filename |-> {}]

\* The exec probe: a comm or an exec path in the maps is killed on the spot.
ProbeKills(prog) ==
  \/ Image[prog].comm \in maps.comm
  \/ Image[prog].path \in maps.filename

\* At most one operation of a sync fails.
MapOpFails == synced = "yes" /\ synced' = "failed"

MapOpWorks == synced' = synced

\* ReplacePolicy takes Agent.mu and holds it to the end of syncBPFMaps.
ReplacePolicy ==
  /\ sync.step = "idle"
  /\ Happens
  /\ \E p \in Policies : policy' = p
  /\ sync' = [step |-> "clear", names |-> {}]
  /\ synced' = "yes"
  /\ Silent
  /\ UNCHANGED <<kernel, work, gates>>

\* Faulty variant: the new names are added to the old ones.
BlacklistKept ==
  /\ sync.step = "clear"
  /\ sync' = [sync EXCEPT !.step = "clearFilename"]
  /\ Silent
  /\ UNCHANGED <<kernel, policy, synced, work, gates, events>>

\* Without a cleared blacklist_comm the sync gives up.
BlacklistClear ==
  /\ sync.step = "clear"
  /\ \/ /\ MapOpWorks
        /\ maps' = [maps EXCEPT !.comm = {}]
        /\ sync' = [sync EXCEPT !.step = "clearFilename"]
     \/ /\ MapOpFails
        /\ maps' = maps
        /\ sync' = [sync EXCEPT !.step = "idle"]
  /\ Silent
  /\ UNCHANGED <<procs, policy, work, gates, events>>

\* An error here is only reported.
BlacklistFilenameClear ==
  /\ sync.step = "clearFilename"
  /\ \/ MapOpWorks /\ maps' = [maps EXCEPT !.filename = {}]
     \/ MapOpFails /\ maps' = maps
  /\ sync' = [step |-> "add", names |-> BlacklistNames(policy)]
  /\ Silent
  /\ UNCHANGED <<procs, policy, work, gates, events>>

\* Short names go to blacklist_comm, long ones to blacklist_filename.
BlacklistAdd ==
  /\ sync.step = "add"
  /\ \E x \in sync.names :
       /\ \/ /\ MapOpWorks
             /\ maps' = IF x \in LongNames
                          THEN [maps EXCEPT !.filename = @ \cup {x}]
                          ELSE [maps EXCEPT !.comm = @ \cup {x}]
          \/ MapOpFails /\ maps' = maps
       /\ sync' = [sync EXCEPT !.names = @ \ {x}]
  /\ Silent
  /\ UNCHANGED <<procs, policy, work, gates, events>>

SyncDone ==
  /\ sync.step = "add"
  /\ sync.names = {}
  /\ sync' = [sync EXCEPT !.step = "idle"]
  /\ Silent
  /\ UNCHANGED <<kernel, policy, synced, work, gates, events>>

(***************************************************************************)
(* Processes and the events of the probes                                  *)
(***************************************************************************)

\* Faulty variant: a channel without a limit.
DeliverUnbounded(ev) == fast' = Append(fast, ev)

\* edr_deliver_event: a full channel drops the event.
Deliver(ev) == fast' = IF Len(fast) < FastCap THEN Append(fast, ev) ELSE fast

Exec ==
  /\ Len(procs) < MaxExecs
  /\ \E pid \in Pids, prog \in Programs :
       /\ \A n \in DOMAIN procs : Live(n) => procs[n].pid # pid
       /\ procs' = Append(procs, [pid |-> pid, prog |-> prog, alive |-> ~ProbeKills(prog)])
  /\ Deliver([kind |-> "exec", n |-> Len(procs) + 1])
  /\ Silent
  /\ UNCHANGED <<maps, control, deferred, pending, cycle, gates, events>>

Exit ==
  /\ \E n \in DOMAIN procs :
       /\ Live(n)
       /\ procs' = [procs EXCEPT ![n].alive = FALSE]
  /\ Silent
  /\ UNCHANGED <<maps, control, work, gates, events>>

\* A process traces itself, has LD_PRELOAD set, maps a suspicious library,
\* or signals the agent.
Attack ==
  /\ Happens
  /\ \E n \in DOMAIN procs, kind \in Attacks : Live(n) /\ Deliver([kind |-> kind, n |-> n])
  /\ Silent
  /\ UNCHANGED <<kernel, control, deferred, pending, cycle, gates>>

(***************************************************************************)
(* Responses and their gates                                               *)
(***************************************************************************)

\* What Responder.Apply does to the process it is asked to act on.
Strike(target) ==
  \/ procs' = procs
  \/ /\ target # 0
     /\ Live(target)
     /\ procs' = [procs EXCEPT ![target].alive = FALSE]

\* A response: by whom, about which process, to which process, under which
\* policy and rule.
Answer(by, n, target, pol, rule) ==
  /\ answered' = answered \cup {<<rule.id, target>>}
  /\ outcome' = [what |-> "answer", by |-> by, n |-> n, target |-> target,
                 pol |-> pol, rule |-> rule.id]
  /\ Strike(target)

NoAnswer == Silent /\ UNCHANGED <<answered, procs>>

Unlimited == events' = events

\* The rule's token bucket is empty: the Suppressor turns everything down.
Limited ==
  /\ Happens
  /\ NoAnswer
  /\ UNCHANGED cooling

\* Faulty variant: the key has the pid and not the start ticks.
DedupKeyWithoutTicks(rule, target) ==
  <<rule.id, IF target = 0 THEN 0 ELSE procs[target].pid>>

\* The key of the Suppressor: rule, pid and start ticks.
dedupKeyForRule(rule, target) == <<rule.id, target>>

\* A process access rule has one gate, before the response.
ApplyAccessRule(n, pol, rule) ==
  LET key == dedupKeyForRule(rule, n)
  IN  \/ Limited
      \/ /\ Unlimited
         /\ key \notin cooling
         /\ cooling' = cooling \cup {key}
         /\ Answer("access", n, n, pol, rule)
      \/ /\ Unlimited
         /\ key \in cooling
         /\ NoAnswer
         /\ UNCHANGED cooling

\* The audits pass their gates first; the response then has the key of its
\* own rule. Without the start ticks (target 0) applyResponse returns.
applyMatchSet(found, by, n, target, pol) ==
  LET audits == AuditRules(found)
      audited == {r.id : r \in audits}
      resp == ResponseRule(found)
      key == dedupKeyForRule(resp, target)
      reason == IF key \in cooling THEN "cooling" ELSE "audited"
  IN  \/ Limited
      \/ /\ Unlimited
         /\ cooling' = cooling \cup {dedupKeyForRule(r, target) : r \in audits}
                               \cup (IF resp = NoRule THEN {} ELSE {key})
         /\ CASE resp = NoRule \/ target = 0 -> NoAnswer
              [] resp # NoRule /\ target # 0 /\ key \notin cooling /\ resp.id \notin audited ->
                   Answer(by, n, target, pol, resp)
              [] OTHER -> /\ outcome' = [what |-> "muted", target |-> target, pol |-> pol,
                                         rule |-> resp.id, why |-> reason]
                          /\ UNCHANGED <<answered, procs>>

\* The cooldown of a key ends, or its entry is swept or lost in a reload of
\* the Suppressor's state.
CooldownOver(key) ==
  /\ key \in cooling
  /\ cooling' = cooling \ {key}
  /\ Silent
  /\ UNCHANGED <<kernel, control, work, answered, events>>

(***************************************************************************)
(* The fast path                                                           *)
(***************************************************************************)

\* CurrentPolicy waits for the reader lock of Agent.mu.
CanReadPolicy == sync.step = "idle"

Take(kinds) ==
  /\ CanReadPolicy
  /\ fast # << >>
  /\ Head(fast).kind \in kinds
  /\ fast' = Tail(fast)

\* handleFastPathExec: a denied process is answered at once, past the
\* Suppressor; the request names the pid and the exec path, not the start
\* ticks. Everything else goes to the deferred evaluation, or is dropped.
FastPathExec ==
  /\ Take({"exec"})
  /\ LET n == Head(fast).n
         rule == EvaluateProcessAccess(Pol[policy], View("exec", n))
     IN  IF rule = NoRule \/ rule.decision = "allow"
           THEN /\ deferred' = IF Len(deferred) < DeferredCap THEN Append(deferred, n) ELSE deferred
                /\ NoAnswer
           ELSE /\ Answer("exec", n, Holder(n), policy, rule)
                /\ UNCHANGED deferred
  /\ UNCHANGED <<maps, control, pending, cycle, cooling, events>>

\* The three handlers of attack events: the audits are logged and the response
\* applied without a gate. The exec path is the one of the process that has
\* the pid now.
FastPathAttack(kind) ==
  /\ Take({kind})
  /\ LET n == Head(fast).n
         now == IF Holder(n) = 0 THEN [View(kind, n) EXCEPT !["path"] = {}]
                ELSE [View(kind, n) EXCEPT !["path"] = Traits[procs[Holder(n)].prog]["path"]]
         resp == ResponseRule(evaluateAll(Pol[policy], Now, now))
     IN  IF resp = NoRule
           THEN NoAnswer
           ELSE Answer(kind, n, Holder(n), policy, resp)
  /\ UNCHANGED <<maps, control, deferred, pending, cycle, cooling, events>>

FastPathPtraceEnh == FastPathAttack("ptrace")

FastPathLDPreload == FastPathAttack("ldpreload")

FastPathInstrument == FastPathAttack("instrument")

\* handleFastPathSelfProtect: in enforce mode the pid of the attacker is
\* killed, whoever has it now.
FastPathSelfProtect ==
  /\ Take({"selfprotect"})
  /\ LET n == Head(fast).n
     IN  IF Pol[policy].selfEnforce # "kill"
           THEN NoAnswer
           ELSE Answer("selfprotect", n, Holder(n), policy, [id |-> "self-protect-enforce"])
  /\ UNCHANGED <<maps, control, deferred, pending, cycle, cooling, events>>

(***************************************************************************)
(* The deferred evaluation                                                 *)
(***************************************************************************)

\* The name and the user come from the exec event, everything else from
\* /proc/<pid>, whoever has the pid by then.
EnrichedView(n, holder) ==
  [View("deferred", holder) EXCEPT !["name"] = Traits[procs[n].prog]["name"],
                                   !["user"] = Traits[procs[n].prog]["user"]]

\* processDeferredEval up to the second check of the pid. An exit is only
\* logged; process access is not evaluated again.
DeferredEnrich ==
  /\ CanReadPolicy
  /\ pending = NoWork
  /\ deferred # << >>
  /\ deferred' = Tail(deferred)
  /\ LET n == Head(deferred)
     IN  IF Holder(n) = 0
           THEN pending' = NoWork
           ELSE pending' =
                  LET found == evaluateAll(Pol[policy], Now, EnrichedView(n, Holder(n)))
                  IN  IF found = << >> THEN NoWork ELSE [n |-> n, found |-> found, pol |-> policy]
  /\ Silent
  /\ UNCHANGED <<kernel, control, fast, cycle, gates, events>>

\* The rest of it: a pid that is gone ends it; the start ticks are those of
\* the process that has the pid, or unknown if it exits before they are read.
DeferredApply ==
  /\ pending # NoWork
  /\ pending' = NoWork
  /\ IF Holder(pending.n) = 0
       THEN NoAnswer /\ UNCHANGED <<cooling, events>>
       ELSE \E target \in {Holder(pending.n), 0} :
              applyMatchSet(pending.found, "deferred", pending.n, target, pending.pol)
  /\ UNCHANGED <<maps, control, fast, deferred, cycle>>

(***************************************************************************)
(* The polling loop                                                        *)
(***************************************************************************)

\* The engine's verdicts on the programs of a snapshot, for every policy.
AccessVerdict ==
  [p \in Policies |-> [prog \in Programs |-> EvaluateProcessAccess(Pol[p], ViewOf("poll", prog))]]

RuleVerdict ==
  [p \in Policies |-> [prog \in Programs |-> evaluateAll(Pol[p], Now, ViewOf("poll", prog))]]

\* Faulty variant: the loop keeps the policy it started with.
PollBeginStale ==
  /\ CanReadPolicy
  /\ cycle.todo = {}
  /\ cycle' = [cycle EXCEPT !.todo = {n \in DOMAIN procs : Live(n)}]
  /\ cycle'.todo # {}
  /\ Silent
  /\ UNCHANGED <<kernel, control, fast, deferred, pending, gates, events>>

\* RunOnce takes a snapshot of the processes and of the policy.
PollBegin ==
  /\ CanReadPolicy
  /\ cycle.todo = {}
  /\ cycle' = [pol |-> policy, todo |-> {n \in DOMAIN procs : Live(n)}]
  /\ cycle'.todo # {}
  /\ Silent
  /\ UNCHANGED <<kernel, control, fast, deferred, pending, gates, events>>

\* A process of the snapshot: the process access lists come first, and a
\* whitelisted process is done; otherwise the rules are evaluated.
PollOne ==
  /\ \E n \in cycle.todo :
       /\ cycle' = [cycle EXCEPT !.todo = @ \ {n}]
       /\ LET rule == AccessVerdict[cycle.pol][procs[n].prog]
              found == RuleVerdict[cycle.pol][procs[n].prog]
          IN  CASE rule.decision = "allow" -> NoAnswer /\ UNCHANGED <<cooling, events>>
                [] rule # NoRule /\ rule.decision # "allow" -> ApplyAccessRule(n, cycle.pol, rule)
                [] rule = NoRule /\ found # << >> -> applyMatchSet(found, "poll", n, n, cycle.pol)
                [] OTHER -> NoAnswer /\ UNCHANGED <<cooling, events>>
  /\ UNCHANGED <<maps, control, fast, deferred, pending>>

Init ==
  /\ procs = << >>
  /\ policy \in Policies
  /\ sync = [step |-> "idle", names |-> {}]
  /\ maps = StartMaps(policy)
  /\ synced = "start"
  /\ fast = << >>
  /\ deferred = << >>
  /\ pending = NoWork
  /\ cycle = [pol |-> policy, todo |-> {}]
  /\ cooling = {}
  /\ answered = {}
  /\ outcome = NoOutcome
  /\ events = 0

Next ==
  \/ Exec
  \/ Exit
  \/ Attack
  \/ ReplacePolicy
  \/ BlacklistClear
  \/ BlacklistFilenameClear
  \/ BlacklistAdd
  \/ SyncDone
  \/ \E key \in cooling : CooldownOver(key)
  \/ FastPathExec
  \/ FastPathPtraceEnh
  \/ FastPathLDPreload
  \/ FastPathInstrument
  \/ FastPathSelfProtect
  \/ DeferredEnrich
  \/ DeferredApply
  \/ PollBegin
  \/ PollOne

RuleIds ==
  {"process-access-blacklist", "process-access-default-deny"}
    \cup UNION {{r.id : r \in Range(Pol[p].rules)} : p \in Policies}

\* The main loop's ticker and a reload that has begun make progress.
Fairness ==
  /\ WF_vars(PollBegin)
  /\ WF_vars(PollOne)
  /\ WF_vars(BlacklistClear \/ BlacklistFilenameClear \/ BlacklistAdd \/ SyncDone)

Spec == Init /\ [][Next]_vars /\ Fairness

(***************************************************************************)
(* Properties                                                              *)
(***************************************************************************)

TypeOK ==
  /\ \A n \in DOMAIN procs : procs[n].pid \in Pids /\ procs[n].prog \in Programs
  /\ \A n, m \in DOMAIN procs : Live(n) /\ Live(m) /\ n # m => procs[n].pid # procs[m].pid
  /\ policy \in Policies
  /\ sync.step \in {"idle", "clear", "clearFilename", "add"}
  /\ sync.names \subseteq BlacklistNames(policy)
  /\ Len(fast) <= FastCap
  /\ Len(deferred) <= DeferredCap
  /\ cycle.todo \subseteq DOMAIN procs
  /\ cooling \subseteq RuleIds \X (0 .. MaxExecs)

Blacklisted(p, view) == \E m \in Pol[p].access.blacklist : matches(m, view)

Whitelisted(p, view) == \E m \in Pol[p].access.whitelist : matches(m, view)

\* The process access lists deny the program, seen with its command line.
AccessDenies(p, prog) ==
  /\ ~Whitelisted(p, ViewOf("poll", prog))
  /\ \/ Blacklisted(p, ViewOf("poll", prog))
     \/ Pol[p].access.mode = "enforce" /\ Pol[p].access.whitelist # {}

\* The whitelist has an entry on a field that the fast path leaves empty.
HiddenWhitelist(p) == \E m \in Pol[p].access.whitelist : ~(DOMAIN m \subseteq Sees["exec"])

\* Every response the agent asks for is one the policy calls for. The fast
\* path, which knows less of a process than the poll, denies what the poll
\* would deny, unless a whitelist entry asks for what only the poll can see;
\* and every path that evaluates rules answers with the rule that comes
\* first in priority and then in the policy file, unless the pid has
\* changed hands since the event.
AnswersAreJustified ==
  outcome.what = "answer" =>
    LET o == outcome
        prog == procs[o.n].prog
    IN  CASE o.by = "access" -> AccessDenies(o.pol, prog)
          [] o.by = "exec" -> AccessDenies(o.pol, prog) \/ HiddenWhitelist(o.pol)
          [] o.by = "selfprotect" -> o.target = o.n \/ ~Live(o.n)
          [] OTHER -> \/ o.target # o.n
                      \/ o.rule = ReferenceResponse(Pol[o.pol], Now, ViewOf(o.by, prog))

\* A name whose first 15 characters are the comm of prog.
NamesComm(x, prog) == Comm[x] = Image[prog].comm

\* Between two reloads the probe kills only what the blacklist of the policy
\* in force names, and kills everything whose comm it names in at most 15
\* characters, although the maps are emptied and refilled one entry at a
\* time while processes start; a failed map operation is the only exception.
Ring0FollowsPolicy ==
  sync.step = "idle" /\ synced # "failed" =>
    \A prog \in Programs :
      /\ ProbeKills(prog) =>
           \E x \in BlacklistNames(policy) : NamesComm(x, prog) \/ x = Image[prog].path
      /\ (\E x \in BlacklistNames(policy) \ LongNames : NamesComm(x, prog)) => ProbeKills(prog)

\* Some policy makes an audit event of the rule.
Audits(id) ==
  \E p \in Policies : \E r \in Range(Pol[p].rules) : r.id = id /\ HasEffect(r, "audit")

\* A response that the Suppressor turns down because its key is cooling has
\* been given already, or the rule also audits and its audit took the key.
CoolingResponseWasGiven ==
  outcome.what = "muted" /\ outcome.why = "cooling" =>
    <<outcome.rule, outcome.target>> \in answered \/ Audits(outcome.rule)

\* applyMatchSet gives the audits and the response "each ... its own
\* Suppressor gate": a response is not turned down because of the audit
\* event of the same rule for the same process a moment before.
ResponseHasItsOwnGate ==
  outcome.what = "muted" => outcome.why # "audited"

\* The programs a policy denies by its process access lists, or by a
\* response rule that does not audit.
DeniedPrograms ==
  [p \in Policies |->
     {prog \in Programs :
        LET resp == ResponseRule(RuleVerdict[p][prog])
        IN  \/ AccessDenies(p, prog)
            \/ AccessVerdict[p][prog] = NoRule /\ resp # NoRule /\ ~Audits(resp.id)}]

Denied(n) ==
  n \in DOMAIN procs /\ Live(n) /\ procs[n].prog \in DeniedPrograms[policy]

\* A process that stays and that the policy keeps denying is answered in
\* the end, even if its exec event is dropped and a reload, a cooldown or
\* an empty token bucket comes in between: it is never denied and without
\* an answer for ever.
DeniedIsAnswered ==
  \A n \in 1 .. MaxExecs : []<>(Denied(n) => \E a \in answered : a[2] = n)
=============================================================================
