---------------------------- MODULE PolicyEngine ----------------------------
(***************************************************************************)
(* The rule engine of internal/policy/policy.go, as operators on policies. *)
(*                                                                         *)
(* A Match is a function from the fields it constrains to the value it     *)
(* asks for; a field it leaves empty is not in its domain. What is matched *)
(* is a view: a function that gives, for every field the caller has filled *)
(* in, the values that the subject or object satisfies there (by equality, *)
(* case folding, prefix, suffix, substring or count, as the field has it). *)
(* A time window is a pair of minutes of the day, or << >>.                *)
(***************************************************************************)
EXTENDS Integers, Sequences, FiniteSetsExt

DefaultPriority == 100

MaxPriority == 1000

Actions == {"none", "log", "kill", "kill_tree", "process_suspend", "quarantine",
            "fix_permissions", "nft_block", "network_isolate", "fanotify_deny"}

\* The rule that "no rule matched" stands for.
NoRule == [id |-> "", decision |-> "", action |-> "none"]

\* Every criterion of the match must hold; a field the caller left empty
\* satisfies none.
matches(m, view) == \A f \in DOMAIN m : f \in DOMAIN view /\ m[f] \in view[f]

MinutesPerDay == 1440

\* Faulty variant: a window that ends before it starts is taken as it stands.
WindowWithinDay(now, tw) == tw = << >> \/ (now >= tw[1] /\ now <= tw[2])

\* A window that ends before it starts runs over midnight.
inWindow(now, tw) ==
  \/ tw = << >>
  \/ tw[1] <= tw[2] /\ now >= tw[1] /\ now <= tw[2]
  \/ tw[1] > tw[2] /\ (now >= tw[1] \/ now <= tw[2])

EffectivePriority(r) == IF r.priority = 0 THEN DefaultPriority ELSE r.priority

EffectiveEffect(r) == IF r.effect = {} THEN {"audit", "response"} ELSE r.effect

HasEffect(r, name) == name \in EffectiveEffect(r)

decisionFor(mode) == IF mode = "enforce" THEN "block" ELSE "alert"

actionFor(mode, action) == IF mode # "enforce" \/ action = "" THEN "none" ELSE action

(***************************************************************************)
(* Validation                                                              *)
(***************************************************************************)

ValidAccess(pa) ==
  \/ pa.mode = "" /\ pa.whitelist = {} /\ pa.blacklist = {}
  \/ /\ pa.mode \in {"monitor", "enforce"}
     /\ pa.action \in {"", "none", "kill", "kill_tree"}

\* The decision-action matrix.
ValidAction(decision, action) ==
  \/ decision = "allow" /\ action = "none"
  \/ decision = "alert" /\ action \in {"none", "log"}
  \/ decision = "block" /\ action \in Actions \ {"none", "log"}

ValidWindow(tw) == tw = << >> \/ (tw # <<0, 1439>> /\ tw[1] # tw[2])

Validate(p) ==
  /\ ValidAccess(p.access)
  /\ p.selfEnabled => p.selfEnforce \in {"", "kill"}
  /\ \A i, j \in DOMAIN p.rules : i # j => p.rules[i].id # p.rules[j].id
  /\ \A r \in Range(p.rules) :
       /\ r.id # ""
       /\ ValidAction(r.decision, r.action)
       /\ ValidWindow(r.window)
       /\ r.priority \in 0 .. MaxPriority
       /\ r.effect \subseteq {"audit", "response"}

RuleFields == {"id", "enabled", "decision", "action", "match", "window", "whitelist",
               "priority", "effect"}

ClockTimes == 0 .. MinutesPerDay - 1

\* What decoding makes of a policy file: a list of rules that have every field,
\* and windows between two times that parseClock accepts.
Decoded(p) ==
  /\ Len(p.rules) \in Nat
  /\ DOMAIN p.rules = 1 .. Len(p.rules)
  /\ \A r \in Range(p.rules) :
       /\ DOMAIN r = RuleFields
       /\ r.window = << >> \/ r.window \in ClockTimes \X ClockTimes

(***************************************************************************)
(* Evaluation                                                              *)
(***************************************************************************)

AccessRule(id, decision, action) == [id |-> id, decision |-> decision, action |-> action]

\* The process whitelist comes first, then the blacklist; with a whitelist
\* and in enforce mode everything else is denied.
EvaluateProcessAccess(p, view) ==
  LET pa == p.access
  IN  IF \E m \in pa.whitelist : matches(m, view)
        THEN AccessRule("process-access-whitelist", "allow", "none")
      ELSE IF \E m \in pa.blacklist : matches(m, view)
        THEN AccessRule("process-access-blacklist",
                        decisionFor(pa.mode), actionFor(pa.mode, pa.action))
      ELSE IF pa.mode = "enforce" /\ pa.whitelist # {}
        THEN AccessRule("process-access-default-deny", "block", actionFor(pa.mode, pa.action))
      ELSE NoRule

\* A rule that its own whitelist overrides stays in the result, as an allow.
Override(r, view) ==
  IF \E m \in r.whitelist : matches(m, view)
    THEN [r EXCEPT !.decision = "allow", !.action = "none"]
    ELSE r

\* Faulty variant: the sort turns the order of equal priorities round.
UnstableOrder(rules, S) ==
  CHOOSE order \in [1 .. Cardinality(S) -> S] :
    /\ Range(order) = S
    /\ \A k, l \in DOMAIN order : k < l =>
         \/ EffectivePriority(rules[order[k]]) < EffectivePriority(rules[order[l]])
         \/ EffectivePriority(rules[order[k]]) = EffectivePriority(rules[order[l]])
            /\ order[k] > order[l]

\* The order in which a stable sort by effective priority leaves the rules
\* whose places are in S.
Ordered(rules, S) ==
  CHOOSE order \in [1 .. Cardinality(S) -> S] :
    /\ Range(order) = S
    /\ \A k, l \in DOMAIN order : k < l =>
         \/ EffectivePriority(rules[order[k]]) < EffectivePriority(rules[order[l]])
         \/ EffectivePriority(rules[order[k]]) = EffectivePriority(rules[order[l]])
            /\ order[k] < order[l]

\* The rules that are enabled, in their window and match, in this order.
evaluateAll(p, now, view) ==
  LET hit(r) == r.enabled /\ inWindow(now, r.window) /\ matches(r.match, view)
      order == Ordered(p.rules, {i \in DOMAIN p.rules : hit(p.rules[i])})
  IN  [k \in DOMAIN order |-> Override(p.rules[order[k]], view)]

\* AggregatedDecision: the rules to audit, and the first rule to respond
\* with, NoRule if there is none.
AuditRules(found) == {r \in Range(found) : HasEffect(r, "audit")}

Responds(r) == HasEffect(r, "response") /\ r.decision # "allow" /\ r.action # "none"

ResponseRule(found) ==
  LET responding == {k \in DOMAIN found : Responds(found[k])}
  IN  IF responding = {} THEN NoRule ELSE found[Min(responding)]

(***************************************************************************)
(* Reference: what the policy says without sorting or filtering. A rule    *)
(* applies if it is enabled, in its window, matches and is not overridden  *)
(* by its whitelist; the response is the one of the applying rule that no  *)
(* other precedes in priority, and then in the order of the policy file. A *)
(* window holds the minutes a clock shows from its start to its end.       *)
(***************************************************************************)

ByClock(now, tw) ==
  tw # << >> => (now - tw[1]) % MinutesPerDay <= (tw[2] - tw[1]) % MinutesPerDay

Applies(r, now, view) ==
  /\ r.enabled
  /\ ByClock(now, r.window)
  /\ matches(r.match, view)
  /\ ~\E m \in r.whitelist : matches(m, view)

Answering(p, now, view) ==
  {i \in DOMAIN p.rules : /\ Applies(p.rules[i], now, view)
                          /\ HasEffect(p.rules[i], "response")
                          /\ p.rules[i].decision # "allow"
                          /\ p.rules[i].action # "none"}

Precedes(p, i, j) ==
  \/ EffectivePriority(p.rules[i]) < EffectivePriority(p.rules[j])
  \/ EffectivePriority(p.rules[i]) = EffectivePriority(p.rules[j]) /\ i <= j

\* The identifier of the response rule, "" if the policy has no response.
ReferenceResponse(p, now, view) ==
  IF Answering(p, now, view) = {} THEN ""
  ELSE p.rules[CHOOSE i \in Answering(p, now, view) :
                 \A j \in Answering(p, now, view) : Precedes(p, i, j)].id
=============================================================================
