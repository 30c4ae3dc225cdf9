------------------------------ MODULE Fanotify ------------------------------
(***************************************************************************)
(* The interposition on file opens (internal/fanotify/fanotify.go) and the *)
(* handler that main.go gives it. The kernel holds every open of a marked  *)
(* path until the loop has read its event and written an answer; what is   *)
(* held when the descriptor of the group is closed is granted. The loop    *)
(* writes an audit event after each answer, through the logger it shares   *)
(* with the rest of the agent: Logger.Write opens the log file under       *)
(* Logger.mu, and if that file lies under a marked path its open is held   *)
(* as well. Only FAN_OPEN_PERM is marked, so there are no other events.    *)
(***************************************************************************)
EXTENDS PolicyEngine

CONSTANTS
  Openers,       \* processes of the host that open a file
  LoopLog,       \* the loop, opening the log
  PollLog,       \* the polling goroutine, opening the log
  Requests,      \* what an opener may be and open
  View,          \* the fields of a request
  Pol,           \* policies, by name
  Reloads,       \* policies a reload may bring
  Minutes,       \* minutes of the day
  BufCap,        \* events that fit into one read
  MaxChanges     \* bound on reloads and ticks of the clock together

Nobody == "nobody"

LogRequest == "log"

VARIABLES
  opener,    \* [st, req] of every opener, the agent's two included
  held,      \* events in the queue of the group
  batch,     \* events read and not yet finished
  loop,      \* where the loop is
  allow,     \* its decision on the first event of batch
  mu,        \* who holds Logger.mu
  stop,      \* where Provider.Stop is
  policy, minute, changes,
  audit,     \* the decision that the audit event of each opener gives
  verdict,   \* what the last step judged, and from what
  env        \* logMarked: the log is marked; audits: the kernel takes FAN_AUDIT

agentVars == <<batch, loop, allow, audit>>

world == <<stop, policy, minute, changes, env>>

vars == <<opener, held, agentVars, mu, world, verdict>>

Writers == {LoopLog, PollLog}

ASSUME FanotifyAssumption ==
  /\ Openers \cap Writers = {}
  /\ Nobody \notin Writers
  /\ BufCap \in Nat \ {0}

\* Load returns only policies that Validate accepts.
ASSUME PolicyAssumption ==
  /\ \A p \in DOMAIN Pol : Decoded(Pol[p]) /\ Validate(Pol[p])
  /\ Reloads \subseteq DOMAIN Pol
  /\ Minutes \subseteq ClockTimes

Unjudged == [req |-> "", allow |-> TRUE, policy |-> << >>, minute |-> 0, view |-> << >>]

Quiet == verdict' = Unjudged

GroupOpen == stop \in {"no", "asked"}

----------------------------------------------------------------------------
\* An open by o is held, or granted at once when nobody intercepts it.
Ask(o, req, marked) ==
  LET st == IF marked /\ GroupOpen THEN "waiting" ELSE "granted"
  IN /\ opener[o].st = "idle"
     /\ opener' = [opener EXCEPT ![o] = [st |-> st, req |-> req]]
     /\ held' = IF st = "waiting" THEN Append(held, o) ELSE held

Open(o, req) ==
  /\ Ask(o, req, TRUE)
  /\ Quiet
  /\ UNCHANGED <<agentVars, mu, world>>

\* As in SequencesExt, whose many definitions would burden every proof.
RemoveAt(s, i) == SubSeq(s, 1, i - 1) \o SubSeq(s, i + 1, Len(s))

\* A queue without the event of o.
Without(q, o) ==
  IF o \in Range(q) THEN RemoveAt(q, CHOOSE i \in DOMAIN q : q[i] = o) ELSE q

\* A process that waits for an answer may be killed; an event that has not been
\* read goes with it.
Killed(o) ==
  /\ opener[o].st \in {"waiting", "stuck"}
  /\ opener' = [opener EXCEPT ![o].st = "gone"]
  /\ held' = Without(held, o)
  /\ Quiet
  /\ UNCHANGED <<agentVars, mu, world>>

\* ReplacePolicy, and time.
Change ==
  /\ changes < MaxChanges
  /\ changes' = changes + 1
  /\ \/ policy' \in Reloads \ {policy} /\ UNCHANGED minute
     \/ minute' \in Minutes \ {minute} /\ UNCHANGED policy
  /\ Quiet
  /\ UNCHANGED <<opener, held, agentVars, mu, stop, env>>

----------------------------------------------------------------------------
\* The top of the loop: the stop channel is looked at before every select.
CheckStop ==
  /\ loop = "top"
  /\ loop' = IF stop = "no" THEN "select" ELSE "done"
  /\ Quiet
  /\ UNCHANGED <<opener, held, batch, allow, audit, mu, world>>

\* Faulty variant: the events after the first of a read are not processed.
FirstOfRead ==
  LET n == IF Len(held) < BufCap THEN Len(held) ELSE BufCap
  IN /\ loop = "select"
     /\ loop' = IF ~ GroupOpen THEN "done" ELSE IF n = 0 THEN "top" ELSE "handle"
     /\ batch' = IF GroupOpen /\ n > 0 THEN SubSeq(held, 1, 1) ELSE << >>
     /\ held' = IF GroupOpen THEN SubSeq(held, n + 1, Len(held)) ELSE held
     /\ Quiet
     /\ UNCHANGED <<opener, allow, audit, mu, world>>

\* Faulty variant: select is tried again after any error.
RetrySelect ==
  LET n == IF Len(held) < BufCap THEN Len(held) ELSE BufCap
  IN /\ loop = "select"
     /\ loop' = IF ~ GroupOpen THEN "select" ELSE IF n = 0 THEN "top" ELSE "handle"
     /\ batch' = IF GroupOpen THEN SubSeq(held, 1, n) ELSE << >>
     /\ held' = IF GroupOpen THEN SubSeq(held, n + 1, Len(held)) ELSE held
     /\ Quiet
     /\ UNCHANGED <<opener, allow, audit, mu, world>>

\* select with its timeout, and read. Both give EBADF once the group is closed.
SelectRead ==
  LET n == IF Len(held) < BufCap THEN Len(held) ELSE BufCap
  IN /\ loop = "select"
     /\ loop' = IF ~ GroupOpen THEN "done" ELSE IF n = 0 THEN "top" ELSE "handle"
     /\ batch' = IF GroupOpen THEN SubSeq(held, 1, n) ELSE << >>
     /\ held' = IF GroupOpen THEN SubSeq(held, n + 1, Len(held)) ELSE held
     /\ Quiet
     /\ UNCHANGED <<opener, allow, audit, mu, world>>

\* The files of /proc/PID in the order resolveAccessInfo reads them.
ProcFields == <<"user", "name", "path", "cmdline">>

\* What is known of a request when the first k of them could be read: the user
\* is 0 without its file, the others are empty and satisfy nothing.
Seen(req, k) ==
  [f \in {"file", "op", "user"} \cup Range(SubSeq(ProcFields, 1, k)) |->
     IF f = "user" /\ k = 0 THEN {"0"} ELSE View[req][f]]

resolveAccessInfo(o) ==
  {Seen(opener[o].req, k) : k \in IF opener[o].st = "gone" THEN 0 .. 4 ELSE {4}}

\* Denied if the response rule of the policy of this moment blocks.
HandleFileAccess(p, now, view) == ResponseRule(evaluateAll(p, now, view)).decision # "block"

Decide(ok) ==
  /\ loop = "handle"
  /\ allow' = ok
  /\ loop' = "respond"
  /\ UNCHANGED <<opener, held, batch, audit, mu, world>>

Handle ==
  /\ loop = "handle"
  /\ \E view \in resolveAccessInfo(Head(batch)) :
       LET ok == HandleFileAccess(Pol[policy], minute, view)
       IN /\ Decide(ok)
          /\ verdict' = [req |-> opener[Head(batch)].req, allow |-> ok, policy |-> policy,
                         minute |-> minute, view |-> view]

\* safeHandleFileAccess allows what the handler panicked on.
HandlerPanics == Decide(TRUE) /\ Quiet

\* The fate of an opener that waits when ok is written: a denial asks for an
\* audit record, and a kernel whose group was not created for that refuses it.
Answer(ok) == IF ok THEN "granted" ELSE IF env.audits THEN "denied" ELSE "stuck"

\* Faulty variant: the audit event is written for the default, an allow.
RespondAuditDefault ==
  LET o == Head(batch)
  IN /\ loop = "respond"
     /\ loop' = "audit"
     /\ opener' = IF GroupOpen /\ opener[o].st = "waiting"
                   THEN [opener EXCEPT ![o].st = Answer(allow)] ELSE opener
     /\ audit' = [audit EXCEPT ![o] = "allow"]
     /\ Quiet
     /\ UNCHANGED <<held, batch, allow, mu, world>>

\* writeResponse, whose error is only printed, and the event that emitAudit
\* is about to write.
Respond ==
  LET o == Head(batch)
  IN /\ loop = "respond"
     /\ loop' = "audit"
     /\ opener' = IF GroupOpen /\ opener[o].st = "waiting"
                   THEN [opener EXCEPT ![o].st = Answer(allow)] ELSE opener
     /\ audit' = [audit EXCEPT ![o] = IF allow THEN "allow" ELSE "block"]
     /\ Quiet
     /\ UNCHANGED <<held, batch, allow, mu, world>>

----------------------------------------------------------------------------
\* Logger.Write, by the loop for its audit event or by the polling goroutine.
Lock(w) ==
  /\ w = LoopLog => loop = "audit"
  /\ mu = Nobody
  /\ mu' = w
  /\ Quiet
  /\ UNCHANGED <<opener, held, agentVars, world>>

OpenLog(w) ==
  /\ mu = w
  /\ Ask(w, LogRequest, env.logMarked)
  /\ Quiet
  /\ UNCHANGED <<agentVars, mu, world>>

\* The write is over, or the log could not be opened; the loop goes on to the
\* next event of its buffer, or back to its top.
Unlock(w) ==
  /\ mu = w
  /\ opener[w].st \in {"granted", "denied"}
  /\ opener' = [opener EXCEPT ![w] = [st |-> "idle", req |-> LogRequest]]
  /\ mu' = Nobody
  /\ IF w = LoopLog
     THEN /\ batch' = Tail(batch)
          /\ loop' = IF Len(batch) > 1 THEN "handle" ELSE "top"
          /\ allow' = TRUE
     ELSE UNCHANGED <<batch, loop, allow>>
  /\ Quiet
  /\ UNCHANGED <<held, audit, world>>

----------------------------------------------------------------------------
\* Provider.Stop: close the channel, close the descriptor, wait for the loop.
StopAsk ==
  /\ stop = "no"
  /\ stop' = "asked"
  /\ Quiet
  /\ UNCHANGED <<opener, held, agentVars, mu, policy, minute, changes, env>>

\* The kernel grants what the group still holds.
Released ==
  /\ opener' = [o \in DOMAIN opener |->
                  IF opener[o].st \in {"waiting", "stuck"}
                  THEN [opener[o] EXCEPT !.st = "granted"] ELSE opener[o]]
  /\ held' = << >>

StopClose ==
  /\ stop = "asked"
  /\ stop' = "closed"
  /\ Released
  /\ Quiet
  /\ UNCHANGED <<agentVars, mu, policy, minute, changes, env>>

StopWait ==
  /\ stop = "closed"
  /\ loop = "done"
  /\ stop' = "stopped"
  /\ Quiet
  /\ UNCHANGED <<opener, held, agentVars, mu, policy, minute, changes, env>>

----------------------------------------------------------------------------
Init ==
  /\ opener = [o \in Openers \cup Writers |-> [st |-> "idle", req |-> LogRequest]]
  /\ held = << >> /\ batch = << >>
  /\ loop = "top" /\ allow = TRUE
  /\ mu = Nobody
  /\ stop = "no"
  /\ policy \in DOMAIN Pol /\ minute \in Minutes /\ changes = 0
  /\ audit = [o \in Openers \cup Writers |-> "none"]
  /\ verdict = Unjudged
  /\ env \in [logMarked : BOOLEAN, audits : BOOLEAN]

Loop == CheckStop \/ SelectRead \/ HandlerPanics \/ Handle \/ Respond

Log(w) == OpenLog(w) \/ Unlock(w)

Finish == StopClose \/ StopWait

Next ==
  \/ \E o \in Openers : Killed(o) \/ \E req \in Requests : Open(o, req)
  \/ Change
  \/ Loop
  \/ \E w \in Writers : Lock(w) \/ Log(w)
  \/ StopAsk \/ Finish

\* The goroutines run on; a sync.Mutex hands itself to a goroutine that has
\* waited for long, however often the other one asks for it. Nobody has to
\* call Stop, but a call goes on.
Fairness ==
  /\ WF_vars(Loop \/ Log(LoopLog))
  /\ SF_vars(Lock(LoopLog))
  /\ WF_vars(Log(PollLog))
  /\ WF_vars(Finish)

Spec == Init /\ [][Next]_vars /\ Fairness

----------------------------------------------------------------------------
Statuses == {"idle", "waiting", "granted", "denied", "stuck", "gone"}

TypeOK ==
  /\ opener \in [Openers \cup Writers -> [st : Statuses, req : Requests \cup {LogRequest}]]
  /\ held \in Seq(Openers \cup Writers)
  /\ batch \in Seq(Openers \cup Writers) /\ Len(batch) <= BufCap
  /\ loop \in {"top", "select", "handle", "respond", "audit", "done"}
  /\ loop \in {"handle", "respond", "audit"} => batch # << >>
  /\ allow \in BOOLEAN
  /\ mu \in Writers \cup {Nobody}
  /\ stop \in {"no", "asked", "closed", "stopped"}
  /\ policy \in DOMAIN Pol /\ minute \in Minutes /\ changes \in 0 .. MaxChanges
  /\ audit \in [Openers \cup Writers -> {"none", "allow", "block"}]
  /\ env \in [logMarked : BOOLEAN, audits : BOOLEAN]

\* An open is refused exactly if the rule that the policy in force puts first
\* among those that respond to it blocks: by priority and then place in the
\* file, whatever the window, the whitelist, the effect and the order in which
\* the rules of the policy are written, and at every minute of the day.
OpenFollowsPolicy ==
  verdict.req # "" =>
    LET p == Pol[verdict.policy]
        id == ReferenceResponse(p, verdict.minute, verdict.view)
    IN  verdict.allow <=> ~\E r \in Range(p.rules) : r.id = id /\ r.decision = "block"

\* The audit event of an open and its outcome tell the same: an open that the
\* log reports as blocked goes through only if Stop closed the group, and one
\* that is reported as allowed is neither refused nor left waiting.
AuditTellsOutcome ==
  \A o \in Openers :
    /\ audit[o] = "block" /\ opener[o].st = "granted" => ~GroupOpen
    /\ audit[o] = "allow" => opener[o].st \notin {"denied", "stuck", "waiting"}
    /\ opener[o].st = "denied" => audit[o] = "block"

\* An open of another process is answered, unless the log of the agent is
\* itself marked: no event of a buffer is skipped, a panic of the handler ends
\* in an answer and a killed opener does not keep the loop from the next one.
OpensAreAnswered ==
  \A o \in Openers :
    (opener[o].st = "waiting" /\ ~env.logMarked) ~> (opener[o].st # "waiting")

\* A call of Stop returns and leaves no open waiting, even if the loop waits for
\* an open of its own log, or for the mutex of a writer that does.
StopReleases ==
  (stop = "asked") ~>
    (stop = "stopped" /\ \A o \in DOMAIN opener : opener[o].st \notin {"waiting", "stuck"})
=============================================================================
