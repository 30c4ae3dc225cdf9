--------------------------- MODULE ResponseCalls ---------------------------
(***************************************************************************)
(* The calls of the response layer in progress (internal/response and its  *)
(* callers). SoftResponder.Apply is called by the polling goroutine and by *)
(* the fast path; the HTTP handlers of internal/control/server.go call     *)
(* Suspend, Resume, ApplyIsolate, Rollback and Restore directly, each on a *)
(* goroutine of its own. The layer holds no lock over a call, so a system  *)
(* call or an nft command of one worker is a step between those of others. *)
(***************************************************************************)
EXTENDS Integers, Sequences, FiniteSets

CONSTANTS
  Agents,      \* goroutines that call Apply: polling, fast path, deferred
  Poll,        \* the polling one, of Agent.RunOnce
  Handlers,    \* goroutines that serve the control API
  None,        \* an absent string
  MaxCalls,    \* bound on the calls of each component
  MaxFaults    \* bound on failing system calls and restarts together

Workers == Agents \cup Handlers

ASSUME CallsAssumption == Poll \in Agents /\ Agents \cap Handlers = {}

VARIABLES
  host,      \* pidfd: pidfd_open works; dryRun, nft: configuration
  call,      \* the call each worker is in
  outcome,   \* what the last step did: a signal delivered, a call returned
  calls,     \* calls of each component so far
  faults

callVars == <<host, call, outcome, calls, faults>>

Idle == [kind |-> "none", pc |-> "idle",
         pid |-> 0, path |-> None, ticks |-> 0, target |-> 0, checked |-> 0, fd |-> 0,
         todo |-> <<>>, scanned |-> {}, failed |-> FALSE, killed |-> FALSE,
         file |-> None, entry |-> <<0, 0>>, cmd |-> 0, undone |-> FALSE]

Silent == [hit |-> 0, done |-> FALSE, ok |-> FALSE, call |-> Idle]

\* A step that signalled hit (0 for none) or ended a call with Success = ok.
Did(hit, done, ok, c) == [hit |-> hit, done |-> done, ok |-> ok,
                          call |-> [c EXCEPT !.pc = "idle", !.fd = 0, !.todo = <<>>]]

InCall(w, kinds) == call[w].kind \in kinds

At(w, pc) == call[w].pc = pc

Components == {"process", "files", "firewall"}

\* Worker w starts the call c, with its arguments.
Begin(w, component, c) ==
  /\ At(w, "idle")
  /\ calls[component] < MaxCalls[component]
  /\ calls' = [calls EXCEPT ![component] = @ + 1]
  /\ call' = [call EXCEPT ![w] = c]
  /\ outcome' = Silent
  /\ UNCHANGED <<host, faults>>

\* Worker w goes on within its call.
Step(w, pc, fields) ==
  /\ call' = [call EXCEPT ![w] = [fields EXCEPT !.pc = pc]]
  /\ outcome' = Silent
  /\ UNCHANGED <<host, calls>>

\* The call of worker w returns Result.Success = ok; hit is the instance the
\* step has signalled, 0 for none.
Return(w, ok, fields, hit) ==
  /\ call' = [call EXCEPT ![w] = Idle]
  /\ outcome' = Did(hit, TRUE, ok, fields)
  /\ UNCHANGED <<host, calls>>

\* A system call of worker w fails for a reason of its own.
Fault(w) ==
  /\ faults < MaxFaults
  /\ faults' = faults + 1

NoFault == UNCHANGED faults

\* A step of worker w fails: it is refused, or it meets a fault.
Fails(w, refused) == (refused /\ NoFault) \/ Fault(w)

CallsInit ==
  /\ host \in [pidfd : BOOLEAN, dryRun : BOOLEAN, nft : BOOLEAN]
  /\ call = [w \in Workers |-> Idle]
  /\ outcome = Silent
  /\ calls = [k \in Components |-> 0]
  /\ faults = 0
=============================================================================
