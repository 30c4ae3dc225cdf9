--------------------------- MODULE AgentPipeline ---------------------------
(***************************************************************************)
(* The goroutines of a running agent and the channels between them: the    *)
(* ring0 callback feeds the fast path, the fast path answers an event at   *)
(* once or hands it to the deferred evaluation, the main loop polls, all   *)
(* three record their responses through one channel to one writer, and a   *)
(* shutdown request over HTTP takes the whole thing down.                  *)
(*                                                                         *)
(* An event is its number; what the policy says of it is a free choice at  *)
(* the step that evaluates it.  A response record is its ResponseCount.    *)
(* ResponsePath is set, as in the default configuration.                   *)
(***************************************************************************)
EXTENDS Integers, Sequences, FiniteSets

CONSTANTS
  Clients,      \* requests to /v0/shutdown that pass its checks, one each
  FastCap,      \* capacity of fastOut (256 in the code)
  DeferredCap,  \* capacity of deferredEvalCh (256)
  ResponseCap,  \* capacity of responseCh (256)
  CleanupFails, \* values "nft delete table failed" may have
  MaxEvents,    \* bound: ring0 events
  MaxRecords    \* bound: responses

ASSUME PipelineAssumption ==
  /\ FastCap \in Nat \ {0}
  /\ DeferredCap \in Nat \ {0}
  /\ ResponseCap \in Nat \ {0}
  /\ CleanupFails \in SUBSET BOOLEAN
  /\ MaxEvents \in Nat
  /\ MaxRecords \in Nat

VARIABLES
  main,        \* where the main goroutine is
  fastCh,      \* fastOut
  deferredCh,  \* deferredEvalCh
  responseCh,  \* responseCh
  stage,       \* stage[w]: worker w is idle, handles something, has a record to send
  job,         \* job[w]: the event worker w handles; 0 = none
  hand,        \* hand[w]: the record worker w has made and not sent; 0 = none
  writing,     \* the record responseWriter has received and not written; 0 = none
  file,        \* records in the response file, in the order of its lines
  events,      \* ring0 events so far
  handled,     \* events whose handling is over
  lost,        \* events a full channel turned away
  recorded,    \* Agent.ResponseCount
  dropped,     \* records a full channel, or a failed write, lost
  handler,     \* handler[c]: the shutdown handler of client c
  rules        \* the nftables table of the agent is in the kernel

chans == <<fastCh, deferredCh, responseCh>>
work == <<stage, job, hand>>
fates == <<handled, lost>>
records == <<writing, file, recorded, dropped>>
vars == <<main, chans, work, events, fates, records, handler, rules>>

Workers == {"main", "fast", "deferred"}
Records == 1 .. MaxRecords
MainStates == {"select", "run", "clear", "http", "nft", "closeResponses", "awaitWriter",
               "closeDeferred", "awaitDeferred", "closeLoader", "exit", "panic"}

Alive == main \notin {"exit", "panic"}
ResponsesClosed == main \in {"awaitWriter", "closeDeferred", "awaitDeferred", "closeLoader"}
DeferredClosed == main \in {"awaitDeferred", "closeLoader"}

Init ==
  /\ main = "select"
  /\ fastCh = << >>
  /\ deferredCh = << >>
  /\ responseCh = << >>
  /\ stage = [w \in Workers |-> "idle"]
  /\ job = [w \in Workers |-> 0]
  /\ hand = [w \in Workers |-> 0]
  /\ writing = 0
  /\ file = << >>
  /\ events = 0
  /\ handled = {}
  /\ lost = {}
  /\ recorded = 0
  /\ dropped = {}
  /\ handler = [c \in Clients |-> "none"]
  /\ rules = FALSE
-----------------------------------------------------------------------------
\* edr_deliver_event: a full fastOut turns the event away without a trace.
Deliver ==
  /\ Alive
  /\ events < MaxEvents
  /\ events' = events + 1
  /\ IF Len(fastCh) < FastCap
       THEN fastCh' = Append(fastCh, events + 1) /\ UNCHANGED lost
       ELSE lost' = lost \cup {events + 1} /\ UNCHANGED fastCh
  /\ UNCHANGED <<main, deferredCh, responseCh, work, handled, records, handler, rules>>

Begin(w, e) ==
  /\ stage[w] = "idle"
  /\ stage' = [stage EXCEPT ![w] = "busy"]
  /\ job' = [job EXCEPT ![w] = e]

\* StartFastPath's goroutine receives.
FastTake ==
  /\ Alive
  /\ fastCh # << >>
  /\ Begin("fast", Head(fastCh))
  /\ fastCh' = Tail(fastCh)
  /\ UNCHANGED <<main, deferredCh, responseCh, hand, events, fates, records, handler, rules>>

\* Faulty variant: the goroutine ends after its first event.
DeferredTakeOnce ==
  /\ Alive
  /\ deferredCh # << >>
  /\ handled = {}
  /\ Begin("deferred", Head(deferredCh))
  /\ deferredCh' = Tail(deferredCh)
  /\ UNCHANGED <<main, fastCh, responseCh, hand, events, fates, records, handler, rules>>

\* handleDeferredEval receives.
DeferredTake ==
  /\ Alive
  /\ deferredCh # << >>
  /\ Begin("deferred", Head(deferredCh))
  /\ deferredCh' = Tail(deferredCh)
  /\ UNCHANGED <<main, fastCh, responseCh, hand, events, fates, records, handler, rules>>

\* Worker w is done with its event, or the main loop with its cycle.
Over(w) ==
  /\ stage' = [stage EXCEPT ![w] = "idle"]
  /\ job' = [job EXCEPT ![w] = 0]

\* A send on a closed channel panics, in a select with a default as well.
Panic ==
  /\ main' = "panic"
  /\ UNCHANGED <<chans, work, events, fates, records, handler, rules>>

\* Faulty variant: an event that finds the channel full is not reported.
FastDeferQuietly ==
  /\ Alive
  /\ stage["fast"] = "busy"
  /\ Over("fast")
  /\ deferredCh' = IF Len(deferredCh) < DeferredCap
                     THEN Append(deferredCh, job["fast"]) ELSE deferredCh
  /\ UNCHANGED <<main, fastCh, responseCh, hand, events, fates, records, handler, rules>>

\* handleFastPathExec: no blacklist entry matches.
FastDefer ==
  /\ Alive
  /\ stage["fast"] = "busy"
  /\ IF DeferredClosed THEN Panic
     ELSE /\ Over("fast")
          /\ IF Len(deferredCh) < DeferredCap
               THEN deferredCh' = Append(deferredCh, job["fast"]) /\ UNCHANGED lost
               ELSE lost' = lost \cup {job["fast"]} /\ UNCHANGED deferredCh
          /\ UNCHANGED <<main, fastCh, responseCh, hand, events, handled, records, handler, rules>>

\* Responder.Apply, which may add to the nftables table, and recordResponse
\* up to the unlock.  The main loop answers any number of times in a cycle.
Respond(w) ==
  /\ Alive
  /\ stage[w] = "busy"
  /\ recorded < MaxRecords
  /\ recorded' = recorded + 1
  /\ hand' = [hand EXCEPT ![w] = recorded + 1]
  /\ stage' = [stage EXCEPT ![w] = "send"]
  /\ rules' \in {rules, TRUE}
  /\ UNCHANGED <<main, chans, job, events, fates, writing, file, dropped, handler>>

\* Faulty variants: the buffer has no limit; the record is kept and sent again.
SendPastCap(w) ==
  /\ Alive
  /\ stage[w] = "send"
  /\ responseCh' = Append(responseCh, hand[w])
  /\ Over(w)
  /\ hand' = [hand EXCEPT ![w] = 0]
  /\ handled' = handled \cup {job[w]}
  /\ UNCHANGED <<main, fastCh, deferredCh, events, lost, records, handler, rules>>
SendTwice(w) ==
  /\ Alive
  /\ stage[w] = "send"
  /\ Len(responseCh) < ResponseCap
  /\ responseCh' = Append(responseCh, hand[w])
  /\ UNCHANGED <<main, fastCh, deferredCh, work, events, fates, records, handler, rules>>

\* recordResponse: the select on responseCh, and the end of the handler.
Send(w) ==
  /\ Alive
  /\ stage[w] = "send"
  /\ IF ResponsesClosed THEN Panic
     ELSE /\ hand' = [hand EXCEPT ![w] = 0]
          /\ IF Len(responseCh) < ResponseCap
               THEN responseCh' = Append(responseCh, hand[w]) /\ UNCHANGED dropped
               ELSE dropped' = dropped \cup {hand[w]} /\ UNCHANGED responseCh
          /\ IF w = "main"
               THEN stage' = [stage EXCEPT ![w] = "busy"] /\ UNCHANGED <<job, handled>>
               ELSE Over(w) /\ handled' = handled \cup {job[w]}
          /\ UNCHANGED <<main, fastCh, deferredCh, writing, file, events, lost, recorded, handler, rules>>

\* A handler that ends without a response: an anti-attack event no rule
\* answers, a process that is gone, nothing matched or all suppressed.
Finish(w) ==
  /\ Alive
  /\ w # "main"
  /\ stage[w] = "busy"
  /\ Over(w)
  /\ handled' = handled \cup {job[w]}
  /\ UNCHANGED <<main, chans, hand, events, lost, records, handler, rules>>

\* responseWriter receives, and appendResponseRecord succeeds or gives up.
WriterTake ==
  /\ Alive
  /\ writing = 0
  /\ responseCh # << >>
  /\ writing' = Head(responseCh)
  /\ responseCh' = Tail(responseCh)
  /\ UNCHANGED <<main, fastCh, deferredCh, work, events, fates, file, recorded, dropped, handler, rules>>

WriterWrite ==
  /\ Alive
  /\ writing # 0
  /\ writing' = 0
  /\ \/ file' = Append(file, writing) /\ UNCHANGED dropped
     \/ dropped' = dropped \cup {writing} /\ UNCHANGED file
  /\ UNCHANGED <<main, chans, work, events, fates, recorded, handler, rules>>
-----------------------------------------------------------------------------
\* The ticker's case of the main loop: RunOnce begins, and ends.
BeginRun ==
  /\ main = "select"
  /\ main' = "run"
  /\ Begin("main", 0)
  /\ UNCHANGED <<chans, hand, events, fates, records, handler, rules>>

EndRun ==
  /\ main = "run"
  /\ stage["main"] = "busy"
  /\ main' = "select"
  /\ Over("main")
  /\ UNCHANGED <<chans, hand, events, fates, records, handler, rules>>

\* The shutdown handler answers "scheduled".  httpSrv.Shutdown closes the
\* listener first: there is no new request after it.
AnswerShutdown(c) ==
  /\ main \in {"select", "run", "clear"}
  /\ handler[c] = "none"
  /\ handler' = [handler EXCEPT ![c] = "scheduled"]
  /\ UNCHANGED <<main, chans, work, events, fates, records, rules>>

\* Faulty variant: requestShutdown waits for the main loop.
RequestShutdownBlocking(c) ==
  /\ handler[c] = "scheduled"
  /\ main = "select"
  /\ main' = "clear"
  /\ handler' = [handler EXCEPT ![c] = "over"]
  /\ UNCHANGED <<chans, work, events, fates, records, rules>>

\* requestShutdown: the send is taken only by a main loop that waits for it.
RequestShutdown(c) ==
  /\ Alive
  /\ handler[c] = "scheduled"
  /\ handler' = [handler EXCEPT ![c] = "over"]
  /\ main' = IF main = "select" THEN "clear" ELSE main
  /\ UNCHANGED <<chans, work, events, fates, records, rules>>

\* ClearAgentPID.
ClearAgentPID ==
  /\ main = "clear"
  /\ main' = "http"
  /\ UNCHANGED <<chans, work, events, fates, records, handler, rules>>

\* httpSrv.Shutdown waits for the handlers that are still running.
StopServer ==
  /\ main = "http"
  /\ \A c \in Clients : handler[c] # "scheduled"
  /\ main' = "nft"
  /\ UNCHANGED <<chans, work, events, fates, records, handler, rules>>

\* cleanupNFT deletes the table, or reports that it could not.
CleanupNFT ==
  /\ main = "nft"
  /\ main' = "closeResponses"
  /\ \E failed \in CleanupFails : rules' = (failed /\ rules)
  /\ UNCHANGED <<chans, work, events, fates, records, handler>>

\* Agent.Shutdown: close(responseCh).
CloseResponses ==
  /\ main = "closeResponses"
  /\ main' = "awaitWriter"
  /\ UNCHANGED <<chans, work, events, fates, records, handler, rules>>

\* Faulty variant: the writer is not waited for.
AwaitNoWriter ==
  /\ main = "awaitWriter"
  /\ main' = "closeDeferred"
  /\ UNCHANGED <<chans, work, events, fates, records, handler, rules>>

\* Agent.Shutdown: <-responseDone.
AwaitWriter ==
  /\ main = "awaitWriter"
  /\ responseCh = << >>
  /\ writing = 0
  /\ main' = "closeDeferred"
  /\ UNCHANGED <<chans, work, events, fates, records, handler, rules>>

\* Agent.Shutdown: close(deferredEvalCh), <-deferredEvalDone.
CloseDeferred ==
  /\ main = "closeDeferred"
  /\ main' = "awaitDeferred"
  /\ UNCHANGED <<chans, work, events, fates, records, handler, rules>>

AwaitDeferred ==
  /\ main = "awaitDeferred"
  /\ deferredCh = << >>
  /\ stage["deferred"] = "idle"
  /\ main' = "closeLoader"
  /\ UNCHANGED <<chans, work, events, fates, records, handler, rules>>

\* The deferred calls of main, loader.Close last; the process ends.
CloseLoader ==
  /\ main = "closeLoader"
  /\ main' = "exit"
  /\ UNCHANGED <<chans, work, events, fates, records, handler, rules>>

Shutdown ==
  \/ ClearAgentPID
  \/ StopServer
  \/ CleanupNFT
  \/ CloseResponses
  \/ AwaitWriter
  \/ CloseDeferred
  \/ AwaitDeferred
  \/ CloseLoader

FastStep == FastTake \/ FastDefer \/ Respond("fast") \/ Send("fast") \/ Finish("fast")
DeferredStep == DeferredTake \/ Respond("deferred") \/ Send("deferred") \/ Finish("deferred")
MainStep == BeginRun \/ Respond("main") \/ Send("main") \/ EndRun \/ Shutdown
WriterStep == WriterTake \/ WriterWrite

Next ==
  \/ Deliver
  \/ FastStep
  \/ DeferredStep
  \/ WriterStep
  \/ MainStep
  \/ \E c \in Clients : AnswerShutdown(c) \/ RequestShutdown(c)

\* Every goroutine that can run does, and a cycle polls finitely many objects.
Fairness ==
  /\ WF_vars(FastStep)
  /\ WF_vars(DeferredStep)
  /\ WF_vars(WriterStep)
  /\ WF_vars(MainStep)
  /\ WF_vars(\E c \in Clients : RequestShutdown(c))

Spec == Init /\ [][Next]_vars /\ Fairness
-----------------------------------------------------------------------------
TypeOK ==
  /\ main \in MainStates
  /\ fastCh \in Seq(1 .. MaxEvents) /\ Len(fastCh) <= FastCap
  /\ deferredCh \in Seq(1 .. MaxEvents) /\ Len(deferredCh) <= DeferredCap
  /\ responseCh \in Seq(Records) /\ Len(responseCh) <= ResponseCap
  /\ stage \in [Workers -> {"idle", "busy", "send"}]
  /\ job \in [Workers -> 0 .. MaxEvents]
  /\ hand \in [Workers -> 0 .. MaxRecords]
  /\ writing \in 0 .. MaxRecords
  /\ file \in Seq(Records)
  /\ events \in 0 .. MaxEvents
  /\ handled \subseteq 1 .. MaxEvents
  /\ lost \subseteq 1 .. MaxEvents
  /\ recorded \in 0 .. MaxRecords
  /\ dropped \subseteq Records
  /\ handler \in [Clients -> {"none", "scheduled", "over"}]
  /\ rules \in BOOLEAN

\* How often x is in a sequence, and is the value of a variable.
InSeq(x, s) == Cardinality({i \in DOMAIN s : s[i] = x})
Is(x, y) == IF x = y THEN 1 ELSE 0
In(x, S) == IF x \in S THEN 1 ELSE 0

(***************************************************************************)
(* recordResponse and responseWriter: a response that was counted is in    *)
(* one place, with a worker, in the channel, with the writer, in the file  *)
(* or given up, and never in the file twice, whoever made it and however   *)
(* far a shutdown or a panic has come.                                     *)
(***************************************************************************)
RecordsAccountedFor ==
  \A r \in 1 .. recorded :
    InSeq(r, responseCh) + InSeq(r, file) + Is(r, writing) + In(r, dropped)
      + Is(r, hand["main"]) + Is(r, hand["fast"]) + Is(r, hand["deferred"]) = 1

(***************************************************************************)
(* The two stages of evaluation: a ring0 event is in one place, and every  *)
(* event a full channel turned away is known.                              *)
(***************************************************************************)
EventsAccountedFor ==
  \A e \in 1 .. events :
    InSeq(e, fastCh) + InSeq(e, deferredCh) + Is(e, job["fast"]) + Is(e, job["deferred"])
      + In(e, handled) + In(e, lost) = 1

(***************************************************************************)
(* agent_test.go, TestShutdownNoDataLoss: "all records must be flushed".   *)
(* When the process has exited in order, the writer and the deferred       *)
(* evaluation have emptied their channels and nothing either of them had   *)
(* in hand is cut off.                                                     *)
(***************************************************************************)
ExitIsClean ==
  main = "exit" =>
    /\ responseCh = << >> /\ writing = 0
    /\ deferredCh = << >> /\ job["deferred"] = 0
    /\ hand["main"] = 0 /\ hand["deferred"] = 0

(***************************************************************************)
(* Once the main loop has taken a shutdown request the process ends, also  *)
(* when more requests arrive, the channels are full and ring0 events keep  *)
(* coming.                                                                 *)
(***************************************************************************)
ShutdownCompletes == main = "clear" ~> ~Alive

(***************************************************************************)
(* An event the fast path accepted is answered, evaluated or reported as   *)
(* dropped, unless the process ends first.                                 *)
(***************************************************************************)
EventsAreHandled ==
  \A e \in 1 .. MaxEvents : events >= e ~> e \in handled \cup lost \/ ~Alive

(***************************************************************************)
(* PROJECT_STATUS.md: a permitted shutdown clears the agent_pid map "and   *)
(* then takes the agent's graceful shutdown"; the process must not panic.  *)
(***************************************************************************)
ShutdownIsGraceful == main # "panic"

(***************************************************************************)
(* server.go answers a permitted request "shutdown": "scheduled": the      *)
(* process then ends.                                                      *)
(***************************************************************************)
ScheduledShutdownHappens == \A c \in Clients : handler[c] = "scheduled" ~> ~Alive

(***************************************************************************)
(* main.go, cleanupNFT: "This prevents leftover firewall rules from        *)
(* persisting in the kernel after the agent exits".                        *)
(***************************************************************************)
NoLeftoverRules == main = "exit" => ~rules
=============================================================================
