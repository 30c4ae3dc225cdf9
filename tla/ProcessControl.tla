--------------------------- MODULE ProcessControl ---------------------------
(***************************************************************************)
(* Signals sent by the response layer: kill (response.go), kill_tree       *)
(* (killtree.go), process_suspend and its Resume (suspend.go), against a   *)
(* process table that changes meanwhile. A process instance is a number    *)
(* that no later instance gets again; it stands for the start ticks of     *)
(* /proc/PID/stat. A pid is free again once its process has been reaped.   *)
(***************************************************************************)
EXTENDS ResponseCalls, Functions

CONSTANTS
  Pids,         \* pids above 1
  Programs,     \* what /proc/PID/exe may name
  MaxChanges    \* bound on what the processes of the host do by themselves

ASSUME PidsAssumption == \E n \in Pids \cup {1} : Pids = 2 .. n

VARIABLES
  proc,         \* the process table of the kernel
  born,         \* instances so far
  suspended,    \* the map of suspend.go: [pid, inst], inst being ghost
  crossed,      \* ghost: pids on which a Suspend and a Resume overlapped
  changes       \* changes so far

processVars == <<proc, born, suspended, crossed, changes>>

NoProc == [inst |-> 0, prog |-> None, parent |-> 0, state |-> "free"]

Present(p) == proc[p].state # "free"

Alive(p) == proc[p].state \in {"running", "stopped"}

\* The process table after p has died; its children go to pid 1.
Dead(p, left) ==
  [q \in Pids |->
     IF q = p THEN IF left = "zombie" THEN [proc[p] EXCEPT !.state = left] ELSE NoProc
     ELSE IF proc[q].parent = p THEN [proc[q] EXCEPT !.parent = 1] ELSE proc[q]]

HostStep ==
  /\ outcome' = Silent
  /\ UNCHANGED <<host, call, calls, faults, suspended, crossed>>

Change == changes < MaxChanges /\ changes' = changes + 1

Fork(p, parent) ==
  /\ Change
  /\ ~ Present(p) /\ proc[parent].state = "running"
  /\ born' = born + 1
  /\ proc' = [proc EXCEPT ![p] = [proc[parent] EXCEPT !.inst = born + 1, !.parent = parent]]
  /\ HostStep

Exec(p, prog) ==
  /\ Change
  /\ proc[p].state = "running" /\ proc[p].prog # prog
  /\ proc' = [proc EXCEPT ![p].prog = prog]
  /\ HostStep /\ UNCHANGED born

Exit(p) ==
  /\ Change
  /\ proc[p].state = "running"
  /\ \E left \in {"zombie", "free"} : proc' = Dead(p, left)
  /\ HostStep /\ UNCHANGED born

Reap(p) ==
  /\ proc[p].state = "zombie"
  /\ proc' = Dead(p, "free")
  /\ HostStep /\ UNCHANGED <<born, changes>>

----------------------------------------------------------------------------
\* Faulty variant: a matching path is accepted without the start ticks.
SameProgram(c) ==
  /\ c.path # None \/ c.ticks # 0
  /\ Present(c.pid)
  /\ c.path # None => Alive(c.pid) /\ proc[c.pid].prog = c.path

\* sameProcess(req). /proc/PID/exe cannot be read for a zombie.
sameProcess(c) ==
  /\ c.path # None \/ c.ticks # 0
  /\ Present(c.pid)
  /\ c.path # None => Alive(c.pid) /\ proc[c.pid].prog = c.path
  /\ c.ticks # 0 => proc[c.pid].inst = c.ticks

Children(S) == {p \in Pids : Present(p) /\ proc[p].parent \in S}

\* Faulty variant: the search stops at the children of the root.
ChildrenOnly(root) ==
  [n \in 0..Cardinality(Pids) |-> IF n = 0 THEN {root} ELSE IF n = 1 THEN Children({root}) ELSE {}]

\* findDescendants: one generation below the other, with the root as 0.
findDescendants(root) ==
  LET generation[n \in 0..Cardinality(Pids)] ==
        IF n = 0 THEN {root} ELSE Children(generation[n - 1])
  IN generation

\* The descendants of root by definition: what every set closed under children holds.
Descendants(root) ==
  {p \in Pids : \A S \in SUBSET Pids : root \in S /\ Children(S) \subseteq S => p \in S}

\* The pids below the root, deepest first, in an order sort.Slice may give
\* them, and the root last.
KillOrders(root) ==
  LET generation == findDescendants(root)
      below == UNION {generation[n] : n \in 1..Cardinality(Pids)}
      depth(p) == CHOOSE n \in 1..Cardinality(Pids) : p \in generation[n]
  IN {Append(order, root) : order \in
        {s \in Bijection(1..Cardinality(below), below) : \A i, j \in DOMAIN s : i < j => depth(s[i]) >= depth(s[j])}}
----------------------------------------------------------------------------
KillKinds == {"kill", "kill_tree"}

FreezeKinds == {"process_suspend", "process_resume"}

\* What a caller may know of the process it has seen: the polled snapshot has
\* path and start ticks, a probe event the path or nothing, an API client what
\* it likes.
Identities(p) == {<<proc[p].prog, proc[p].inst>>, <<proc[p].prog, 0>>, <<None, 0>>}

\* A call about a process that its caller has seen alive.
SignalCall(w, kind, p, identities) ==
  /\ Alive(p)
  /\ \E id \in identities :
       Begin(w, "process",
             [Idle EXCEPT !.kind = kind, !.pc = IF kind = "kill_tree" THEN "scan" ELSE "check",
                          !.pid = p, !.path = id[1], !.ticks = id[2],
                          !.target = proc[p].inst, !.todo = <<p>>])
  /\ crossed' = crossed \cup
       {q \in {p} : \E v \in Workers \ {w} :
                      call[v].pid = q /\ {kind, call[v].kind} = FreezeKinds}
  /\ UNCHANGED <<proc, born, suspended, changes>>

Apply(w, kind, p) ==
  /\ w \in Agents /\ ~ host.dryRun
  /\ SignalCall(w, kind, p, Identities(p))

\* The freeze and resume requests, which do not look at DryRun.
FreezeHandler(w, p) ==
  /\ w \in Handlers
  /\ SignalCall(w, "process_suspend", p, Identities(p))

ResumeHandler(w, p) ==
  /\ w \in Handlers
  /\ SignalCall(w, "process_resume", p, {<<None, 0>>})

\* KillTree reads the process table; the walk over /proc is one step.
Scan(w) ==
  /\ At(w, "scan") /\ NoFault
  /\ \E order \in KillOrders(call[w].pid) :
       Step(w, "check", [call[w] EXCEPT !.todo = order,
            !.scanned = {proc[q].inst : q \in {r \in Descendants(call[w].pid) : Present(r)}}])
  /\ UNCHANGED processVars

\* Faulty variant: the loop runs once more after the root.
AttemptedOnceMore(w, ok, hit) ==
  LET c == [call[w] EXCEPT !.killed = @ \/ ok, !.failed = @ \/ ~ ok]
  IN IF Len(c.todo) > 0 /\ InCall(w, {"kill_tree"})
     THEN /\ call' = [call EXCEPT ![w] = [c EXCEPT !.todo = Tail(@), !.pc = "check"]]
          /\ outcome' = Did(hit, FALSE, ok, c)
          /\ UNCHANGED <<host, calls>>
     ELSE Return(w, c.killed, c, hit)

\* The signal to the pid at the head of todo was (ok) or was not sent. A
\* kill_tree goes on with the next pid and succeeds if it killed any.
Attempted(w, ok, hit) ==
  LET c == [call[w] EXCEPT !.killed = @ \/ ok, !.failed = @ \/ ~ ok]
  IN IF Len(c.todo) > 1
     THEN /\ call' = [call EXCEPT ![w] = [c EXCEPT !.todo = Tail(@), !.pc = "check",
                                                   !.checked = 0, !.fd = 0]]
          /\ outcome' = Did(hit, FALSE, ok, c)
          /\ UNCHANGED <<host, calls>>
     ELSE Return(w, c.killed, c, hit)

\* The identity check of kill, Suspend and killSingleProcess. kill demands an
\* identity, the others check the one they are given; the descendants of a
\* kill_tree are given none, and Resume has no check.
Check(w) ==
  LET c == call[w]
      asked == /\ c.kind # "process_resume"
               /\ Head(c.todo) = c.pid
               /\ c.kind = "kill" \/ c.path # None \/ c.ticks # 0
  IN /\ At(w, "check") /\ NoFault
     /\ IF asked /\ ~ sameProcess(c)
        THEN Attempted(w, FALSE, 0)
        ELSE Step(w, "open", [c EXCEPT !.checked = IF asked THEN proc[c.pid].inst ELSE 0])
     /\ UNCHANGED processVars

\* pidfd_open: ENOSYS or EPERM lead to the fallback, ESRCH fails the attempt.
\* PidfdKill has a second check, pidfdSignal has none.
PidfdOpen(w) ==
  LET p == Head(call[w].todo)
  IN /\ At(w, "open") /\ NoFault
     /\ IF ~ host.pidfd THEN Step(w, "fallback", call[w])
        ELSE IF Present(p)
        THEN Step(w, IF InCall(w, KillKinds) THEN "double" ELSE "send",
                  [call[w] EXCEPT !.fd = proc[p].inst])
        ELSE Attempted(w, FALSE, 0)
     /\ UNCHANGED processVars

\* PidfdKill compares the link of its own descriptor with /proc/PID/exe. The
\* link of a pidfd names an anonymous inode, never a program: wherever the exe
\* can be read the two differ.
DoubleCheck(w) ==
  /\ At(w, "double") /\ NoFault
  /\ IF Alive(Head(call[w].todo)) THEN Attempted(w, FALSE, 0) ELSE Step(w, "send", call[w])
  /\ UNCHANGED processVars

\* The signal of this kind of call reaches pid p.
Deliver(kind, p) ==
  /\ UNCHANGED <<born, suspended, crossed, changes>>
  /\ IF ~ Alive(p) THEN UNCHANGED proc
     ELSE IF kind \in KillKinds
     THEN \E left \in {"zombie", "free"} : proc' = Dead(p, left)
     ELSE proc' = [proc EXCEPT ![p].state =
                     IF kind = "process_suspend" THEN "stopped" ELSE "running"]

\* The signal is out; Suspend and Resume have their map left to update.
Sent(w, p) ==
  LET hit == IF Alive(p) THEN proc[p].inst ELSE 0
      c == [call[w] EXCEPT !.fd = proc[p].inst, !.pc = "table"]
  IN /\ Deliver(call[w].kind, p)
     /\ IF InCall(w, KillKinds) THEN Attempted(w, TRUE, hit)
        ELSE /\ call' = [call EXCEPT ![w] = c]
             /\ outcome' = Did(hit, FALSE, TRUE, c)
             /\ UNCHANGED <<host, calls>>

\* pidfd_send_signal reaches the instance the descriptor was opened on, or nobody.
PidfdSend(w) ==
  /\ At(w, "send") /\ NoFault
  /\ \/ \E p \in Pids : proc[p].inst = call[w].fd /\ Sent(w, p)
     \/ /\ \A p \in Pids : proc[p].inst # call[w].fd
        /\ Attempted(w, FALSE, 0)
        /\ UNCHANGED processVars

\* os.FindProcess and a plain kill(2): whoever has the pid now.
Fallback(w) ==
  LET p == Head(call[w].todo)
  IN /\ At(w, "fallback") /\ NoFault
     /\ IF Present(p) THEN Sent(w, p)
        ELSE Attempted(w, FALSE, 0) /\ UNCHANGED processVars

\* Faulty variant: Resume leaves its pid in the map.
TableOnlyGrows(w) ==
  LET c == call[w]
      others == {e \in suspended : e.pid # c.pid}
  IN /\ At(w, "table") /\ NoFault
     /\ suspended' = IF c.kind = "process_suspend"
                     THEN others \cup {[pid |-> c.pid, inst |-> c.fd]} ELSE suspended
     /\ Return(w, TRUE, c, 0)
     /\ UNCHANGED <<proc, born, crossed, changes>>

\* suspended[pid] = processPath, or delete(suspended, pid), under suspendedMu.
UpdateTable(w) ==
  LET c == call[w]
      others == {e \in suspended : e.pid # c.pid}
  IN /\ At(w, "table") /\ NoFault
     /\ suspended' = others \cup
          IF c.kind = "process_suspend" THEN {[pid |-> c.pid, inst |-> c.fd]} ELSE {}
     /\ Return(w, TRUE, c, 0)
     /\ UNCHANGED <<proc, born, crossed, changes>>
\* The host at start: a chain of processes, each the parent of the next pid.
ProcessInit ==
  /\ \E prog \in Programs, live \in {S \in SUBSET Pids : \A p \in S, q \in Pids : q < p => q \in S} :
       /\ proc = [p \in Pids |-> IF p \in live
                    THEN [inst |-> p, prog |-> prog, parent |-> p - 1, state |-> "running"]
                    ELSE NoProc]
       /\ Cardinality(live) >= Cardinality(Pids) - 1
  /\ born = Cardinality(Pids) + 1
  /\ suspended = {}
  /\ crossed = {}
  /\ changes = 0

ProcessNext ==
  \/ \E p, q \in Pids : Fork(p, q)
  \/ \E p \in Pids : Exit(p) \/ Reap(p) \/ \E prog \in Programs : Exec(p, prog)
  \/ \E w \in Workers, p \in Pids :
       \/ \E kind \in KillKinds \cup {"process_suspend"} : Apply(w, kind, p)
       \/ FreezeHandler(w, p) \/ ResumeHandler(w, p)
  \/ \E w \in Workers : \/ Scan(w) \/ Check(w) \/ PidfdOpen(w) \/ DoubleCheck(w)
                        \/ PidfdSend(w) \/ Fallback(w) \/ UpdateTable(w)
=============================================================================
