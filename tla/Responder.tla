----------------------------- MODULE Responder -----------------------------
(***************************************************************************)
(* The response layer as the agent runs it: SoftResponder.Apply dispatches *)
(* to process control, quarantine and firewall, while the handlers of the  *)
(* control API work on the same processes, files and tables. In dry-run    *)
(* mode, and for actions that are only recorded, Apply changes nothing.    *)
(***************************************************************************)
EXTENDS ProcessControl, Quarantine, Firewall

vars == <<callVars, processVars, fileVars, firewallVars>>

\* The agent dies and is started again. The map of suspended processes is lost;
\* processes, files and tables stay as they are.
Restart ==
  /\ suspended # {} \/ \E w \in Workers : ~ At(w, "idle")
  /\ Fault(Poll)
  /\ call' = [w \in Workers |-> Idle]
  /\ outcome' = Silent
  /\ suspended' = {}
  /\ crossed' = Pids
  /\ stranded' = stranded \cup {call[w].entry : w \in {v \in Workers : InCall(v, {"quarantine"})}}
  /\ broken' = (broken \/ \E w \in Workers : Isolating(w))
  /\ UNCHANGED <<host, calls, proc, born, changes, at, inode, dir, meta, unlinked,
                 table, chains, rules>>

Init == CallsInit /\ ProcessInit /\ FileInit /\ FirewallInit

Next ==
  \/ ProcessNext /\ UNCHANGED <<fileVars, firewallVars>>
  \/ FileNext /\ UNCHANGED <<processVars, firewallVars>>
  \/ FirewallNext /\ UNCHANGED <<processVars, fileVars>>
  \/ Restart

Spec == Init /\ [][Next]_vars

----------------------------------------------------------------------------
\* Every component's state keeps its type: a call that is about to signal has a
\* pid left, the map and the directory have one entry for a key, and nothing is
\* left of a table that is gone.
TypeOK ==
  /\ \A p \in Pids : /\ proc[p].inst \in 0..born
                     /\ proc[p].state \in {"free", "running", "stopped", "zombie"}
                     /\ ~ Present(p) <=> proc[p].inst = 0
  /\ \A w \in Workers :
       call[w].pc \in {"check", "open", "double", "send", "fallback"} => call[w].todo # <<>>
  /\ {e.pid : e \in suspended} \subseteq Pids
  /\ \A d, e \in suspended : d.pid = e.pid => d = e
  /\ \A f \in Files : at[f] \in 0..Len(inode)
  /\ \A d, e \in dir : d.name = e.name => d = e
  /\ chains # {} => table
  /\ rules # {} => chains # {}

\* A signal meant for one process reaches another only if no identity was
\* checked (Resume, an anonymous freeze, the descendants of a kill_tree), if
\* the request had no start ticks, or if the pid was given to a later process
\* after sameProcess had passed.
MisdirectedOnlyByReuse ==
  LET c == outcome.call
  IN outcome.hit \notin {0, c.target} =>
       c.checked = 0 \/ c.ticks = 0 \/ outcome.hit > c.checked

\* A kill_tree without errors leaves none of the processes alive that descended
\* from its target when KillTree read the process table.
KilledTreeIsGone ==
  outcome.done /\ outcome.call.kind = "kill_tree" /\ ~ outcome.call.failed =>
    \A p \in Pids : proc[p].inst \in outcome.call.scanned => ~ Alive(p)

\* The map behind /v0/process/frozen is right, except while a Suspend or a
\* Resume of the pid is under way, after one of each have overlapped, and after
\* a restart: whoever is stopped is listed, and whoever is listed and has not
\* exited is stopped.
FrozenTableIsTrue ==
  \A p \in Pids \ crossed :
    \/ \E w \in Workers : InCall(w, FreezeKinds) /\ call[w].pid = p
    \/ /\ proc[p].state = "stopped" => \E e \in suspended : e.pid = p
       /\ \A e \in suspended : e = [pid |-> p, inst |-> proc[p].inst] => proc[p].state # "running"

\* A file in the quarantine directory is without permissions and has a readable
\* sidecar, so that it is listed and can be restored, unless its call has not
\* returned yet, has failed or died after the rename, or a Restore has begun on it.
KeptIsSealedAndListed ==
  \A e \in dir :
    \/ \E w \in Workers : InCall(w, {"quarantine"}) /\ call[w].entry = e.name
    \/ e.name \in stranded
    \/ /\ \E m \in Listed : m.name = e.name
       /\ inode[e.inode].mode \in {"sealed", "restored"}

\* Quarantine and Restore never lose a file: every inode is at one path or in
\* the directory once, unless a user replaced it or a Restore wrote over it.
NothingVanishes ==
  \A i \in DOMAIN inode :
    \/ i \in unlinked
    \/ Cardinality({f \in Files : at[f] = i}) + Cardinality({e \in dir : e.inode = i}) = 1

\* An isolation that is in force is whole: the chain that drops everything has
\* all four exceptions, unless an isolation is still under way, has failed or
\* died half way, or was crossed by a rollback. One reported as applied is whole.
IsolationIsWhole ==
  /\ "isolate" \in chains /\ ~ broken /\ (\A w \in Workers : ~ Isolating(w)) =>
       Exceptions \subseteq rules
  /\ outcome.done /\ outcome.ok /\ outcome.call.kind = "network_isolate"
       /\ host.nft /\ ~ outcome.call.undone =>
       "isolate" \in chains /\ Exceptions \subseteq rules

\* With pidfd_open available, a kill fails only for a process that is gone or
\* has changed: the pidfd makes the signal safe, it does not prevent it.
KillByPidfdWorks ==
  LET c == outcome.call
  IN outcome.done /\ c.kind = "kill" /\ c.path # None /\ host.pidfd /\ ~ outcome.ok =>
       proc[c.pid].inst # c.target \/ ~ Alive(c.pid) \/ proc[c.pid].prog # c.path
=============================================================================
