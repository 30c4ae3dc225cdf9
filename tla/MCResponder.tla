---------------------------- MODULE MCResponder ----------------------------
(***************************************************************************)
(* Responder for TLC. No call touches the state of two components, so a    *)
(* behaviour in which two of them move is an interleaving of two in which  *)
(* one does: it is enough to follow one component at a time, with the part *)
(* of the configuration it reads. Processes change once a call has begun,  *)
(* the table they start from being any chain; with two calls on processes, *)
(* the table is kept smaller and changes less.                             *)
(***************************************************************************)
EXTENDS Responder, TLC

Touched ==
  {k \in Components : \/ calls[k] > 0
                      \/ k = "process" /\ changes > 0
                      \/ k = "files" /\ Len(inode) > 1}

ProcessStep ==
  /\ Touched \subseteq {"process"} /\ host.nft /\ ~ host.dryRun
  /\ ProcessNext
  /\ calls'.process > 0
  /\ calls'.process > 1 => changes' < MaxChanges /\ \E p \in Pids : ~ Present(p)
  /\ UNCHANGED <<fileVars, firewallVars>>

FileStep ==
  /\ Touched \subseteq {"files"} /\ host.nft /\ ~ host.dryRun /\ host.pidfd
  /\ FileNext
  /\ UNCHANGED <<processVars, firewallVars>>

FirewallStep ==
  /\ Touched \subseteq {"firewall"} /\ host.pidfd
  /\ FirewallNext
  /\ UNCHANGED <<processVars, fileVars>>

MCSpec == Init /\ [][ProcessStep \/ FileStep \/ FirewallStep \/ Restart]_vars

CallBounds == [process |-> 2, files |-> 3, firewall |-> 3]

Symmetry == Permutations(Programs)
=============================================================================
