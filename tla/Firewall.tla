------------------------------ MODULE Firewall ------------------------------
(***************************************************************************)
(* NFTProvider (internal/response/nft.go): nft_block, network_isolate and  *)
(* the rollback, as sequences of nft commands on one table of the kernel.  *)
(* Every command is a process of its own, so commands of two calls may     *)
(* alternate. Adding what exists succeeds; adding to what does not, fails. *)
(***************************************************************************)
EXTENDS ResponseCalls

VARIABLES
  table,     \* the table exists
  chains,    \* chains of the table
  rules,     \* rules of its chains
  broken     \* ghost: an isolation failed, died or met a rollback half way

firewallVars == <<table, chains, rules, broken>>

Exceptions == {"lo", "established", "dns_udp", "dns_tcp"}

\* commands() for a block; the list in ApplyIsolate, whose chain drops by default.
Commands ==
  [nft_block |-> <<"table", "blocklist", "drop">>,
   network_isolate |-> <<"table", "isolate", "lo", "established", "dns_udp", "dns_tcp">>]

Chains == {"blocklist", "isolate"}

ChainOf(rule) == IF rule \in Exceptions THEN "isolate" ELSE "blocklist"

\* The kernel accepts this command.
Applies(cmd) ==
  \/ cmd = "table"
  \/ cmd \in Chains /\ table
  \/ cmd \notin Chains /\ ChainOf(cmd) \in chains

Run(cmd) ==
  /\ table' = TRUE
  /\ chains' = IF cmd \in Chains THEN chains \cup {cmd} ELSE chains
  /\ rules' = IF cmd \in Chains \cup {"table"} THEN rules ELSE rules \cup {cmd}

----------------------------------------------------------------------------
\* A provider that is disabled or in dry-run mode reports success and runs
\* nothing.
FirewallCall(w, kind) ==
  /\ Begin(w, "firewall", [Idle EXCEPT !.kind = kind, !.cmd = 1,
                                        !.pc = IF host.nft THEN "nft" ELSE "dry"])
  /\ UNCHANGED firewallVars

\* Only the polling loop has connections to block.
ApplyToNetwork(w, kind) ==
  /\ w \in Agents /\ ~ host.dryRun
  /\ kind = "nft_block" => w = Poll
  /\ FirewallCall(w, kind)

IsolateHandler(w) == w \in Handlers /\ FirewallCall(w, "network_isolate")

\* /v0/network/restore and /v0/network/nft/rollback.
RestoreNetworkHandler(w) == w \in Handlers /\ FirewallCall(w, "nft_rollback")

DryRun(w) ==
  /\ At(w, "dry") /\ NoFault
  /\ Return(w, TRUE, call[w], 0)
  /\ UNCHANGED firewallVars

Isolating(w) == InCall(w, {"network_isolate"}) /\ At(w, "nft")

\* Faulty variant: an error is passed over.
RunCommandAnyway(w) ==
  LET c == call[w]
      cmd == Commands[c.kind][c.cmd]
      last == c.cmd = Len(Commands[c.kind])
  IN /\ At(w, "nft") /\ c.kind \in DOMAIN Commands
     /\ IF last THEN Return(w, TRUE, c, 0) ELSE Step(w, "nft", [c EXCEPT !.cmd = @ + 1])
     /\ broken' = (broken /\ ~ (last /\ Isolating(w) /\ ~ c.undone))
     /\ \/ Applies(cmd) /\ NoFault /\ Run(cmd)
        \/ Fails(w, ~ Applies(cmd)) /\ UNCHANGED <<table, chains, rules>>

\* The next command of a block or an isolation. The first error ends the call,
\* and nothing that was added is taken back.
RunCommand(w) ==
  LET c == call[w]
      cmd == Commands[c.kind][c.cmd]
      last == c.cmd = Len(Commands[c.kind])
  IN /\ At(w, "nft") /\ c.kind \in DOMAIN Commands
     /\ \/ /\ Applies(cmd) /\ NoFault
           /\ Run(cmd)
           /\ IF last THEN Return(w, TRUE, c, 0) ELSE Step(w, "nft", [c EXCEPT !.cmd = @ + 1])
           /\ broken' = (broken /\ ~ (last /\ Isolating(w) /\ ~ c.undone))
        \/ /\ Fails(w, ~ Applies(cmd))
           /\ Return(w, FALSE, c, 0)
           /\ broken' = (broken \/ Isolating(w))
           /\ UNCHANGED <<table, chains, rules>>

\* nft delete table: blocks and isolation go together.
Rollback(w) ==
  /\ At(w, "nft") /\ InCall(w, {"nft_rollback"})
  /\ \/ /\ table /\ NoFault
        /\ table' = FALSE
        /\ chains' = {}
        /\ rules' = {}
        /\ broken' = \E v \in Workers : Isolating(v)
        /\ call' = [v \in Workers |->
                      IF v = w THEN Idle
                      ELSE IF Isolating(v) THEN [call[v] EXCEPT !.undone = TRUE] ELSE call[v]]
        /\ outcome' = [Silent EXCEPT !.done = TRUE, !.ok = TRUE, !.call = call[w]]
        /\ UNCHANGED <<host, calls>>
     \/ /\ Fails(w, ~ table)
        /\ Return(w, FALSE, call[w], 0)
        /\ UNCHANGED firewallVars

FirewallInit ==
  /\ table = FALSE
  /\ chains = {}
  /\ rules = {}
  /\ broken = FALSE

FirewallNext ==
  \/ \E w \in Workers, kind \in DOMAIN Commands : ApplyToNetwork(w, kind)
  \/ \E w \in Workers : IsolateHandler(w) \/ RestoreNetworkHandler(w)
  \/ \E w \in Workers : DryRun(w) \/ RunCommand(w) \/ Rollback(w)
=============================================================================
