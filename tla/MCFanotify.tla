----------------------------- MODULE MCFanotify -----------------------------
(***************************************************************************)
(* Requests and policies for Fanotify: every ordered choice of two rules   *)
(* from a pool that varies match, window, whitelist, priority and effect.  *)
(***************************************************************************)
EXTENDS Fanotify

Request(name, user, file) ==
  [user |-> {user}, name |-> {name}, path |-> {name}, cmdline |-> {name},
   file |-> {file}, op |-> {"open"}]

MCView == [shSecret   |-> Request("sh", "1000", "secret"),
           toolSecret |-> Request("tool", "1000", "secret"),
           log        |-> Request("agent", "0", "log")]

MCRequests == {"shSecret", "toolSecret"}

Night == <<1320, 360>>

Day == <<540, 1020>>

MCMinutes == {360, 361, 600}

Match(field, value) == [x \in {field} |-> value]

MakeRule(id, match, window, whitelist, decision, priority, effect) ==
  [id |-> id, enabled |-> TRUE, decision |-> decision,
   action |-> IF decision = "block" THEN "fanotify_deny" ELSE "log", match |-> match,
   window |-> window, whitelist |-> whitelist, priority |-> priority, effect |-> effect]

Pool ==
  <<MakeRule("all", Match("file", "secret"), << >>, {}, "block", 0, {}),
    MakeRule("night", Match("file", "secret"), Night, {}, "block", 10, {"response"}),
    MakeRule("tools", Match("file", "secret"), << >>, {Match("name", "sh")}, "block", 10, {}),
    MakeRule("root", Match("user", "0"), Day, {}, "block", 0, {"response"}),
    MakeRule("watch", Match("op", "open"), Day, {}, "alert", 10, {"response"}),
    MakeRule("note", Match("name", "tool"), << >>, {}, "block", 5, {"audit"})>>

MakePolicy(rules) ==
  [access |-> [mode |-> "", whitelist |-> {}, blacklist |-> {}, action |-> ""],
   rules |-> rules, selfEnabled |-> FALSE, selfEnforce |-> ""]

MCPol ==
  [p \in {q \in (DOMAIN Pool) \X (DOMAIN Pool) : q[1] # q[2]} |-> MakePolicy(<<Pool[p[1]], Pool[p[2]]>>)]

MCReloads == {<<1, 2>>, <<5, 6>>}

\* All policies and hours are tried on one open, the policies of a reload with
\* everything else at one hour.
Sole == CHOOSE o \in Openers : TRUE

Alone == policy \notin Reloads

MCInit ==
  /\ Init
  /\ Alone => env = [logMarked |-> FALSE, audits |-> TRUE]
  /\ ~Alone => policy = <<1, 2>> /\ minute = 600 /\ (env.logMarked => env.audits)

MCNext ==
  /\ Next
  /\ Alone => /\ policy' = policy /\ stop' = "no" /\ mu' # PollLog
              /\ \A o \in Openers \ {Sole} : opener'[o].st = "idle"
  /\ ~Alone => minute' = minute

MCSpec == MCInit /\ [][MCNext]_vars /\ Fairness
=============================================================================
