--------------------------- MODULE MCEnforcement ---------------------------
(***************************************************************************)
(* Programs and policies for Enforcement: a shell, a tool on the blacklist *)
(* under its short name, and a script interpreter whose harm only its      *)
(* command line or its environment tells.                                  *)
(***************************************************************************)
EXTENDS Enforcement

MCPrograms == {"sh", "tool", "script"}

MCImage == [sh     |-> [comm |-> "sh", path |-> "/bin/sh"],
            tool   |-> [comm |-> "tool", path |-> "/opt/tool"],
            script |-> [comm |-> "script-interpr", path |-> "/opt/script"]]

Program(name, path, cmdline, environ) ==
  [name |-> {name}, path |-> {path}, user |-> {"0"}, cmdline |-> cmdline,
   environ |-> environ, maps |-> {}, ptrace |-> {TRUE}]

MCTraits == [sh     |-> Program("sh", "/bin/sh", {"-c"}, {}),
             tool   |-> Program("tool", "/opt/tool", {}, {}),
             script |-> Program("script-interpr", "/opt/script", {"job"}, {"preload"})]

MCLongNames == {"script-interpreter"}

MCComm == [x \in {"sh", "tool", "script-interpreter"} |->
             IF x = "script-interpreter" THEN "script-interpr" ELSE x]

Match(field, value) == [x \in {field} |-> value]

MakeRule(id, match, effect, priority) ==
  [id |-> id, enabled |-> TRUE, decision |-> "block", action |-> "kill", match |-> match,
   window |-> << >>, whitelist |-> {}, priority |-> priority, effect |-> effect]

Access(mode, whitelist, blacklist) ==
  [mode |-> mode, whitelist |-> whitelist, blacklist |-> blacklist, action |-> "kill"]

MakePolicy(access, rules, self) ==
  [access |-> access, rules |-> rules, selfEnabled |-> TRUE, selfEnforce |-> self]

NoAccess == [mode |-> "", whitelist |-> {}, blacklist |-> {}, action |-> ""]

MCPol ==
  [black |-> MakePolicy(Access("enforce", {}, {Match("name", "tool"), Match("name", "script-interpreter")}),
                        <<MakeRule("r4", Match("cmdline", "job"), {"response"}, 0)>>, "kill"),
   white |-> MakePolicy(Access("enforce", {Match("name", "sh"), Match("cmdline", "job")}, {}),
                        <<MakeRule("r1", Match("environ", "preload"), {}, 0)>>, ""),
   rules |-> MakePolicy(NoAccess,
                        <<MakeRule("r1", Match("cmdline", "job"), {}, 0),
                          MakeRule("r2", Match("ptrace", TRUE), {"response"}, 10),
                          MakeRule("r3", Match("name", "sh"), {"response"}, 10)>>, "")]

MCPolicies == DOMAIN MCPol
=============================================================================
