---------------------------- MODULE MCSuppressor ----------------------------
(***************************************************************************)
(* One rule that a process and a file match.                               *)
(***************************************************************************)
EXTENDS Suppressor

MCKeys == {"proc", "file"}
MCRules == {"R"}
MCRuleOf == [k \in MCKeys |-> "R"]
MCCategoryOf == [k \in MCKeys |-> IF k = "proc" THEN "process" ELSE "file"]
MCCooldown == [c \in Categories |-> IF c = "network" THEN 1 ELSE 2]
=============================================================================
