--------------------------- MODULE LogRefinement ---------------------------
(***************************************************************************)
(* The event log implements AbstractLog: sealing, rotation in three kinds  *)
(* of renames, crashes between any two of them and lines cut short are     *)
(* invisible in the set of events a reader of the files can get back.      *)
(***************************************************************************)
EXTENDS EventLog

Readable(l) == l.kind \in {"chain", "legacy"}
ReadablePositions == {p \in Positions : Readable(At(p))}

\* Events of this run; the lines of the v0.1 file have no number.
Kept == {At(p).ev : p \in ReadablePositions} \ {0}

Abstract == INSTANCE AbstractLog WITH Events <- 1 .. MaxEvents, kept <- Kept

(***************************************************************************)
(* Logger.Write and rotateIfNeeded implement the abstract log as long as   *)
(* the renames of backups, whose errors rotateIfNeeded ignores, succeed.   *)
(***************************************************************************)
ImplementsAbstractLog == Abstract!ASpec

(***************************************************************************)
(* Reading the files in the order of rotatedFiles gives the events in the  *)
(* order they were written, also after renames that failed.                *)
(***************************************************************************)
LogInOrder ==
  \A p, q \in ReadablePositions :
    Earlier(p, q) => At(p).ev < At(q).ev \/ At(p).ev = 0
=============================================================================
