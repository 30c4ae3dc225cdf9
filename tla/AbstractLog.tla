---------------------------- MODULE AbstractLog ----------------------------
(***************************************************************************)
(* What the event log promises its readers, with no files, no rotation and *)
(* no chain: the set of the events that can be read back.  It grows by one *)
(* event at a time, newer than all it holds, and shrinks only from its old *)
(* end, so a gap in it is a Write that failed and never a record that was  *)
(* readable once and went missing from the middle.                         *)
(***************************************************************************)
EXTENDS Naturals

CONSTANT Events   \* the numbers of the events that may ever be written

VARIABLE kept

AInit == kept = {}

AppendEvent(e) ==
  /\ \A k \in kept : k < e
  /\ kept' = kept \cup {e}

DiscardUpTo(e) == kept' = {k \in kept : k > e}

ANext == \E e \in Events : AppendEvent(e) \/ DiscardUpTo(e)

ASpec == AInit /\ [][ANext]_kept
=============================================================================
