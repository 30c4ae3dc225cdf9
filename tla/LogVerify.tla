----------------------------- MODULE LogVerify -----------------------------
(***************************************************************************)
(* eventlog.Verify: the walk over the log files, oldest first, that replays *)
(* the hash chain, the check of a single record behind                     *)
(* /v0/events/verify?seq=n, and what their verdicts mean for the log.      *)
(***************************************************************************)
EXTENDS LogRefinement, FiniteSetsExt

PayloadOf(l) == [chain |-> l.chain, seq |-> l.seq, ev |-> l.ev]

\* recomputeHash.
RecomputeHash(l, prevHash) == Append(prevHash, PayloadOf(l))

\* Faulty variant: a line is only checked against itself.
LineIssuesAlone(l, prevHash) ==
  {k \in {"hash_mismatch"} : l.hash # RecomputeHash(l, l.prevHash)}

\* The checks of a chain line against the hash its predecessor left.
LineIssues(l, prevHash) ==
  {k \in {"prev_hash_break", "hash_mismatch"} :
     \/ k = "prev_hash_break" /\ l.prevHash # prevHash
     \/ k = "hash_mismatch" /\ l.hash # RecomputeHash(l, prevHash)}

\* What verifyOneFile hands from line to line and from file to file.
Fresh == [prevHash |-> << >>, lastSeq |-> 0, line |-> 0, issues |-> {}]
Report(acc, line, kinds) ==
  [acc EXCEPT !.issues = @ \cup {[line |-> line, kind |-> k] : k \in kinds}]

\* Faulty variant: the walk goes on from the hash it computed itself.
VerifyLineCascade(acc, l) ==
  LET here == [acc EXCEPT !.line = @ + 1]
  IN  IF l.kind = "legacy" THEN here
      ELSE [Report(here, here.line, LineIssues(l, acc.prevHash))
              EXCEPT !.prevHash = RecomputeHash(l, acc.prevHash), !.lastSeq = l.seq]

\* verifyOneFile: one decoded line; a legacy line is counted and passed over.
VerifyLine(acc, l) ==
  LET here == [acc EXCEPT !.line = @ + 1]
  IN  IF l.kind = "legacy" THEN here
      ELSE [Report(here, here.line, LineIssues(l, acc.prevHash))
              EXCEPT !.prevHash = l.hash, !.lastSeq = l.seq]

Malformed(l) == ~Readable(l)

\* The lines of a file, one after another: what has been reported after each.
ReplayLines(acc, f, last) ==
  LET walk[k \in 0 .. last] == IF k = 0 THEN acc ELSE VerifyLine(walk[k - 1], f[k])
  IN  walk

\* verifyOneFile: the decoder gives the file up at its first malformed line.
VerifyOneFile(acc, f) ==
  LET bad  == {i \in DOMAIN f : Malformed(f[i])}
      last == IF bad = {} THEN Len(f) ELSE Min(bad) - 1
      end  == ReplayLines(acc, f, last)[last]
  IN  IF bad = {} THEN end ELSE Report(end, end.line + 1, {"malformed"})

\* The suffixes of existing files among the first of the given ones.
ExistingOf(suffixes) ==
  LET names[k \in 0 .. MaxBackups + 1] ==
        IF k = 0 THEN << >>
        ELSE IF files[suffixes[k]] = << >> THEN names[k - 1]
        ELSE Append(names[k - 1], suffixes[k])
  IN  names

\* Faulty variant: newest first.
RotatedFilesAscending == ExistingOf([k \in 1 .. MaxBackups + 1 |-> k - 1])[MaxBackups + 1]

\* rotatedFiles: highest suffix first, the current file last.
RotatedFiles ==
  ExistingOf([k \in 1 .. MaxBackups + 1 |-> MaxBackups + 1 - k])[MaxBackups + 1]

\* The files of an order, one after another.
ReplayFiles(order) ==
  LET walk[k \in 0 .. Len(order)] ==
        IF k = 0 THEN Fresh ELSE VerifyOneFile(walk[k - 1], files[order[k]])
  IN  walk

\* Verify of the log as it is on disk in this state.
Verify == ReplayFiles(RotatedFiles)[Len(RotatedFiles)]

ChainLines(f) == {i \in DOMAIN f : f[i].kind = "chain"}

\* Faulty variant: the hash carried along is the one before the predecessor's.
VerifyEventSeqLate(n) ==
  LET f      == files[0]
      found  == {i \in ChainLines(f) : f[i].seq = n}
      before == {i \in ChainLines(f) : \E j \in ChainLines(f) : i < j /\ j < Min(found)}
  IN  IF f = << >> THEN {}
      ELSE IF found = {} THEN {"sequence not found"}
      ELSE LineIssues(f[Min(found)], IF before = {} THEN << >> ELSE f[Max(before)].hash)

\* verifyEventSeq: only the current file is read, malformed lines are skipped.
VerifyEventSeq(n) ==
  LET f      == files[0]
      found  == {i \in ChainLines(f) : f[i].seq = n}
      before == {i \in ChainLines(f) : i < Min(found)}
      prev   == IF before = {} THEN << >> ELSE f[Max(before)].hash
  IN  IF f = << >> THEN {}
      ELSE IF found = {} THEN {"sequence not found"}
      ELSE LineIssues(f[Min(found)], prev) \ IF n > 1 THEN {} ELSE {"prev_hash_break"}
-----------------------------------------------------------------------------
\* The chronological number of a line, as Verify counts lines.
LineNo(q) == Cardinality({p \in Positions : p = q \/ Earlier(p, q)})
FirstLine == {q \in ChainPositions : \A p \in ChainPositions : ~Earlier(p, q)}
Rooted == \A q \in FirstLine : At(q).prevHash = << >>

(***************************************************************************)
(* Verify flags exactly the lines where a record is missing before them:   *)
(* the breaks of the chain, and the oldest retained line when it is not    *)
(* the first of its chain.                                                 *)
(***************************************************************************)
VerifyFlagsTheBreaks ==
  ReadablePositions = Positions =>
    {i.line : i \in Verify.issues} =
      {LineNo(q) : q \in Breaks \cup {f \in FirstLine : At(f).prevHash # << >>}}

(***************************************************************************)
(* A clean verdict is worth something: every record that some line on disk *)
(* commits to is itself on disk.                                           *)
(***************************************************************************)
CleanMeansComplete ==
  Verify.issues = {} =>
    \A q \in ChainPositions : \A i \in DOMAIN At(q).hash :
      \E p \in ChainPositions : PayloadOf(At(p)) = At(q).hash[i]

(***************************************************************************)
(* integrity.go: "It scans rotated files (.1, .2, ...) in chronological    *)
(* order so the chain is verified across rotation boundaries."  When       *)
(* nothing has failed, rotation alone must not make the log look broken.   *)
(***************************************************************************)
VerifiedAcrossRotation == faults = 0 => Verify.issues = {}

(***************************************************************************)
(* server.go, verifyEventSeq, agrees with Verify on the records that have  *)
(* their predecessor in the current file.  Of the others it reports the    *)
(* first as broken and the older ones as not found, on a clean log as      *)
(* well: it opens the current file alone and starts from no prev_hash.     *)
(***************************************************************************)
SingleRecordAgrees ==
  Verify.issues = {} =>
    \A p, q \in ChainPositions :
      p[1] = 0 /\ q[1] = 0 /\ Earlier(p, q) => VerifyEventSeq(At(q).seq) = {}
=============================================================================
