-------------------------- MODULE EventLogProofs --------------------------
(***************************************************************************)
(* Proofs about the event log and its anchor, for every number of backups, *)
(* file size, set of failures and number of events: the types, the hash    *)
(* chain, which stays one line of history unless saveState itself fails,   *)
(* the order of the events in the files, that the log implements           *)
(* AbstractLog, what the anchor and its backends hold, and that a failure  *)
(* never breaks more than one link of the chain.                           *)
(***************************************************************************)
EXTENDS LogMonitor, WellFoundedInduction, TLAPS

\* A leaf that names no prover is left to Zenon.
USE ZenonT(60)

\* A non-empty set of natural numbers has a smallest element.
LEMMA MinExists ==
  ASSUME NEW S \in SUBSET Nat, S # {}
  PROVE  \E x \in S : \A y \in S : x <= y
<1> DEFINE R == OpToRel(<, Nat)
<1>1. IsWellFoundedOn(R, Nat)
  BY NatLessThanWellFounded
<1>2. \A x, y \in Nat : y < x => <<y, x>> \in R
  BY DEF OpToRel
<1> HIDE DEF R
<1>3. PICK x \in S : \A y \in S : ~ (<<y, x>> \in R)
  BY <1>1, WFMin
<1>4. \A y \in S : ~ (y < x)
  BY <1>2, <1>3
<1>5. \A y \in S : x <= y
  BY SMT, <1>4
<1> QED BY <1>5
-----------------------------------------------------------------------------
(***************************************************************************)
(* Digests: committing is reflexive and transitive, and a digest commits   *)
(* to the one it was computed from.                                        *)
(***************************************************************************)
LEMMA CommitsReflexive ==
  ASSUME NEW g \in Digest
  PROVE  Commits(g, g)
BY SMT DEF Commits, Digest

LEMMA CommitsTransitive ==
  ASSUME NEW a \in Digest, NEW b \in Digest, NEW c \in Digest,
         Commits(a, b), Commits(b, c)
  PROVE  Commits(a, c)
<1>1. /\ Len(a) \in Nat /\ Len(b) \in Nat /\ Len(c) \in Nat
  BY SMT DEF Digest
<1> QED BY SMT, <1>1 DEF Commits

LEMMA CommitsToEmpty ==
  ASSUME NEW g \in Digest
  PROVE  Commits(g, << >>)
BY SMT DEF Commits, Digest

LEMMA CommitsAppend ==
  ASSUME NEW g \in Digest, NEW p \in Payload
  PROVE  /\ Append(g, p) \in Digest
         /\ Len(Append(g, p)) = Len(g) + 1
         /\ Append(g, p) # << >>
         /\ Commits(Append(g, p), g)
<1>1. g \in Seq(Payload) /\ Len(g) \in Nat
  BY SMT DEF Digest
<1>2. Append(g, p) \in Seq(Payload) /\ Len(Append(g, p)) = Len(g) + 1
  BY SMT, <1>1
<1>3. Append(g, p) # << >>
  BY SMT, <1>1, <1>2
<1>4. \A i \in 1 .. Len(g) : g[i] = Append(g, p)[i]
  BY SMT, <1>1
<1> QED BY SMT, <1>1, <1>2, <1>3, <1>4 DEF Commits, Digest
-----------------------------------------------------------------------------
\* Lines of the file: what the kind of a line says about its fields.
LEMMA LineKinds ==
  /\ \A l \in Line : l.kind = "chain" => l \in ChainLine
  /\ \A l \in Line : l.kind = "legacy" => l \in LegacyLine
  /\ \A l \in ChainLine : l.kind = "chain"
  /\ \A l \in LegacyLine : l.kind = "legacy"
  /\ ChainLine \subseteq Line
  /\ LegacyLine \subseteq Line
  /\ Torn \in Line /\ Torn.kind = "torn"
  /\ Glued \in Line /\ Glued.kind = "glued"
BY SMT DEF Line, ChainLine, LegacyLine, Torn, Glued

LEMMA ChainLineFields ==
  ASSUME NEW l \in ChainLine
  PROVE  /\ l.chain \in Nat
         /\ l.seq \in Nat
         /\ l.ev \in Nat
         /\ l.prevHash \in Digest
         /\ l.hash \in Digest
BY DEF ChainLine

\* sealChain yields a chain line and a state, the line's hash being the head.
LEMMA SealChainType ==
  ASSUME NEW st \in ChainState, NEW n \in Nat
  PROVE  /\ SealChain(st, n).line \in ChainLine
         /\ SealChain(st, n).next \in ChainState
         /\ SealChain(st, n).line.ev = n
         /\ SealChain(st, n).line.prevHash = st.hash
         /\ SealChain(st, n).line.hash = SealChain(st, n).next.hash
         /\ SealChain(st, n).line.seq = st.seq + 1
         /\ SealChain(st, n).next.seq = st.seq + 1
         /\ SealChain(st, n).line.chain = SealChain(st, n).next.chain
         /\ n # 0 => SealChain(st, n).next.chain # 0
         /\ Len(SealChain(st, n).next.hash) = Len(st.hash) + 1
         /\ SealChain(st, n).next.hash # << >>
         /\ Commits(SealChain(st, n).next.hash, st.hash)
<1> DEFINE id == IF st.chain = 0 THEN n ELSE st.chain
           pl == [chain |-> id, seq |-> st.seq + 1, ev |-> n]
<1>1. st.hash \in Digest /\ st.seq \in Nat /\ st.chain \in Nat
  BY DEF ChainState
<1>2. pl \in Payload
  BY SMT, <1>1 DEF Payload
<1>3. /\ Append(st.hash, pl) \in Digest
      /\ Len(Append(st.hash, pl)) = Len(st.hash) + 1
      /\ Append(st.hash, pl) # << >>
      /\ Commits(Append(st.hash, pl), st.hash)
  BY <1>1, <1>2, CommitsAppend
<1>4. SealChain(st, n).line = [kind |-> "chain", chain |-> id, seq |-> st.seq + 1,
          ev |-> n, prevHash |-> st.hash, hash |-> Append(st.hash, pl)]
  BY DEF SealChain
<1>5. SealChain(st, n).next =
        [chain |-> id, seq |-> st.seq + 1, hash |-> Append(st.hash, pl)]
  BY DEF SealChain
<1> HIDE DEF pl
<1>6. id \in Nat /\ (n # 0 => id # 0)
  BY <1>1
<1> HIDE DEF id
<1> QED BY SMT, <1>1, <1>3, <1>4, <1>5, <1>6 DEF ChainLine, ChainState
-----------------------------------------------------------------------------
(***************************************************************************)
(* recoverFromLog: when there is a chain line there is a last one.  The    *)
(* file with the smallest suffix that has one, and in it the line nearest  *)
(* to the end.                                                             *)
(***************************************************************************)
LEMMA PositionPairs ==
  ASSUME NEW p
  PROVE  p \in Positions <=>
           \E f \in FileNo : \E i \in DOMAIN files[f] : p = <<f, i>>
BY SMT DEF Positions

\* The state a start loads; when it comes from the log, it is a line's.
LEMMA RecoverFromLogType ==
  ASSUME files \in [FileNo -> Seq(Line)]
  PROVE  /\ RecoverFromLog \in ChainState
         /\ ChainPositions = {} => RecoverFromLog = ZeroState
         /\ ChainPositions # {} =>
              \E p \in ChainPositions :
                /\ RecoverFromLog = [chain |-> At(p).chain, seq |-> At(p).seq,
                                     hash |-> At(p).hash]
                /\ \A q \in ChainPositions \ {p} : Earlier(q, p)
<1>LastChainLine.
      ASSUME files \in [FileNo -> Seq(Line)], ChainPositions # {}
      PROVE  \E p \in ChainPositions : \A q \in ChainPositions \ {p} : Earlier(q, p)
  <2> USE <1>LastChainLine
  <2> USE LogAssumption
  <2> DEFINE Has(f, i) == i \in DOMAIN files[f] /\ files[f][i].kind = "chain"
             F == {f \in FileNo : \E i \in Nat : Has(f, i)}
  <2>1. \A f \in FileNo : Len(files[f]) \in Nat /\ DOMAIN files[f] = 1 .. Len(files[f])
    BY SMT
  <2>2. \A p : p \in ChainPositions <=>
          \E f \in FileNo : \E i \in Nat : Has(f, i) /\ p = <<f, i>>
    BY SMT, <2>1, PositionPairs DEF ChainPositions, At
  <2> HIDE DEF Has
  <2>3. F # {} /\ F \in SUBSET Nat
    <3>1. FileNo \subseteq Nat
      BY SMT DEF FileNo
    <3>2. \E f \in FileNo : \E i \in Nat : Has(f, i)
      BY <2>2
    <3> QED BY <3>1, <3>2
  <2>4. PICK f \in F : \A g \in F : f <= g
    BY <2>3, MinExists
  <2> DEFINE D == {n \in Nat : \E i \in Nat : Has(f, i) /\ n = Len(files[f]) - i}
  <2>5. f \in FileNo /\ \A i \in Nat : Has(f, i) => i \in 1 .. Len(files[f])
    BY <2>1 DEF Has
  <2>6. D # {} /\ D \in SUBSET Nat
    <3>1. PICK i \in Nat : Has(f, i)
      BY <2>4
    <3>2. Len(files[f]) \in Nat /\ i \in 1 .. Len(files[f])
      BY <2>1, <2>5, <3>1
    <3>3. Len(files[f]) - i \in D
      BY SMT, <3>1, <3>2
    <3> QED BY <3>3
  <2>7. PICK n \in D : \A m \in D : n <= m
    BY <2>6, MinExists
  <2>8. PICK i \in Nat : Has(f, i) /\ n = Len(files[f]) - i
    BY <2>7
  <2>9. \A j \in Nat : Has(f, j) => j <= i
    <3> TAKE j \in Nat
    <3> HAVE Has(f, j)
    <3>1. Len(files[f]) - j \in D
      BY SMT, <2>1, <2>5
    <3>2. n <= Len(files[f]) - j
      BY <3>1, <2>7
    <3>3. Len(files[f]) \in Nat
      BY <2>1, <2>5
    <3> HIDE DEF D
    <3> QED BY SMT, <3>2, <3>3, <2>8
  <2>10. \A q \in ChainPositions \ {<<f, i>>} : Earlier(q, <<f, i>>)
    <3> TAKE q \in ChainPositions \ {<<f, i>>}
    <3>1. PICK g \in FileNo, j \in Nat : Has(g, j) /\ q = <<g, j>>
      BY <2>2
    <3>2. f <= g /\ (g = f => j <= i)
      BY <3>1, <2>4, <2>9
    <3>3. g = f => j # i
      BY <3>1
    <3> QED BY SMT, <3>1, <3>2, <3>3, <2>5 DEF Earlier, FileNo
  <2> QED BY <2>2, <2>5, <2>8, <2>10
<1>1. ZeroState \in ChainState
  BY SMT DEF ZeroState, ChainState, Digest
<1>2. CASE ChainPositions = {}
  BY <1>1, <1>2 DEF RecoverFromLog
<1>3. CASE ChainPositions # {}
  <2> DEFINE p == CHOOSE p \in ChainPositions :
                    \A q \in ChainPositions \ {p} : Earlier(q, p)
  <2>1. p \in ChainPositions /\ \A q \in ChainPositions \ {p} : Earlier(q, p)
    BY <1>3, <1>LastChainLine
  <2>2. RecoverFromLog = [chain |-> At(p).chain, seq |-> At(p).seq, hash |-> At(p).hash]
    BY <1>3 DEF RecoverFromLog
  <2> HIDE DEF p
  <2>3. At(p) \in Line /\ At(p).kind = "chain"
    BY SMT, <2>1, PositionPairs DEF ChainPositions, At
  <2>4. At(p).chain \in Nat /\ At(p).seq \in Nat /\ At(p).hash \in Digest
    BY <2>3, LineKinds, ChainLineFields
  <2> QED BY <2>1, <2>2, <2>4, <1>3 DEF ChainState
<1> QED BY <1>2, <1>3

-----------------------------------------------------------------------------
\* Appending to a file, whole or cut short, leaves a sequence of lines.
LEMMA AppendLineType ==
  ASSUME NEW f \in Seq(Line), NEW l \in Line
  PROVE  AppendLine(f, l) \in Seq(Line)
<1>1. Torn \in Line /\ Glued \in Line
  BY LineKinds
<1>2. CASE f = << >> \/ f[Len(f)] # Torn
  BY SMT, <1>2 DEF AppendLine
<1>3. CASE ~(f = << >> \/ f[Len(f)] # Torn)
  <2>1. Len(f) \in DOMAIN f
    BY SMT, <1>3
  <2> QED BY SMT, <1>1, <1>3, <2>1 DEF AppendLine
<1> QED BY <1>2, <1>3

LEMMA TypeInit == Init => TypeOK
<1> USE LogAssumption
<1> SUFFICES ASSUME Init PROVE TypeOK
  OBVIOUS
<1>1. Legacy(0) \in Line
  BY DEF Legacy, LegacyLine, Line
<1>2. [i \in 1 .. LegacyLines |-> Legacy(0)] \in Seq(Line)
  BY SMT, <1>1
<1>3. << >> \in Seq(Line)
  BY SMT
<1>4. files \in [FileNo -> Seq(Line)]
  BY <1>2, <1>3 DEF Init
<1>5. ZeroState \in ChainState /\ Torn \in Line
  BY SMT, LineKinds DEF ZeroState, ChainState, Digest
<1>6. 0 \in 0 .. MaxBackups - 1 /\ 0 \in 0 .. MaxEvents /\ 0 \in 0 .. MaxFaults
  BY SMT
<1> QED BY <1>4, <1>5, <1>6 DEF Init, TypeOK

\* One case per action; the files change only by a clear, a rename or an append.
LEMMA TypeStep == TypeOK /\ [Next]_vars => TypeOK'
<1>LoadChainType.
      ASSUME TypeOK
      PROVE  LoadChain \in ChainState /\ ZeroState \in ChainState
  <2> USE <1>LoadChainType
  <2>1. ZeroState \in ChainState
    BY SMT DEF ZeroState, ChainState, Digest
  <2> QED BY <2>1, RecoverFromLogType DEF LoadChain, TypeOK
<1>RenameType.
      ASSUME TypeOK, NEW i \in FileNo, NEW j \in FileNo, Rename(i, j)
      PROVE  files' \in [FileNo -> Seq(Line)]
  BY SMT, <1>RenameType DEF TypeOK, Rename
\* A counted failure stays within its bound.
<1>FaultBound.
      ASSUME TypeOK, NEW k, Fault(k)
      PROVE  faults' \in 0 .. MaxFaults
  BY SMT, <1>FaultBound, LogAssumption DEF TypeOK, Fault
<1> USE LogAssumption
<1> SUFFICES ASSUME TypeOK, [Next]_vars PROVE TypeOK'
  OBVIOUS
<1>1. CASE UNCHANGED vars
  BY <1>1 DEF TypeOK, vars
<1>2. ASSUME NEW on \in ChainModes, Start(on) PROVE TypeOK'
  BY <1>2, <1>LoadChainType DEF Start, TypeOK
<1>3. CASE Write
  <2>1. written + 1 \in Nat /\ written' \in 0 .. MaxEvents
    BY SMT, <1>3 DEF Write, TypeOK
  <2>2. CASE chainOn
    <3>1. /\ SealChain(state, written + 1).line \in ChainLine
          /\ SealChain(state, written + 1).next \in ChainState
      BY <2>1, SealChainType DEF TypeOK
    <3>2. raw' \in Line /\ state' \in ChainState /\ pc' = "save"
      BY <1>3, <2>2, <3>1, LineKinds DEF Write
    <3> QED BY <1>3, <2>1, <3>2 DEF Write, TypeOK
  <2>3. CASE ~chainOn
    <3>1. Legacy(written + 1) \in Line
      BY <2>1 DEF Legacy, LegacyLine, Line
    <3> QED BY <1>3, <2>1, <2>3, <3>1 DEF Write, TypeOK
  <2> QED BY <2>2, <2>3
<1>4. CASE SaveState
  BY <1>4, <1>FaultBound DEF SaveState, TypeOK, procVars
<1>5. CASE SkipRotation
  BY <1>5 DEF SkipRotation, TypeOK, procVars
<1>6. CASE RemoveOldest
  <2>1. files' \in [FileNo -> Seq(Line)]
    <3>1. << >> \in Seq(Line)
      BY SMT
    <3>2. files' = [files EXCEPT ![MaxBackups] = << >>] \/ UNCHANGED files
      BY <1>6 DEF RemoveOldest
    <3> QED BY <3>1, <3>2 DEF TypeOK
  <2> QED BY SMT, <1>6, <2>1, <1>FaultBound DEF RemoveOldest, TypeOK, procVars
<1>7. CASE ShiftBackup
  <2>1. shift \in FileNo /\ shift + 1 \in FileNo /\ shift' \in 0 .. MaxBackups - 1
    BY SMT, <1>7 DEF ShiftBackup, TypeOK, FileNo
  <2>2. files' \in [FileNo -> Seq(Line)]
    BY <1>7, <2>1, <1>RenameType DEF ShiftBackup, TypeOK
  <2> QED BY <1>7, <2>1, <2>2, <1>FaultBound DEF ShiftBackup, TypeOK, procVars
<1>8. CASE RotateCurrent
  <2>1. 0 \in FileNo /\ 1 \in FileNo
    BY SMT DEF FileNo
  <2>2. files' \in [FileNo -> Seq(Line)]
    <3>1. Rename(0, 1) \/ UNCHANGED files
      BY <1>8 DEF RotateCurrent
    <3> QED BY <3>1, <2>1, <1>RenameType DEF TypeOK
  <2> QED BY <1>8, <2>2, <1>FaultBound DEF RotateCurrent, TypeOK, procVars
<1>9. CASE AppendRaw
  <2>1. 0 \in FileNo /\ files[0] \in Seq(Line) /\ raw \in Line /\ Torn \in Line
    BY SMT, LineKinds DEF FileNo, TypeOK
  <2>2. AppendLine(files[0], raw) \in Seq(Line) /\ AppendLine(files[0], Torn) \in Seq(Line)
    BY <2>1, AppendLineType
  <2>3. files' \in [FileNo -> Seq(Line)]
    BY <1>9, <2>1, <2>2 DEF AppendRaw, TypeOK
  <2> QED BY <1>9, <2>3, <1>FaultBound DEF AppendRaw, TypeOK, procVars
<1>10. CASE Stop
  BY <1>10, <1>FaultBound, <1>LoadChainType DEF Stop, TypeOK
<1>11. CASE LoseState
  BY <1>11, <1>FaultBound, <1>LoadChainType DEF LoseState, TypeOK, procVars
<1> QED BY <1>1, <1>2, <1>3, <1>4, <1>5, <1>6, <1>7, <1>8, <1>9, <1>10, <1>11 DEF Next

(***************************************************************************)
(* Type correctness: through every failure and restart the files hold      *)
(* lines, the chain state is one newChainWriter can load, and the rotation *)
(* loop stays inside the suffixes path.1 .. path.MaxBackups.               *)
(***************************************************************************)
THEOREM TypeCorrect == Spec => []TypeOK
BY TypeInit, TypeStep, PTL DEF Spec
-----------------------------------------------------------------------------
(***************************************************************************)
(* What the steps do to the files, stated once: a step of rotateIfNeeded   *)
(* invents no line and swaps no two lines, and the append puts one line    *)
(* behind all others.  The invariants below are about lines on disk and    *)
(* about pairs of an earlier and a later line.                             *)
(***************************************************************************)
HasLine(fs, a) == \E f \in FileNo : \E i \in DOMAIN fs[f] : a = fs[f][i]

HasPair(fs, a, b) ==
  \E f \in FileNo, g \in FileNo : \E i \in DOMAIN fs[f], j \in DOMAIN fs[g] :
    /\ f > g \/ (f = g /\ i < j)
    /\ a = fs[f][i]
    /\ b = fs[g][j]

Shrinks(fs, gs) ==
  /\ \A a : HasLine(gs, a) => HasLine(fs, a)
  /\ \A a, b : HasPair(gs, a, b) => HasPair(fs, a, b)

Grows(fs, gs, l) ==
  /\ \A a : HasLine(gs, a) => HasLine(fs, a) \/ a \in {l, Torn, Glued}
  /\ \A a, b : HasPair(gs, a, b) =>
                 HasPair(fs, a, b) \/ (HasLine(fs, a) /\ b \in {l, Torn, Glued})

LEMMA ClearShrinks ==
  ASSUME NEW fs \in [FileNo -> Seq(Line)], NEW n \in FileNo
  PROVE  Shrinks(fs, [fs EXCEPT ![n] = << >>])
<1> DEFINE gs == [fs EXCEPT ![n] = << >>]
<1>1. \A f \in FileNo : f # n => gs[f] = fs[f]
  OBVIOUS
<1>2. DOMAIN gs[n] = {}
  BY SMT
<1> HIDE DEF gs
<1>3. \A a : HasLine(gs, a) => HasLine(fs, a)
  BY <1>1, <1>2 DEF HasLine
<1>4. ASSUME NEW a, NEW b, HasPair(gs, a, b) PROVE HasPair(fs, a, b)
  <2>1. PICK f \in FileNo, g \in FileNo : \E i \in DOMAIN gs[f], j \in DOMAIN gs[g] :
          (f > g \/ (f = g /\ i < j)) /\ a = gs[f][i] /\ b = gs[g][j]
    BY <1>4 DEF HasPair
  <2>2. f # n /\ g # n
    BY <2>1, <1>2
  <2>3. gs[f] = fs[f] /\ gs[g] = fs[g]
    BY <2>2, <1>1
  <2> QED BY <2>1, <2>3 DEF HasPair
<1> QED BY <1>3, <1>4 DEF Shrinks, gs

LEMMA RenameShrinks ==
  ASSUME NEW fs \in [FileNo -> Seq(Line)], NEW n \in FileNo, n + 1 \in FileNo
  PROVE  Shrinks(fs, [fs EXCEPT ![n + 1] = fs[n], ![n] = << >>])
<1> USE LogAssumption DEF FileNo
<1> DEFINE gs == [fs EXCEPT ![n + 1] = fs[n], ![n] = << >>]
           From(f) == IF f = n + 1 THEN n ELSE f
<1>1. \A f \in FileNo : f # n => From(f) \in FileNo /\ gs[f] = fs[From(f)]
  OBVIOUS
<1>2. DOMAIN gs[n] = {}
  BY SMT
<1>3. \A f, g \in FileNo : f # n /\ g # n /\ f > g => From(f) > From(g)
  BY SMT
<1> HIDE DEF gs, From
<1>4. \A a : HasLine(gs, a) => HasLine(fs, a)
  BY <1>1, <1>2 DEF HasLine
<1>5. ASSUME NEW a, NEW b, HasPair(gs, a, b) PROVE HasPair(fs, a, b)
  <2>1. PICK f \in FileNo, g \in FileNo : \E i \in DOMAIN gs[f], j \in DOMAIN gs[g] :
          (f > g \/ (f = g /\ i < j)) /\ a = gs[f][i] /\ b = gs[g][j]
    BY <1>5 DEF HasPair
  <2>2. f # n /\ g # n
    BY <2>1, <1>2
  <2>3. /\ From(f) \in FileNo /\ gs[f] = fs[From(f)]
        /\ From(g) \in FileNo /\ gs[g] = fs[From(g)]
    BY <2>2, <1>1
  <2>4. (f > g => From(f) > From(g)) /\ (f = g => From(f) = From(g))
    BY <2>2, <1>3
  <2> HIDE DEF FileNo
  <2> QED BY SMT, <2>1, <2>3, <2>4 DEF HasPair
<1> QED BY <1>4, <1>5 DEF Shrinks, gs

LEMMA AppendGrows ==
  ASSUME NEW fs \in [FileNo -> Seq(Line)], NEW l \in Line
  PROVE  Grows(fs, [fs EXCEPT ![0] = AppendLine(fs[0], l)], l)
<1> USE LogAssumption
<1> DEFINE h  == AppendLine(fs[0], l)
           n  == Len(fs[0])
           gs == [fs EXCEPT ![0] = h]
           N  == {l, Torn, Glued}
<1>1. 0 \in FileNo /\ fs[0] \in Seq(Line) /\ n \in Nat /\ DOMAIN fs[0] = 1 .. n
  BY SMT DEF FileNo
<1>2. \A f \in FileNo : f # 0 => gs[f] = fs[f]
  OBVIOUS
<1>3. gs[0] = h
  BY <1>1
<1>4. \A j \in DOMAIN h : \/ j \in DOMAIN fs[0] /\ h[j] = fs[0][j]
                         \/ /\ h[j] \in N
                            /\ \A i \in DOMAIN h : i < j => i \in DOMAIN fs[0] /\ h[i] = fs[0][i]
                            /\ \A i \in DOMAIN h : ~(j < i)
  <2>1. CASE fs[0] = << >> \/ fs[0][n] # Torn
    <3>1. h = Append(fs[0], l)
      BY <2>1 DEF AppendLine
    <3>2. /\ DOMAIN h = 1 .. n + 1
          /\ h[n + 1] = l
          /\ \A i \in 1 .. n : h[i] = fs[0][i]
      BY SMT, <1>1, <3>1
    <3> HIDE DEF h, n, gs
    <3> QED BY SMT, <1>1, <3>2
  <2>2. CASE ~(fs[0] = << >> \/ fs[0][n] # Torn)
    <3>1. h = [fs[0] EXCEPT ![n] = IF l = Torn THEN Torn ELSE Glued]
      BY <2>2 DEF AppendLine
    <3>2. n \in 1 .. n
      BY SMT, <1>1, <2>2
    <3>3. /\ DOMAIN h = 1 .. n
          /\ h[n] \in {Torn, Glued}
          /\ \A i \in 1 .. n : i # n => h[i] = fs[0][i]
      BY <1>1, <3>1, <3>2
    <3> HIDE DEF h, n, gs
    <3> QED BY SMT, <1>1, <3>3
  <2> QED BY <2>1, <2>2
<1> HIDE DEF h, gs, N, n
<1>5. \A f \in FileNo : \A i \in DOMAIN gs[f] :
        (i \in DOMAIN fs[f] /\ gs[f][i] = fs[f][i]) \/ (f = 0 /\ gs[f][i] \in N)
  BY <1>2, <1>3, <1>4
<1>6. \A a : HasLine(gs, a) => HasLine(fs, a) \/ a \in N
  BY <1>5 DEF HasLine
<1>7. ASSUME NEW a, NEW b, HasPair(gs, a, b)
      PROVE  HasPair(fs, a, b) \/ (HasLine(fs, a) /\ b \in N)
  <2>1. PICK f \in FileNo, g \in FileNo : \E i \in DOMAIN gs[f], j \in DOMAIN gs[g] :
          (f > g \/ (f = g /\ i < j)) /\ a = gs[f][i] /\ b = gs[g][j]
    BY <1>7 DEF HasPair
  <2>2. PICK i \in DOMAIN gs[f], j \in DOMAIN gs[g] :
          (f > g \/ (f = g /\ i < j)) /\ a = gs[f][i] /\ b = gs[g][j]
    BY <2>1
  <2>3. i \in DOMAIN fs[f] /\ gs[f][i] = fs[f][i]
    <3>1. CASE f # 0
      BY <1>2, <2>2, <3>1
    <3>2. CASE f = 0
      <4>1. g = 0 /\ i < j
        BY SMT, <2>2, <3>2 DEF FileNo
      <4> QED BY <1>3, <1>4, <2>2, <3>2, <4>1
    <3> QED BY <3>1, <3>2
  <2>4. HasLine(fs, a)
    BY <2>2, <2>3 DEF HasLine
  <2>5. (j \in DOMAIN fs[g] /\ gs[g][j] = fs[g][j]) \/ b \in N
    BY <1>5, <2>2
  <2> QED BY <2>2, <2>3, <2>4, <2>5 DEF HasPair
<1> QED BY <1>6, <1>7 DEF Grows, gs, h, N

\* Every step leaves the lines alone, drops some, or is the append of raw.
LEMMA FileStep ==
  ASSUME TypeOK, Next
  PROVE  Shrinks(files, files') \/ (AppendRaw /\ Grows(files, files', raw))
<1> USE LogAssumption
<1>1. CASE UNCHANGED files
  BY <1>1 DEF Shrinks
<1>2. CASE RemoveOldest
  <2>1. files' = [files EXCEPT ![MaxBackups] = << >>] \/ UNCHANGED files
    BY <1>2 DEF RemoveOldest
  <2>2. MaxBackups \in FileNo
    BY SMT DEF FileNo
  <2> QED BY <1>1, <2>1, <2>2, ClearShrinks DEF TypeOK
<1>3. CASE ShiftBackup
  <2>1. \/ files' = [files EXCEPT ![shift + 1] = files[shift], ![shift] = << >>]
        \/ UNCHANGED files
    BY <1>3 DEF ShiftBackup, Rename
  <2>2. shift \in FileNo /\ shift + 1 \in FileNo
    BY SMT DEF TypeOK, FileNo
  <2> QED BY <1>1, <2>1, <2>2, RenameShrinks DEF TypeOK
<1>4. CASE RotateCurrent
  <2>1. \/ files' = [files EXCEPT ![0 + 1] = files[0], ![0] = << >>]
        \/ UNCHANGED files
    BY SMT, <1>4 DEF RotateCurrent, Rename
  <2>2. 0 \in FileNo /\ 0 + 1 \in FileNo
    BY SMT DEF FileNo
  <2> QED BY <1>1, <2>1, <2>2, RenameShrinks DEF TypeOK
<1>5. CASE AppendRaw
  <2>1. Torn \in Line
    BY LineKinds
  <2>2. \/ files' = [files EXCEPT ![0] = AppendLine(files[0], raw)]
        \/ UNCHANGED files
        \/ files' = [files EXCEPT ![0] = AppendLine(files[0], Torn)]
    BY <1>5 DEF AppendRaw
  <2>3. \A l \in Line : Grows(files, [files EXCEPT ![0] = AppendLine(files[0], l)], l)
    BY AppendGrows DEF TypeOK
  <2>4. \A gs : Grows(files, gs, Torn) => Grows(files, gs, raw)
    BY SMT DEF Grows
  <2> QED BY <1>1, <1>5, <2>1, <2>2, <2>3, <2>4 DEF TypeOK
<1>6. ~RemoveOldest /\ ~ShiftBackup /\ ~RotateCurrent /\ ~AppendRaw => UNCHANGED files
  BY DEF Next, Start, Write, SaveState, SkipRotation, Stop, LoseState
<1> QED BY <1>1, <1>2, <1>3, <1>4, <1>5, <1>6

\* Positions and lines say the same thing.
LEMMA PairsArePositions ==
  /\ \A p \in Positions : HasLine(files, At(p))
  /\ \A p, q \in Positions : Earlier(p, q) => HasPair(files, At(p), At(q))
  /\ \A a : HasLine(files, a) => \E p \in Positions : a = At(p)
  /\ \A a, b : HasPair(files, a, b) =>
       \E p, q \in Positions : Earlier(p, q) /\ a = At(p) /\ b = At(q)
<1>1. \A p \in Positions : HasLine(files, At(p))
  BY SMT, PositionPairs DEF HasLine, At
<1>2. ASSUME NEW p \in Positions, NEW q \in Positions, Earlier(p, q)
      PROVE  HasPair(files, At(p), At(q))
  <2>1. PICK f \in FileNo : \E i \in DOMAIN files[f] : p = <<f, i>>
    BY PositionPairs
  <2>2. PICK i \in DOMAIN files[f] : p = <<f, i>>
    BY <2>1
  <2>3. PICK g \in FileNo : \E j \in DOMAIN files[g] : q = <<g, j>>
    BY PositionPairs
  <2>4. PICK j \in DOMAIN files[g] : q = <<g, j>>
    BY <2>3
  <2>5. f > g \/ (f = g /\ i < j)
    BY <1>2, <2>2, <2>4 DEF Earlier
  <2> QED BY <2>2, <2>4, <2>5 DEF HasPair, At
<1>3. \A a : HasLine(files, a) => \E p \in Positions : a = At(p)
  <2> SUFFICES ASSUME NEW a, HasLine(files, a) PROVE \E p \in Positions : a = At(p)
    OBVIOUS
  <2>1. PICK f \in FileNo : \E i \in DOMAIN files[f] : a = files[f][i]
    BY DEF HasLine
  <2>2. PICK i \in DOMAIN files[f] : a = files[f][i]
    BY <2>1
  <2>3. <<f, i>> \in Positions
    BY PositionPairs
  <2>4. a = At(<<f, i>>)
    BY <2>2 DEF At
  <2> QED BY <2>3, <2>4
<1>4. ASSUME NEW a, NEW b, HasPair(files, a, b)
      PROVE  \E p, q \in Positions : Earlier(p, q) /\ a = At(p) /\ b = At(q)
  <2>1. PICK f \in FileNo, g \in FileNo : \E i \in DOMAIN files[f], j \in DOMAIN files[g] :
          (f > g \/ (f = g /\ i < j)) /\ a = files[f][i] /\ b = files[g][j]
    BY <1>4 DEF HasPair
  <2>2. PICK i \in DOMAIN files[f], j \in DOMAIN files[g] :
          (f > g \/ (f = g /\ i < j)) /\ a = files[f][i] /\ b = files[g][j]
    BY <2>1
  <2>3. <<f, i>> \in Positions /\ <<g, j>> \in Positions
    BY PositionPairs
  <2>4. Earlier(<<f, i>>, <<g, j>>) /\ a = At(<<f, i>>) /\ b = At(<<g, j>>)
    BY <2>2 DEF Earlier, At
  <2> QED BY <2>3, <2>4
<1> QED BY <1>1, <1>2, <1>3, <1>4

-----------------------------------------------------------------------------
(***************************************************************************)
(* The inductive invariant.  NoFork alone is not inductive: it needs that  *)
(* the digest the next line will be sealed with commits to every line on   *)
(* disk.  Which digest that is depends on where the Write is: the head in  *)
(* memory between Writes, prev_hash of the line in hand during one, and    *)
(* the state file, unless it is lost, when the process is down.            *)
(***************************************************************************)
Sealed(a) ==
  /\ Commits(a.hash, a.prevHash)
  /\ Len(a.hash) = Len(a.prevHash) + 1
  /\ a.seq = Len(a.hash)

Covers(fs, h) == \A a : HasLine(fs, a) /\ a.kind = "chain" => Commits(h, a.hash)

LinesSealed == \A a : HasLine(files, a) /\ a.kind = "chain" => Sealed(a)

PairsLinked ==
  \A a, b : HasPair(files, a, b) /\ a.kind = "chain" /\ b.kind = "chain" =>
              Commits(b.prevHash, a.hash)

HeadsCount ==
  /\ state.seq = Len(state.hash)
  /\ stateFile.seq = Len(stateFile.hash)

StateFileCovers == stateFile.hash # << >> => Covers(files, stateFile.hash)

IdleCovers == up /\ chainOn /\ pc = "idle" => Covers(files, state.hash)

InHand ==
  pc # "idle" =>
    IF chainOn
      THEN /\ raw.kind = "chain"
           /\ Sealed(raw)
           /\ raw.hash = state.hash
           /\ Covers(files, raw.prevHash)
           /\ pc # "save" /\ stateFile.hash # << >> => stateFile.hash = state.hash
      ELSE raw.kind = "legacy" /\ pc # "save"

DownIsIdle == ~up => pc = "idle"

ChainInv ==
  /\ TypeOK
  /\ DownIsIdle
  /\ LinesSealed
  /\ PairsLinked
  /\ HeadsCount
  /\ StateFileCovers
  /\ IdleCovers
  /\ InHand

LEMMA LineTypes ==
  ASSUME TypeOK, NEW a, HasLine(files, a)
  PROVE  a \in Line /\ (a.kind = "chain" => a \in ChainLine)
BY SMT, LineKinds DEF HasLine, TypeOK

\* During a Write the head in memory commits to every line on disk.
LEMMA HeadCovers ==
  ASSUME ChainInv, pc # "idle", chainOn
  PROVE  Covers(files, state.hash)
\* A digest that commits to what covers the log covers the log.
<1>CoversUp.
      ASSUME TypeOK, NEW h \in Digest, NEW g \in Digest, Commits(h, g), Covers(files, g)
      PROVE  Covers(files, h)
  <2> USE <1>CoversUp
  <2> SUFFICES ASSUME NEW a, HasLine(files, a), a.kind = "chain"
               PROVE  Commits(h, a.hash)
    BY DEF Covers
  <2>1. a.hash \in Digest
    BY LineTypes, ChainLineFields
  <2>2. Commits(g, a.hash)
    BY DEF Covers
  <2> QED BY <2>1, <2>2, CommitsTransitive
<1>1. raw.kind = "chain" /\ Sealed(raw) /\ raw.hash = state.hash /\ Covers(files, raw.prevHash)
  BY DEF ChainInv, InHand
<1>2. raw \in ChainLine
  BY <1>1, LineKinds DEF ChainInv, TypeOK
<1>3. raw.hash \in Digest /\ raw.prevHash \in Digest
  BY <1>2, ChainLineFields
<1> QED BY <1>1, <1>3, <1>CoversUp DEF ChainInv, Sealed

\* What newChainWriter loads covers the log, and counts its records.
LEMMA LoadCovers ==
  ASSUME ChainInv
  PROVE  Covers(files, LoadChain.hash) /\ LoadChain.seq = Len(LoadChain.hash)
<1>1. files \in [FileNo -> Seq(Line)] /\ TypeOK
  BY DEF ChainInv, TypeOK
<1>2. CASE ~(stateFile.chain = 0 \/ stateFile.hash = << >>)
  BY <1>2 DEF LoadChain, ChainInv, StateFileCovers, HeadsCount
<1>3. CASE (stateFile.chain = 0 \/ stateFile.hash = << >>) /\ ChainPositions = {}
  <2>1. LoadChain = ZeroState
    BY <1>1, <1>3, RecoverFromLogType DEF LoadChain
  <2>2. Covers(files, LoadChain.hash)
    BY SMT, <1>3, PairsArePositions DEF Covers, ChainPositions
  <2> QED BY <2>1, <2>2 DEF ZeroState
<1>4. CASE (stateFile.chain = 0 \/ stateFile.hash = << >>) /\ ChainPositions # {}
  <2>1. LoadChain = RecoverFromLog
    BY <1>4 DEF LoadChain
  <2>2. PICK p \in ChainPositions :
          /\ RecoverFromLog = [chain |-> At(p).chain, seq |-> At(p).seq, hash |-> At(p).hash]
          /\ \A q \in ChainPositions \ {p} : Earlier(q, p)
    BY <1>1, <1>4, RecoverFromLogType
  <2>3. LoadChain.hash = At(p).hash /\ LoadChain.seq = At(p).seq
    BY <2>1, <2>2
  <2>4. p \in Positions /\ HasLine(files, At(p)) /\ At(p).kind = "chain"
    BY PairsArePositions DEF ChainPositions
  <2>5. /\ Sealed(At(p))
        /\ At(p).hash \in Digest /\ At(p).prevHash \in Digest
    BY <1>1, <2>4, LineTypes, ChainLineFields DEF ChainInv, LinesSealed
  <2>6. ASSUME NEW a, HasLine(files, a), a.kind = "chain"
        PROVE  Commits(At(p).hash, a.hash)
    <3>1. PICK q \in Positions : a = At(q)
      BY <2>6, PairsArePositions
    <3>2. q \in ChainPositions
      BY <2>6, <3>1 DEF ChainPositions
    <3>3. a.hash \in Digest
      BY <1>1, <2>6, LineTypes, ChainLineFields
    <3>4. CASE q = p
      BY <3>1, <3>4, <3>3, CommitsReflexive
    <3>5. CASE q # p
      <4>1. HasPair(files, a, At(p))
        BY <2>2, <2>4, <3>1, <3>2, <3>5, PairsArePositions
      <4>2. Commits(At(p).prevHash, a.hash)
        BY <2>4, <2>6, <4>1 DEF ChainInv, PairsLinked
      <4> QED BY <2>5, <3>3, <4>2, CommitsTransitive DEF Sealed
    <3> QED BY <3>4, <3>5
  <2> QED BY <2>3, <2>5, <2>6 DEF Covers, Sealed
<1> QED BY <1>2, <1>3, <1>4

\* Steps that add no line keep what is said about lines and pairs.
LEMMA ShrinkKeeps ==
  ASSUME Shrinks(files, files')
  PROVE  /\ LinesSealed => LinesSealed'
         /\ PairsLinked => PairsLinked'
         /\ \A h : Covers(files, h) => Covers(files', h)
BY DEF Shrinks, LinesSealed, PairsLinked, Covers

LEMMA ChainInit == Init => ChainInv
<1> SUFFICES ASSUME Init PROVE ChainInv
  OBVIOUS
<1>1. TypeOK
  BY TypeInit
<1>2. ASSUME NEW a, HasLine(files, a) PROVE a.kind # "chain"
  <2>1. PICK f \in FileNo : \E i \in DOMAIN files[f] : a = files[f][i]
    BY <1>2 DEF HasLine
  <2>2. PICK i \in DOMAIN files[f] : a = files[f][i]
    BY <2>1
  <2>3. f = 0
    BY SMT, <2>2 DEF Init
  <2>4. files[0] = [k \in 1 .. LegacyLines |-> Legacy(0)]
    BY SMT, LogAssumption DEF Init, FileNo
  <2>5. a = Legacy(0)
    BY <2>2, <2>3, <2>4
  <2> QED BY <2>5 DEF Legacy
<1>3. ASSUME NEW a, NEW b, HasPair(files, a, b) PROVE HasLine(files, a)
  BY <1>3 DEF HasPair, HasLine
<1>4. LinesSealed /\ PairsLinked
  BY <1>2, <1>3 DEF LinesSealed, PairsLinked
<1>5. HeadsCount /\ StateFileCovers /\ IdleCovers /\ InHand /\ DownIsIdle
  BY DEF Init, DownIsIdle, HeadsCount, ZeroState, StateFileCovers, IdleCovers, InHand
<1> QED BY <1>1, <1>4, <1>5 DEF ChainInv

(***************************************************************************)
(* The append: raw goes behind lines its prev_hash commits to, and a line  *)
(* cut short, or glued to one, is no chain line.                           *)
(***************************************************************************)
LEMMA AppendKeepsChain ==
  ASSUME ChainInv, pc = "append", Grows(files, files', raw)
  PROVE  /\ LinesSealed'
         /\ PairsLinked'
         /\ chainOn => Covers(files', state.hash)
         /\ ~chainOn => \A h : Covers(files, h) => Covers(files', h)
<1>1. Torn.kind # "chain" /\ Glued.kind # "chain"
  BY LineKinds
<1>2. ~chainOn => raw.kind # "chain"
  BY DEF ChainInv, InHand
<1>3. chainOn => /\ raw.kind = "chain" /\ Sealed(raw) /\ raw.hash = state.hash
                 /\ Covers(files, raw.prevHash)
  BY DEF ChainInv, InHand
<1>4. chainOn => Covers(files, state.hash)
  BY HeadCovers
<1>5. state.hash \in Digest
  BY DEF ChainInv, TypeOK, ChainState
<1>6. Commits(state.hash, state.hash)
  BY <1>5, CommitsReflexive
<1>7. \A a : HasLine(files', a) /\ a.kind = "chain" =>
            HasLine(files, a) \/ (chainOn /\ a = raw)
  BY <1>1, <1>2 DEF Grows
<1>8. \A a, b : HasPair(files', a, b) /\ b.kind = "chain" =>
            HasPair(files, a, b) \/ (HasLine(files, a) /\ chainOn /\ b = raw)
  BY SMT, <1>1, <1>2 DEF Grows
<1>9. LinesSealed'
  BY <1>3, <1>7 DEF ChainInv, LinesSealed
<1>10. PairsLinked'
  BY SMT, <1>3, <1>8 DEF ChainInv, PairsLinked, Covers
<1>11. chainOn => Covers(files', state.hash)
  BY <1>3, <1>4, <1>6, <1>7 DEF Covers
<1>12. ~chainOn => \A h : Covers(files, h) => Covers(files', h)
  BY <1>7 DEF Covers
<1> QED BY <1>9, <1>10, <1>11, <1>12

LEMMA ChainStep ==
  ASSUME ~Fault("save"), ChainInv, [Next]_vars
  PROVE  ChainInv'
<1>1. TypeOK /\ TypeOK'
  BY TypeStep DEF ChainInv
<1>2. CASE UNCHANGED vars
  <2>1. UNCHANGED <<files, stateFile, up, chainOn, state, pc, raw>>
    BY <1>2 DEF vars
  <2> QED BY <1>1, <2>1 DEF ChainInv, LinesSealed, PairsLinked, HeadsCount,
                            StateFileCovers, IdleCovers, InHand, DownIsIdle
<1>3. ASSUME NEW on \in ChainModes, Start(on) PROVE ChainInv'
  <2>1. /\ UNCHANGED <<files, stateFile, pc, raw>>
        /\ ~up /\ chainOn' = on
        /\ state' = IF on THEN LoadChain ELSE ZeroState
    BY <1>3 DEF Start
  <2>2. LinesSealed' /\ PairsLinked' /\ StateFileCovers'
    BY <2>1 DEF ChainInv, LinesSealed, PairsLinked, StateFileCovers
  <2>3. HeadsCount'
    BY <2>1, LoadCovers DEF ChainInv, HeadsCount, ZeroState
  <2>4. IdleCovers'
    BY <2>1, LoadCovers DEF IdleCovers
  <2>5. pc = "idle"
    BY <2>1 DEF ChainInv, DownIsIdle
  <2> QED BY <1>1, <2>1, <2>2, <2>3, <2>4, <2>5 DEF ChainInv, InHand, DownIsIdle
<1>4. CASE Write
  <2>1. /\ UNCHANGED <<files, stateFile, up, chainOn>>
        /\ up /\ pc = "idle" /\ pc' \in {"save", "rotate"}
    BY <1>4 DEF Write
  <2>2. LinesSealed' /\ PairsLinked' /\ StateFileCovers' /\ IdleCovers' /\ DownIsIdle'
    BY <2>1 DEF ChainInv, LinesSealed, PairsLinked, StateFileCovers, IdleCovers, DownIsIdle
  <2>3. CASE chainOn
    <3> DEFINE sl == SealChain(state, written + 1)
    <3>1. raw' = sl.line /\ state' = sl.next /\ pc' = "save"
      BY <1>4, <2>3 DEF Write
    <3>2. state \in ChainState /\ written + 1 \in Nat
      BY SMT, <1>1 DEF TypeOK
    <3>3. /\ sl.line \in ChainLine
          /\ sl.line.prevHash = state.hash
          /\ sl.line.hash = sl.next.hash
          /\ sl.line.seq = state.seq + 1
          /\ sl.next.seq = state.seq + 1
          /\ Len(sl.next.hash) = Len(state.hash) + 1
          /\ Commits(sl.next.hash, state.hash)
      BY <3>2, SealChainType
    <3> HIDE DEF sl
    <3>4. state.seq = Len(state.hash) /\ Covers(files, state.hash)
      BY <2>1, <2>3 DEF ChainInv, HeadsCount, IdleCovers
    <3>5. Sealed(raw') /\ raw'.kind = "chain" /\ raw'.hash = state'.hash
      BY <3>1, <3>3, <3>4, LineKinds DEF Sealed
    <3>6. Covers(files', raw'.prevHash)
      BY <2>1, <3>1, <3>3, <3>4
    <3>7. InHand'
      BY <2>1, <2>3, <3>1, <3>5, <3>6 DEF InHand
    <3>8. HeadsCount'
      BY <2>1, <3>1, <3>3, <3>4 DEF ChainInv, HeadsCount
    <3> QED BY <1>1, <2>2, <3>7, <3>8 DEF ChainInv
  <2>4. CASE ~chainOn
    <3>1. raw' = Legacy(written + 1) /\ UNCHANGED state /\ pc' = "rotate"
      BY <1>4, <2>4 DEF Write
    <3>2. raw'.kind = "legacy"
      BY <3>1 DEF Legacy
    <3> QED BY <1>1, <2>1, <2>2, <2>4, <3>1, <3>2 DEF ChainInv, InHand, HeadsCount
  <2> QED BY <2>3, <2>4
<1>5. CASE SaveState
  <2>1. /\ UNCHANGED <<files, up, chainOn, state, raw>>
        /\ pc = "save" /\ pc' = "rotate"
        /\ stateFile' = state
    BY <1>5 DEF SaveState, procVars
  <2>2. chainOn
    BY <2>1 DEF ChainInv, InHand
  <2>3. Covers(files', stateFile'.hash)
    BY <2>1, <2>2, HeadCovers
  <2> QED BY <1>1, <2>1, <2>2, <2>3
          DEF ChainInv, LinesSealed, PairsLinked, HeadsCount, StateFileCovers,
              IdleCovers, InHand, DownIsIdle
<1>6. CASE SkipRotation \/ RemoveOldest \/ ShiftBackup \/ RotateCurrent
  <2>1. /\ UNCHANGED <<stateFile, up, chainOn, state, raw>>
        /\ pc \in {"rotate", "shift"} /\ pc' \in {"shift", "append", "idle"}
    BY <1>6 DEF SkipRotation, RemoveOldest, ShiftBackup, RotateCurrent, procVars
  <2>2. ~AppendRaw
    BY <2>1 DEF AppendRaw
  <2>3. Shrinks(files, files')
    BY <1>1, <1>6, <2>2, FileStep DEF Next
  <2>4. /\ LinesSealed' /\ PairsLinked'
        /\ \A h : Covers(files, h) => Covers(files', h)
    BY <2>3, ShrinkKeeps DEF ChainInv
  <2>5. chainOn => Covers(files', state.hash)
    BY <2>1, <2>4, HeadCovers
  <2> QED BY <1>1, <2>1, <2>4, <2>5
          DEF ChainInv, HeadsCount, StateFileCovers, IdleCovers, InHand, DownIsIdle
<1>7. CASE AppendRaw
  <2>1. /\ UNCHANGED <<stateFile, up, chainOn, state, raw>>
        /\ pc = "append" /\ pc' = "idle"
    BY <1>7 DEF AppendRaw, procVars
  <2>2. Shrinks(files, files') \/ Grows(files, files', raw)
    BY <1>1, <1>7, FileStep DEF Next
  <2>3. /\ LinesSealed' /\ PairsLinked'
        /\ chainOn => Covers(files', state.hash)
        /\ ~chainOn => \A h : Covers(files, h) => Covers(files', h)
    BY <2>1, <2>2, ShrinkKeeps, AppendKeepsChain, HeadCovers DEF ChainInv
  <2>4. StateFileCovers'
    BY <2>1, <2>3 DEF ChainInv, StateFileCovers, InHand
  <2> QED BY <1>1, <2>1, <2>3, <2>4
          DEF ChainInv, HeadsCount, IdleCovers, InHand, DownIsIdle
<1>8. CASE Stop
  <2>1. UNCHANGED <<files, stateFile>> /\ ~up' /\ state' = ZeroState /\ pc' = "idle"
    BY <1>8 DEF Stop
  <2> QED BY <1>1, <2>1
          DEF ChainInv, LinesSealed, PairsLinked, HeadsCount, ZeroState, StateFileCovers,
              IdleCovers, InHand, DownIsIdle
<1>9. CASE LoseState
  <2>1. UNCHANGED <<files, up, chainOn, state, pc, raw>> /\ stateFile' = ZeroState
    BY <1>9 DEF LoseState, procVars
  <2> QED BY <1>1, <2>1
          DEF ChainInv, LinesSealed, PairsLinked, HeadsCount, ZeroState, StateFileCovers,
              IdleCovers, InHand, DownIsIdle
<1> QED BY <1>2, <1>3, <1>4, <1>5, <1>6, <1>7, <1>8, <1>9 DEF Next
-----------------------------------------------------------------------------
LEMMA ChainAlways ==
  ASSUME "save" \notin Faults
  PROVE  Spec => []ChainInv
<1>1. ChainInv /\ [Next]_vars => ChainInv'
  BY ChainStep DEF Fault
<1> QED BY <1>1, ChainInit, PTL DEF Spec

\* The invariant read at positions instead of lines.
LEMMA ChainAtPositions ==
  ASSUME ChainInv, NEW p \in ChainPositions, NEW q \in ChainPositions, Earlier(p, q)
  PROVE  /\ Commits(At(q).prevHash, At(p).hash)
         /\ At(p).seq < At(q).seq
<1>1. /\ p \in Positions /\ q \in Positions
      /\ At(p).kind = "chain" /\ At(q).kind = "chain"
  BY DEF ChainPositions
<1>2. HasLine(files, At(p)) /\ HasLine(files, At(q)) /\ HasPair(files, At(p), At(q))
  BY <1>1, PairsArePositions
<1>3. Commits(At(q).prevHash, At(p).hash)
  BY <1>1, <1>2 DEF ChainInv, PairsLinked
<1>4. Sealed(At(p)) /\ Sealed(At(q))
  BY <1>1, <1>2 DEF ChainInv, LinesSealed
<1>5. At(p) \in ChainLine /\ At(q) \in ChainLine
  BY <1>1, <1>2, LineTypes DEF ChainInv
<1>6. /\ At(p).hash \in Digest /\ At(q).prevHash \in Digest
      /\ Len(At(p).hash) \in Nat /\ Len(At(q).prevHash) \in Nat
  BY SMT, <1>5, ChainLineFields DEF Digest
<1>7. Len(At(p).hash) <= Len(At(q).prevHash)
  BY <1>3 DEF Commits
<1> QED BY SMT, <1>3, <1>4, <1>6, <1>7 DEF Sealed

(***************************************************************************)
(* The log is one linear history through any number of crashes, failed     *)
(* writes and renames, torn lines and losses of the state file: Seal saves *)
(* the state before Write appends the line.                                *)
(***************************************************************************)
THEOREM LogNeverForks ==
  ASSUME "save" \notin Faults
  PROVE  Spec => []NoFork
<1>1. ChainInv => NoFork
  BY ChainAtPositions DEF NoFork
<1> QED BY <1>1, ChainAlways, PTL

(***************************************************************************)
(* Whenever the process dies, what newChainWriter finds, in the state file *)
(* or by recoverFromLog, commits to every record on disk.                  *)
(***************************************************************************)
THEOREM RestartIsSafe ==
  ASSUME "save" \notin Faults
  PROVE  Spec => []RestartCoversLog
<1>1. ChainInv => RestartCoversLog
  <2> SUFFICES ASSUME ChainInv, NEW p \in ChainPositions
               PROVE  Commits(LoadChain.hash, At(p).hash)
    BY DEF RestartCoversLog
  <2>1. HasLine(files, At(p)) /\ At(p).kind = "chain"
    BY PairsArePositions DEF ChainPositions
  <2> QED BY <2>1, LoadCovers DEF Covers
<1> QED BY <1>1, ChainAlways, PTL

(***************************************************************************)
(* No two records on disk share a sequence number.                         *)
(***************************************************************************)
THEOREM SequenceNumbersAreUnique ==
  ASSUME "save" \notin Faults
  PROVE  Spec => []SeqNamesOneRecord
<1>1. ChainInv => SeqNamesOneRecord
  <2> SUFFICES ASSUME ChainInv, NEW p \in ChainPositions, NEW q \in ChainPositions,
                      At(p).seq = At(q).seq, p # q
               PROVE  FALSE
    BY DEF SeqNamesOneRecord
  <2>1. Earlier(p, q) \/ Earlier(q, p)
    <3>1. PICK f \in FileNo : \E i \in DOMAIN files[f] : p = <<f, i>>
      BY PositionPairs DEF ChainPositions
    <3>2. PICK i \in DOMAIN files[f] : p = <<f, i>>
      BY <3>1
    <3>3. PICK g \in FileNo : \E j \in DOMAIN files[g] : q = <<g, j>>
      BY PositionPairs DEF ChainPositions
    <3>4. PICK j \in DOMAIN files[g] : q = <<g, j>>
      BY <3>3
    <3>5. f \in Int /\ g \in Int /\ i \in Int /\ j \in Int
      BY SMT, LogAssumption DEF FileNo, ChainInv, TypeOK
    <3>6. f # g \/ i # j
      BY <3>2, <3>4
    <3> QED BY SMT, <3>2, <3>4, <3>5, <3>6 DEF Earlier
  <2>2. At(p).seq < At(q).seq \/ At(q).seq < At(p).seq
    BY <2>1, ChainAtPositions
  <2>3. At(p).seq \in Nat /\ At(q).seq \in Nat
    <3>1. \A r \in ChainPositions : HasLine(files, At(r)) /\ At(r).kind = "chain"
      BY PairsArePositions DEF ChainPositions
    <3> QED BY <3>1, LineTypes, ChainLineFields DEF ChainInv
  <2> QED BY SMT, <2>2, <2>3
<1> QED BY <1>1, ChainAlways, PTL

-----------------------------------------------------------------------------
(***************************************************************************)
(* The inductive invariant of the order: besides the order itself, every   *)
(* line on disk is older than the event a Write has in hand.               *)
(***************************************************************************)
LinesOld ==
  \A a : HasLine(files, a) /\ Readable(a) =>
           a.ev <= written /\ (pc # "idle" => a.ev < written)

RawNew == pc # "idle" => Readable(raw) /\ raw.ev = written /\ written # 0

PairsSorted ==
  \A a, b : HasPair(files, a, b) /\ Readable(a) /\ Readable(b) =>
              a.ev < b.ev \/ a.ev = 0

OrderInv == TypeOK /\ LinesOld /\ RawNew /\ PairsSorted

LEMMA ReadableTypes ==
  ASSUME TypeOK, NEW a, HasLine(files, a), Readable(a)
  PROVE  a.ev \in Nat
BY SMT, LineKinds DEF HasLine, TypeOK, Readable, ChainLine, LegacyLine

LEMMA OrderInit == Init => OrderInv
<1> SUFFICES ASSUME Init PROVE OrderInv
  BY SMT
<1>1. ASSUME NEW a, HasLine(files, a) PROVE a.ev = 0
  <2>1. PICK f \in FileNo : \E i \in DOMAIN files[f] : a = files[f][i]
    BY SMT, <1>1 DEF HasLine
  <2>2. PICK i \in DOMAIN files[f] : a = files[f][i]
    BY SMT, <2>1
  <2>3. f = 0
    BY SMT, <2>2 DEF Init
  <2>4. files[0] = [k \in 1 .. LegacyLines |-> Legacy(0)]
    BY SMT, LogAssumption DEF Init, FileNo
  <2>5. a = Legacy(0)
    BY SMT, <2>2, <2>3, <2>4
  <2> QED BY <2>5 DEF Legacy
<1>2. \A a, b : HasPair(files, a, b) => HasLine(files, a)
  BY DEF HasPair, HasLine
<1> QED BY SMT, <1>1, <1>2, TypeInit DEF OrderInv, LinesOld, RawNew, PairsSorted, Init

LEMMA OrderStep ==
  ASSUME OrderInv, [Next]_vars
  PROVE  OrderInv'
<1>1. TypeOK /\ TypeOK' /\ written \in Nat
  BY SMT, TypeStep, LogAssumption DEF OrderInv, TypeOK
<1>2. CASE UNCHANGED vars
  BY <1>1, <1>2 DEF OrderInv, LinesOld, RawNew, PairsSorted, vars
<1>3. CASE Write
  <2>1. /\ UNCHANGED files /\ pc = "idle" /\ written' = written + 1
        /\ pc' \in {"save", "rotate"}
    BY <1>3 DEF Write
  <2>2. raw' \in Line /\ raw'.ev = written + 1 /\ Readable(raw')
    <3>1. CASE chainOn
      <4>1. raw' = SealChain(state, written + 1).line
        BY <1>3, <3>1 DEF Write
      <4>2. state \in ChainState /\ written + 1 \in Nat
        BY SMT, <1>1 DEF TypeOK
      <4>3. raw' \in ChainLine /\ raw'.ev = written + 1
        BY <4>1, <4>2, SealChainType
      <4> QED BY <4>3, LineKinds DEF Readable
    <3>2. CASE ~chainOn
      <4>1. raw' = Legacy(written + 1)
        BY <1>3, <3>2 DEF Write
      <4> QED BY <1>1, <4>1 DEF Legacy, Readable, TypeOK
    <3> QED BY <3>1, <3>2
  <2>3. LinesOld'
    BY SMT, <1>1, <2>1, ReadableTypes DEF OrderInv, LinesOld
  <2> QED BY SMT, <1>1, <2>1, <2>2, <2>3 DEF OrderInv, RawNew, PairsSorted
<1>4. CASE AppendRaw /\ Grows(files, files', raw)
  <2>1. UNCHANGED <<raw, written>> /\ pc = "append" /\ pc' = "idle"
    BY <1>4 DEF AppendRaw
  <2>2. ~Readable(Torn) /\ ~Readable(Glued)
    BY LineKinds DEF Readable
  <2>3. Readable(raw) /\ raw.ev = written
    BY <2>1 DEF OrderInv, RawNew
  <2>4. LinesOld'
    BY SMT, <1>1, <1>4, <2>1, <2>2, <2>3 DEF OrderInv, LinesOld, Grows
  <2>5. PairsSorted'
    BY SMT, <1>4, <2>1, <2>2, <2>3 DEF OrderInv, LinesOld, PairsSorted, Grows
  <2> QED BY <1>1, <2>1, <2>4, <2>5 DEF OrderInv, RawNew
<1>5. CASE Next /\ ~Write /\ Shrinks(files, files')
  <2>1. UNCHANGED written /\ (pc' # "idle" => pc # "idle" /\ UNCHANGED raw)
    BY <1>5 DEF Next, Start, SaveState, SkipRotation, RemoveOldest, ShiftBackup,
                RotateCurrent, AppendRaw, Stop, LoseState
  <2> QED BY <1>1, <1>5, <2>1 DEF OrderInv, LinesOld, RawNew, PairsSorted, Shrinks
<1> QED BY <1>1, <1>2, <1>3, <1>4, <1>5, FileStep

LEMMA OrderAlways == Spec => []OrderInv
<1>1. OrderInv /\ [Next]_vars => OrderInv'
  BY OrderStep
<1> QED BY <1>1, OrderInit, PTL DEF Spec

(***************************************************************************)
(* Reading the files in the order of rotatedFiles gives the events in the  *)
(* order Write took them, whatever failed, renames included.               *)
(***************************************************************************)
THEOREM FilesAreInOrder == Spec => []LogInOrder
<1>1. OrderInv => LogInOrder
  <2> SUFFICES ASSUME OrderInv, NEW p \in ReadablePositions, NEW q \in ReadablePositions,
                      Earlier(p, q)
               PROVE  At(p).ev < At(q).ev \/ At(p).ev = 0
    BY DEF LogInOrder
  <2>1. HasPair(files, At(p), At(q)) /\ Readable(At(p)) /\ Readable(At(q))
    BY PairsArePositions DEF ReadablePositions
  <2> QED BY <2>1 DEF OrderInv, PairsSorted
<1> QED BY <1>1, OrderAlways, PTL
-----------------------------------------------------------------------------
(***************************************************************************)
(* For the refinement, renames succeed.  Then the loop of rotateIfNeeded   *)
(* always moves a backup onto a name that is free.                         *)
(***************************************************************************)
TargetFree == pc = "shift" => files[shift + 1] = << >>

RefineInv == OrderInv /\ TargetFree

LEMMA FreeStep ==
  ASSUME ~Fault("rename"), TypeOK, TargetFree, [Next]_vars
  PROVE  TargetFree'
<1> USE LogAssumption
<1>1. CASE RemoveOldest
  <2>1. files' = [files EXCEPT ![MaxBackups] = << >>] /\ shift' = MaxBackups - 1
    BY <1>1 DEF RemoveOldest
  <2>2. shift' + 1 = MaxBackups /\ MaxBackups \in FileNo
    BY SMT, <2>1 DEF FileNo
  <2> QED BY <2>1, <2>2 DEF TargetFree, TypeOK
<1>2. CASE ShiftBackup
  <2>1. shift' + 1 = shift /\ shift \in FileNo /\ shift + 1 # shift
    BY SMT, <1>2 DEF ShiftBackup, TypeOK, FileNo
  <2>2. Rename(shift, shift + 1) \/ (files[shift] = << >> /\ UNCHANGED files)
    BY <1>2 DEF ShiftBackup
  <2>3. files'[shift] = << >>
    BY <2>1, <2>2 DEF Rename, TypeOK
  <2> QED BY <2>1, <2>3 DEF TargetFree
<1>3. CASE ~RemoveOldest /\ ~ShiftBackup
  <2>1. pc' = "shift" => pc = "shift" /\ UNCHANGED <<files, shift>>
    BY <1>3 DEF Next, vars, Start, Write, SaveState, SkipRotation,
                RotateCurrent, AppendRaw, Stop, LoseState
  <2> QED BY <2>1 DEF TargetFree
<1> QED BY <1>1, <1>2, <1>3

\* A rename onto a free name loses no line.
LEMMA RenameKeeps ==
  ASSUME TypeOK, NEW n \in FileNo, n + 1 \in FileNo, files[n + 1] = << >>,
         Rename(n, n + 1), NEW a, HasLine(files, a)
  PROVE  HasLine(files', a)
<1>1. PICK f \in FileNo : \E i \in DOMAIN files[f] : a = files[f][i]
  BY DEF HasLine
<1>2. f # n + 1
  BY SMT, <1>1
<1>3. n + 1 # n
  BY SMT, LogAssumption DEF FileNo
<1>4. f # n => files'[f] = files[f]
  BY <1>2 DEF Rename, TypeOK
<1>5. files'[n + 1] = files[n]
  BY <1>3 DEF Rename, TypeOK
<1> QED BY <1>1, <1>4, <1>5 DEF HasLine

(***************************************************************************)
(* The event log implements AbstractLog whenever backups can be renamed:   *)
(* an event that was readable goes away only with all older ones, in a     *)
(* rotation, whatever crashes, failed saves, lost states and torn lines    *)
(* happen.                                                                 *)
(***************************************************************************)
THEOREM EventLogImplementsAbstractLog ==
  ASSUME "rename" \notin Faults
  PROVE  Spec => ImplementsAbstractLog
<1>KeptIsLines.
      ASSUME NEW k
      PROVE  k \in Kept <=> k # 0 /\ \E a : HasLine(files, a) /\ Readable(a) /\ k = a.ev
  BY SMT, <1>KeptIsLines, PairsArePositions DEF Kept, ReadablePositions
<1>KeptIsLinesNext.
      ASSUME NEW k
      PROVE  k \in Kept' <=> k # 0 /\ \E a : HasLine(files', a) /\ Readable(a) /\ k = a.ev
  <2> USE <1>KeptIsLinesNext
  <2>1. \A j : j \in Kept <=> j # 0 /\ \E a : HasLine(files, a) /\ Readable(a) /\ j = a.ev
    BY <1>KeptIsLines
  <2>2. (\A j : j \in Kept <=> j # 0 /\ \E a : HasLine(files, a) /\ Readable(a) /\ j = a.ev)'
    BY <2>1, PTL
  <2> QED BY <2>2
\* The oldest backup goes away: its events are older than all others.
<1>RemoveIsDiscard.
      ASSUME OrderInv, OrderInv', files' = [files EXCEPT ![MaxBackups] = << >>]
      PROVE  UNCHANGED Kept \/ \E e \in 1 .. MaxEvents : Abstract!DiscardUpTo(e)
  <2> USE <1>RemoveIsDiscard
  <2>KeptInRange.
        ASSUME OrderInv
        PROVE  Kept \in SUBSET (1 .. MaxEvents)
    <3> USE <2>KeptInRange
    <3> SUFFICES ASSUME NEW k \in Kept PROVE k \in 1 .. MaxEvents
      OBVIOUS
    <3>1. PICK a : k # 0 /\ HasLine(files, a) /\ Readable(a) /\ k = a.ev
      BY <1>KeptIsLines
    <3>2. a.ev \in Nat /\ a.ev <= written /\ written \in 0 .. MaxEvents
      BY <3>1, ReadableTypes DEF OrderInv, LinesOld, TypeOK
    <3> QED BY SMT, <3>1, <3>2, LogAssumption
  \* Dropping a file whose lines are all earlier is an abstract discard.
  <2>DropIsDiscard.
        ASSUME NEW K \in SUBSET (1 .. MaxEvents), NEW L \in SUBSET K,
               \A d \in K \ L, k \in L : d < k, L # K
        PROVE  \E e \in 1 .. MaxEvents : L = {k \in K : k > e}
    <3> USE <2>DropIsDiscard
    <3> USE LogAssumption
    <3> DEFINE D == {m \in 0 .. MaxEvents : \E d \in K \ L : m = MaxEvents - d}
    <3>1. D \in SUBSET Nat
      BY SMT
    <3>2. D # {}
      <4>1. PICK d \in K \ L : TRUE
        OBVIOUS
      <4>2. MaxEvents - d \in D
        BY SMT
      <4> QED BY <4>2
    <3>3. PICK m \in D : \A x \in D : m <= x
      BY <3>1, <3>2, MinExists
    <3>4. PICK e \in K \ L : m = MaxEvents - e
      BY <3>3
    <3>5. \A d \in K \ L : d <= e
      <4> TAKE d \in K \ L
      <4>1. MaxEvents - d \in D
        BY SMT
      <4>2. m <= MaxEvents - d
        BY <4>1, <3>3
      <4> QED BY SMT, <4>2, <3>4
    <3>6. e \in 1 .. MaxEvents /\ \A k \in L : k > e
      BY <3>4
    <3>7. \A k \in K : k > e => k \in L
      BY SMT, <3>5
    <3>8. L = {k \in K : k > e}
      BY <3>6, <3>7
    <3> QED BY <3>6, <3>8
  <2> USE LogAssumption
  <2>1. MaxBackups \in FileNo /\ files \in [FileNo -> Seq(Line)]
    BY SMT DEF FileNo, OrderInv, TypeOK
  <2>2. Shrinks(files, files')
    BY <2>1, ClearShrinks
  <2>3. Kept \in SUBSET (1 .. MaxEvents) /\ Kept' \in SUBSET Kept
    BY <2>2, <2>KeptInRange, <1>KeptIsLines, <1>KeptIsLinesNext DEF Shrinks
  <2>4. ASSUME NEW d \in Kept \ Kept', NEW k \in Kept' PROVE d < k
    <3>1. PICK a : d # 0 /\ HasLine(files, a) /\ Readable(a) /\ d = a.ev
      BY <2>4, <1>KeptIsLines
    <3>2. PICK b : HasLine(files', b) /\ Readable(b) /\ k = b.ev
      BY <2>4, <1>KeptIsLinesNext
    <3>3. PICK g \in FileNo : \E j \in DOMAIN files'[g] : b = files'[g][j]
      BY <3>2 DEF HasLine
    <3>4. g # MaxBackups /\ files'[g] = files[g]
      BY SMT, <2>1, <3>3
    <3>5. PICK f \in FileNo : \E i \in DOMAIN files[f] : a = files[f][i]
      BY <3>1 DEF HasLine
    <3>6. f = MaxBackups
      <4>1. ~HasLine(files', a)
        BY <2>4, <3>1, <1>KeptIsLinesNext
      <4>2. f # MaxBackups => files'[f] = files[f]
        BY <2>1
      <4> QED BY <3>5, <4>1, <4>2 DEF HasLine
    <3>7. f > g
      BY SMT, <3>4, <3>6 DEF FileNo
    <3>8. HasPair(files, a, b)
      BY <3>3, <3>4, <3>5, <3>7 DEF HasPair
    <3> QED BY <3>1, <3>2, <3>8 DEF OrderInv, PairsSorted
  <2>5. Kept' # Kept => \E e \in 1 .. MaxEvents : Kept' = {k \in Kept : k > e}
    BY SMT, <2>3, <2>4, <2>DropIsDiscard
  <2> QED BY <2>5 DEF Abstract!DiscardUpTo
\* The append of a line is an abstract append, or changes nothing.
<1>AppendIsAppend.
      ASSUME OrderInv, AppendRaw
      PROVE  UNCHANGED Kept \/ \E e \in 1 .. MaxEvents : Abstract!AppendEvent(e)
  <2> USE <1>AppendIsAppend
  \* An append loses no line that could be read.
  <2>AppendKeeps.
        ASSUME NEW fs \in [FileNo -> Seq(Line)], NEW l \in Line,
               NEW a, HasLine(fs, a), Readable(a)
        PROVE  HasLine([fs EXCEPT ![0] = AppendLine(fs[0], l)], a)
    <3> USE <2>AppendKeeps
    <3> DEFINE gs == [fs EXCEPT ![0] = AppendLine(fs[0], l)]
               n  == Len(fs[0])
    <3>1. 0 \in FileNo /\ fs[0] \in Seq(Line) /\ n \in Nat /\ DOMAIN fs[0] = 1 .. n
      BY SMT, LogAssumption DEF FileNo
    <3>2. gs[0] = AppendLine(fs[0], l) /\ \A f \in FileNo : f # 0 => gs[f] = fs[f]
      BY <3>1
    <3>3. \A i \in DOMAIN fs[0] : fs[0][i] # Torn =>
            i \in DOMAIN AppendLine(fs[0], l) /\ AppendLine(fs[0], l)[i] = fs[0][i]
      <4>1. CASE fs[0] = << >> \/ fs[0][n] # Torn
        BY SMT, <3>1, <4>1 DEF AppendLine
      <4>2. CASE ~(fs[0] = << >> \/ fs[0][n] # Torn)
        <5>1. AppendLine(fs[0], l) = [fs[0] EXCEPT ![n] = IF l = Torn THEN Torn ELSE Glued]
          BY <4>2 DEF AppendLine
        <5> QED BY <3>1, <4>2, <5>1
      <4> QED BY <4>1, <4>2
    <3>4. a # Torn
      BY LineKinds DEF Readable
    <3> HIDE DEF gs
    <3>5. PICK f \in FileNo : \E i \in DOMAIN fs[f] : a = fs[f][i]
      BY DEF HasLine
    <3>6. PICK i \in DOMAIN fs[f] : a = fs[f][i]
      BY <3>5
    <3>7. i \in DOMAIN gs[f] /\ a = gs[f][i]
      BY <3>2, <3>3, <3>4, <3>6
    <3>8. HasLine(gs, a)
      BY <3>7 DEF HasLine
    <3> QED BY <3>8 DEF gs
  <2> USE LogAssumption
  <2>1. /\ TypeOK /\ pc = "append" /\ Readable(raw) /\ raw.ev = written /\ written # 0
        /\ written \in 1 .. MaxEvents
    BY SMT DEF OrderInv, RawNew, AppendRaw, TypeOK
  <2>2. CASE UNCHANGED files
    BY <2>2 DEF Kept, ReadablePositions, Positions, At
  <2>3. ASSUME NEW l \in Line, files' = [files EXCEPT ![0] = AppendLine(files[0], l)],
               l \in {raw, Torn}
        PROVE  UNCHANGED Kept \/ \E e \in 1 .. MaxEvents : Abstract!AppendEvent(e)
    <3>1. Grows(files, files', l)
      BY <2>1, <2>3, AppendGrows DEF TypeOK
    <3>2. ~Readable(Torn) /\ ~Readable(Glued)
      BY LineKinds DEF Readable
    <3>3. \A k \in Kept' : k \in Kept \/ k = written
      <4> TAKE k \in Kept'
      <4>1. PICK a : k # 0 /\ HasLine(files', a) /\ Readable(a) /\ k = a.ev
        BY <1>KeptIsLinesNext
      <4>2. HasLine(files, a) \/ a = raw
        BY <2>3, <3>1, <3>2, <4>1 DEF Grows
      <4> QED BY <2>1, <4>1, <4>2, <1>KeptIsLines
    <3>4. \A k \in Kept : k \in Kept'
      <4> TAKE k \in Kept
      <4>1. PICK a : k # 0 /\ HasLine(files, a) /\ Readable(a) /\ k = a.ev
        BY <1>KeptIsLines
      <4>2. HasLine(files', a)
        BY <2>1, <2>3, <4>1, <2>AppendKeeps DEF TypeOK
      <4> QED BY <4>1, <4>2, <1>KeptIsLinesNext
    <3>5. \A k \in Kept : k < written
      BY SMT, <2>1, <1>KeptIsLines DEF OrderInv, LinesOld
    <3>6. Kept' = Kept \/ Kept' = Kept \cup {written}
      BY <3>3, <3>4
    <3> QED BY <2>1, <3>5, <3>6 DEF Abstract!AppendEvent
  <2>4. \/ files' = [files EXCEPT ![0] = AppendLine(files[0], raw)]
        \/ UNCHANGED files
        \/ files' = [files EXCEPT ![0] = AppendLine(files[0], Torn)]
    BY DEF AppendRaw
  <2>5. raw \in Line /\ Torn \in Line
    BY <2>1, LineKinds DEF TypeOK
  <2> QED BY <2>2, <2>3, <2>4, <2>5
\* A backup moves to a free name: no event appears or disappears.
<1>RenameIsStutter.
      ASSUME TypeOK, NEW n \in FileNo, n + 1 \in FileNo, files[n + 1] = << >>,
             Rename(n, n + 1)
      PROVE  UNCHANGED Kept
  <2> USE <1>RenameIsStutter
  <2>1. files' = [files EXCEPT ![n + 1] = files[n], ![n] = << >>]
    BY DEF Rename
  <2>2. Shrinks(files, files')
    BY <2>1, RenameShrinks DEF TypeOK
  <2>3. \A a : HasLine(files, a) <=> HasLine(files', a)
    BY <2>2, RenameKeeps DEF Shrinks
  <2> QED BY <2>3, <1>KeptIsLines, <1>KeptIsLinesNext
<1> USE LogAssumption
<1>1. Init => Abstract!AInit /\ RefineInv
  <2> SUFFICES ASSUME Init PROVE Kept = {} /\ RefineInv
    BY DEF Abstract!AInit
  <2>1. OrderInv /\ written = 0 /\ pc = "idle"
    BY OrderInit DEF Init
  <2>2. Kept = {}
    BY SMT, <2>1, <1>KeptIsLines, ReadableTypes DEF OrderInv, LinesOld
  <2> QED BY <2>1, <2>2 DEF RefineInv, TargetFree
<1>2. RefineInv /\ [Next]_vars => RefineInv'
  BY OrderStep, FreeStep DEF RefineInv, OrderInv, Fault
<1>3. RefineInv /\ RefineInv' /\ [Next]_vars => [Abstract!ANext]_Kept
  <2> SUFFICES ASSUME RefineInv, RefineInv', [Next]_vars PROVE [Abstract!ANext]_Kept
    OBVIOUS
  <2>1. TypeOK /\ OrderInv /\ OrderInv'
    BY DEF RefineInv, OrderInv
  <2>2. CASE UNCHANGED files
    BY <2>2 DEF Kept, ReadablePositions, Positions, At
  <2>3. CASE RemoveOldest
    <3>1. files' = [files EXCEPT ![MaxBackups] = << >>]
      BY <2>3 DEF RemoveOldest, Fault
    <3> QED BY <2>1, <3>1, <1>RemoveIsDiscard DEF Abstract!ANext
  <2>4. CASE ShiftBackup
    <3>1. shift \in FileNo /\ shift + 1 \in FileNo /\ files[shift + 1] = << >>
      BY SMT, <2>1, <2>4 DEF ShiftBackup, TypeOK, FileNo, RefineInv, TargetFree
    <3>2. Rename(shift, shift + 1) \/ UNCHANGED files
      BY <2>4 DEF ShiftBackup
    <3> QED BY <2>1, <2>2, <3>1, <3>2, <1>RenameIsStutter
  <2>5. CASE RotateCurrent
    <3>1. 0 \in FileNo /\ 0 + 1 \in FileNo /\ files[0 + 1] = << >>
      BY SMT, <2>5 DEF RotateCurrent, FileNo, RefineInv, TargetFree
    <3>2. Rename(0, 0 + 1) \/ UNCHANGED files
      BY SMT, <2>5 DEF RotateCurrent
    <3> QED BY <2>1, <2>2, <3>1, <3>2, <1>RenameIsStutter
  <2>6. CASE AppendRaw
    BY <2>1, <2>6, <1>AppendIsAppend DEF Abstract!ANext
  <2>7. ~RemoveOldest /\ ~ShiftBackup /\ ~RotateCurrent /\ ~AppendRaw => UNCHANGED files
    BY DEF Next, vars, Start, Write, SaveState, SkipRotation, Stop, LoseState
  <2> QED BY <2>2, <2>3, <2>4, <2>5, <2>6, <2>7
<1> QED BY <1>1, <1>2, <1>3, PTL DEF Spec, ImplementsAbstractLog, Abstract!ASpec

-----------------------------------------------------------------------------
(***************************************************************************)
(* The anchor never contradicts the log, a backend never goes back to an   *)
(* older head, and CrossVerify never takes two heads with one sequence     *)
(* number for tampering, for every configuration in which the agent is     *)
(* stopped only between Writes and the state file is neither lost nor      *)
(* unwritable: writes, renames and pushes may fail.                        *)
(***************************************************************************)
\* The head of the chain: in memory while the agent runs with its chain, in the
\* state file otherwise.
HeadHash == IF up /\ chainOn THEN state.hash ELSE stateFile.hash

\* The state file is never behind, except between Seal's update of the state in
\* memory and saveState; a state has a chain as soon as it has a hash.
SavedInv ==
  /\ up /\ chainOn => IF pc = "save" THEN Commits(state.hash, stateFile.hash)
                                     ELSE stateFile = state
  /\ ~(up /\ chainOn) => state = ZeroState
  /\ stateFile.chain = 0 => stateFile.hash = << >>
  /\ stateFile.hash = << >> => stateFile = ZeroState
  /\ state.chain = 0 => state.hash = << >>
  /\ Covers(files, stateFile.hash)

\* A head that was published: the present one has grown out of it.
Published(s) ==
  /\ s \in ChainState
  /\ s.seq = Len(s.hash)
  /\ Commits(HeadHash, s.hash)

\* What the anchor and the handler carry are heads that were published, and no
\* backend is ahead of the record on its way to it.
AnchorInv ==
  /\ lastSeq \in Nat
  /\ pending \subseteq Backends
  /\ remote = [b \in Backends |-> remote[b]]
  /\ \A b \in Backends : Published(remote[b])
  /\ Published(rec)
  /\ Published(snap)
  /\ \A b \in pending : remote[b].seq <= rec.seq

MonitorInv == ChainInv /\ SavedInv /\ AnchorInv /\ NoFalseTampering
-----------------------------------------------------------------------------
LEMMA StateFields ==
  ASSUME NEW s \in ChainState
  PROVE  s.chain \in Nat /\ s.seq \in Nat /\ s.hash \in Digest /\ Len(s.hash) \in Nat
BY SMT DEF ChainState, Digest

LEMMA CommitsSame ==
  ASSUME NEW h \in Digest, NEW g \in Digest, NEW f \in Digest,
         Commits(h, g), Commits(h, f), Len(f) = Len(g)
  PROVE  f = g
<1>1. f \in Seq(Payload) /\ g \in Seq(Payload)
  BY DEF Digest
<1>2. \A i \in 1 .. Len(f) : f[i] = g[i]
  BY <1>1 DEF Commits
<1> QED BY SMT, <1>1, <1>2

LEMMA HeadIsDigest ==
  ASSUME TypeOK
  PROVE  HeadHash \in Digest
BY StateFields DEF TypeOK, HeadHash

\* The failures of the storage that the anchor survives.
Dependable == Faults \cap {"crash", "save", "state"} = {}

\* A step of the Logger: the state file follows the head, which only grows.
LEMMA SavedStep ==
  ASSUME ~Fault("crash"), ~Fault("save"), ~Fault("state"), ChainInv, SavedInv, Next
  PROVE  SavedInv' /\ Commits(HeadHash', HeadHash)
\* With no lost state, newChainWriter loads what the state file has.
<1>LoadIsSaved.
      ASSUME ChainInv, SavedInv
      PROVE  LoadChain = stateFile
  <2> USE <1>LoadIsSaved
  <2>1. CASE stateFile.hash # << >>
    BY <2>1 DEF LoadChain, SavedInv
  <2>2. CASE stateFile.hash = << >>
    <3>1. ChainPositions = {}
      <4> SUFFICES ASSUME NEW p \in ChainPositions
                   PROVE  FALSE
        OBVIOUS
      <4>1. HasLine(files, At(p)) /\ At(p).kind = "chain"
        BY PairsArePositions DEF ChainPositions
      <4>2. Sealed(At(p)) /\ Commits(<< >>, At(p).hash)
        BY <2>2, <4>1 DEF ChainInv, LinesSealed, SavedInv, Covers
      <4>3. At(p).hash \in Digest /\ At(p).prevHash \in Digest
        BY <4>1, LineTypes, ChainLineFields DEF ChainInv
      <4>4. Len(At(p).hash) = 0 /\ Len(At(p).hash) = Len(At(p).prevHash) + 1
        BY SMT, <4>2, <4>3 DEF Commits, Sealed, Digest
      <4> QED BY SMT, <4>3, <4>4 DEF Digest
    <3>2. RecoverFromLog = ZeroState
      BY <3>1, RecoverFromLogType DEF ChainInv, TypeOK
    <3> QED BY <2>2, <3>2 DEF LoadChain, SavedInv
  <2> QED BY <2>1, <2>2
<1>1. ChainInv'
  BY ChainStep
<1>2. /\ TypeOK /\ TypeOK' /\ HeadHash \in Digest
      /\ stateFile.hash \in Digest /\ state.hash \in Digest
  BY <1>1, HeadIsDigest, StateFields DEF ChainInv, TypeOK
<1>3. Commits(HeadHash, HeadHash)
  BY <1>2, CommitsReflexive
<1>4. ASSUME NEW on \in ChainModes, Start(on)
      PROVE  SavedInv' /\ Commits(HeadHash', HeadHash)
  <2>1. /\ UNCHANGED <<files, stateFile, pc>>
        /\ ~up /\ up' /\ chainOn' = on
        /\ state' = IF on THEN stateFile ELSE ZeroState
    BY <1>4, <1>LoadIsSaved DEF Start
  <2>2. pc = "idle"
    BY <2>1 DEF ChainInv, DownIsIdle
  <2>3. ZeroState.hash = << >> /\ ZeroState.chain = 0
    BY DEF ZeroState
  <2>4. HeadHash' = HeadHash
    BY <2>1 DEF HeadHash
  <2>5. SavedInv'
    BY SMT, <2>1, <2>2, <2>3 DEF SavedInv
  <2> QED BY <1>3, <2>4, <2>5
<1>5. CASE Write
  <2>1. /\ UNCHANGED <<files, stateFile, up, chainOn>>
        /\ up /\ pc = "idle" /\ pc' # "idle"
    BY <1>5 DEF Write
  <2>2. CASE chainOn
    <3> DEFINE sl == SealChain(state, written + 1)
    <3>1. state' = sl.next /\ pc' = "save"
      BY <1>5, <2>2 DEF Write
    <3>2. state \in ChainState /\ written + 1 \in Nat
      BY SMT, <1>2 DEF TypeOK
    <3>3. /\ Commits(sl.next.hash, state.hash)
          /\ sl.next.chain = IF state.chain = 0 THEN written + 1 ELSE state.chain
      BY <3>2, SealChainType DEF SealChain
    <3> HIDE DEF sl
    <3>4. written + 1 # 0
      BY SMT, <1>2 DEF TypeOK
    <3>5. stateFile = state
      BY <2>1, <2>2 DEF SavedInv
    <3>6. SavedInv'
      BY <2>1, <2>2, <3>1, <3>3, <3>4, <3>5 DEF SavedInv
    <3>7. HeadHash' = state'.hash /\ HeadHash = state.hash
      BY <2>1, <2>2 DEF HeadHash
    <3> QED BY <3>1, <3>3, <3>6, <3>7
  <2>3. CASE ~chainOn
    <3>1. UNCHANGED state /\ pc' = "rotate"
      BY <1>5, <2>3 DEF Write
    <3>2. SavedInv' /\ HeadHash' = HeadHash
      BY <2>1, <2>3, <3>1 DEF SavedInv, HeadHash
    <3> QED BY <1>3, <3>2
  <2> QED BY <2>2, <2>3
<1>6. CASE SaveState
  <2>1. /\ UNCHANGED <<files, up, chainOn, state>>
        /\ pc = "save" /\ pc' = "rotate" /\ stateFile' = state
    BY <1>6 DEF SaveState, procVars
  <2>2. chainOn /\ up
    BY <2>1 DEF ChainInv, InHand, DownIsIdle
  <2>3. pc' # "save" /\ pc # "idle"
    BY <2>1
  <2>4. Covers(files, state.hash)
    BY <2>2, <2>3, HeadCovers
  <2>5. state.hash # << >>
    <3>1. Sealed(raw) /\ raw.hash = state.hash /\ raw.kind = "chain"
      BY <2>2, <2>3 DEF ChainInv, InHand
    <3>2. raw.prevHash \in Digest
      BY <1>2, <3>1, LineKinds, ChainLineFields DEF TypeOK
    <3> QED BY SMT, <3>1, <3>2 DEF Sealed, Digest
  <2>6. SavedInv' /\ HeadHash' = HeadHash
    BY <2>1, <2>2, <2>3, <2>4, <2>5 DEF SavedInv, HeadHash
  <2> QED BY <1>3, <2>6
<1>7. CASE SkipRotation \/ RemoveOldest \/ ShiftBackup \/ RotateCurrent
  <2>1. /\ UNCHANGED <<stateFile, up, chainOn, state>>
        /\ pc \in {"rotate", "shift"} /\ pc' \in {"shift", "append", "idle"}
    BY <1>7 DEF SkipRotation, RemoveOldest, ShiftBackup, RotateCurrent, procVars
  <2>2. ~AppendRaw /\ pc # "save" /\ pc' # "save"
    BY <2>1 DEF AppendRaw
  <2>3. Shrinks(files, files')
    BY <1>2, <1>7, <2>2, FileStep DEF Next
  <2>4. Covers(files', stateFile.hash)
    BY <2>3, ShrinkKeeps DEF SavedInv
  <2>5. SavedInv' /\ HeadHash' = HeadHash
    BY <2>1, <2>2, <2>4 DEF SavedInv, HeadHash
  <2> QED BY <1>3, <2>5
<1>8. CASE AppendRaw
  <2>1. /\ UNCHANGED <<stateFile, up, chainOn, state>>
        /\ pc = "append" /\ pc' = "idle"
    BY <1>8 DEF AppendRaw, procVars
  <2>2. pc # "save" /\ pc' # "save" /\ pc # "idle"
    BY <2>1
  <2>3. Shrinks(files, files') \/ Grows(files, files', raw)
    BY <1>2, <1>8, FileStep DEF Next
  <2>4. up
    BY <2>2 DEF ChainInv, DownIsIdle
  <2>5. Covers(files', stateFile.hash)
    BY <2>1, <2>2, <2>3, <2>4, ShrinkKeeps, AppendKeepsChain DEF SavedInv
  <2>6. SavedInv' /\ HeadHash' = HeadHash
    BY <2>1, <2>2, <2>5 DEF SavedInv, HeadHash
  <2> QED BY <1>3, <2>6
<1>9. CASE Stop
  <2>1. /\ UNCHANGED <<files, stateFile>> /\ ~up' /\ state' = ZeroState /\ pc = "idle"
    BY <1>9 DEF Stop
  <2>2. ZeroState.hash = << >> /\ ZeroState.chain = 0 /\ pc # "save"
    BY <2>1 DEF ZeroState
  <2>3. SavedInv' /\ HeadHash' = HeadHash
    BY <2>1, <2>2 DEF SavedInv, HeadHash
  <2> QED BY <1>3, <2>3
<1>10. CASE LoseState
  BY <1>10 DEF LoseState
<1> QED BY <1>4, <1>5, <1>6, <1>7, <1>8, <1>9, <1>10 DEF Next

-----------------------------------------------------------------------------
LEMMA ZeroPublished ==
  ASSUME TypeOK
  PROVE  Published(ZeroState)
<1>1. ZeroState \in ChainState /\ ZeroState.hash = << >> /\ ZeroState.seq = Len(ZeroState.hash)
  BY SMT DEF ZeroState, ChainState, Digest
<1> QED BY <1>1, HeadIsDigest, CommitsToEmpty DEF Published

\* ChainSnapshot: the state in memory, whatever the Write is doing.
LEMMA StatePublished ==
  ASSUME ChainInv, SavedInv
  PROVE  Published(state)
<1>1. CASE up /\ chainOn
  <2>1. state \in ChainState /\ state.seq = Len(state.hash) /\ HeadHash = state.hash
    BY <1>1 DEF ChainInv, TypeOK, HeadsCount, HeadHash
  <2> QED BY <2>1, StateFields, CommitsReflexive DEF Published
<1>2. CASE ~(up /\ chainOn)
  BY <1>2, ZeroPublished DEF SavedInv, ChainInv
<1> QED BY <1>1, <1>2

\* The steps of the anchor and of the handler leave the Logger alone.
LEMMA LogUntouched ==
  ASSUME MonitorInv, UNCHANGED vars
  PROVE  /\ ChainInv' /\ SavedInv' /\ TypeOK' /\ HeadHash' = HeadHash
         /\ \A s : Published(s) => Published(s)'
<1>1. UNCHANGED <<files, stateFile, up, chainOn, state, pc, raw, shift, written, faults>>
  BY DEF vars
<1>2. SavedInv' /\ HeadHash' = HeadHash
  BY <1>1 DEF MonitorInv, SavedInv, HeadHash
<1>3. TypeOK'
  BY TypeStep DEF MonitorInv, ChainInv
<1>4. ChainInv'
  BY <1>1, <1>3 DEF MonitorInv, ChainInv, LinesSealed, PairsLinked, HeadsCount,
               StateFileCovers, IdleCovers, InHand, DownIsIdle
<1>5. \A s : Published(s) => Published(s)'
  BY <1>2 DEF Published
<1> QED BY <1>2, <1>3, <1>4, <1>5

LEMMA MonitorInvNext ==
  ASSUME Dependable, MonitorInv, [MonitorNext]_allVars
  PROVE  /\ MonitorInv'
         /\ \A b \in Backends : remote'[b] # ZeroState => remote'[b].seq >= remote[b].seq
<1>TickStep.
      ASSUME MonitorInv, Tick
      PROVE  MonitorInv'
  <2> USE <1>TickStep
  <2>1. /\ UNCHANGED <<vars, remote, snap, alarms>>
        /\ state.seq > lastSeq /\ lastSeq' = state.seq /\ rec' = state /\ pending' = Backends
    BY DEF Tick, reqVars
  <2>2. /\ ChainInv' /\ SavedInv' /\ TypeOK'
        /\ \A s : Published(s) => Published(s)'
    BY <2>1, LogUntouched
  <2>3. state \in ChainState /\ Published(state)
    BY StatePublished DEF MonitorInv, ChainInv, TypeOK
  <2>4. chainOn /\ up
    <3>1. ZeroState.seq = 0
      BY DEF ZeroState
    <3>2. state # ZeroState
      BY SMT, <2>1, <3>1 DEF MonitorInv, AnchorInv
    <3> QED BY <3>2 DEF MonitorInv, SavedInv
  <2>5. \A b \in Backends : remote[b].seq <= state.seq
    <3>1. ASSUME NEW b \in Backends
          PROVE  remote[b].seq <= state.seq
      <4>1. /\ remote[b].seq = Len(remote[b].hash) /\ Commits(state.hash, remote[b].hash)
            /\ state.seq = Len(state.hash)
        BY <2>3, <2>4 DEF MonitorInv, AnchorInv, Published, HeadHash
      <4> QED BY <4>1 DEF Commits
    <3> QED BY <3>1
  <2>6. AnchorInv'
    BY <2>1, <2>2, <2>3, <2>5, StateFields DEF MonitorInv, AnchorInv
  <2> QED BY <2>1, <2>2, <2>6 DEF MonitorInv, NoFalseTampering
\* A backend gets the record of this Push, nothing, or what cannot be read.
<1>PushStep.
      ASSUME MonitorInv, NEW b \in Backends, PushTo(b)
      PROVE  /\ MonitorInv'
             /\ \A c \in Backends : remote'[c] # ZeroState => remote'[c].seq >= remote[c].seq
  <2> USE <1>PushStep
  <2>1. /\ UNCHANGED <<vars, lastSeq, rec, snap, alarms>>
        /\ b \in pending /\ pending' = pending \ {b}
        /\ \/ remote' = [remote EXCEPT ![b] = rec]
           \/ remote' = remote
           \/ remote' = [remote EXCEPT ![b] = ZeroState]
    BY DEF PushTo, CutShort, reqVars
  <2>2. /\ ChainInv' /\ SavedInv' /\ TypeOK'
        /\ \A s : Published(s) => Published(s)'
    BY <2>1, LogUntouched
  <2>3. PICK new : /\ remote' = [remote EXCEPT ![b] = new]
                   /\ new = rec \/ new = remote[b] \/ new = ZeroState
    <3>1. remote = [remote EXCEPT ![b] = remote[b]]
      BY DEF MonitorInv, AnchorInv
    <3> QED BY <2>1, <3>1
  <2>4. Published(new)
    BY <2>3, ZeroPublished DEF MonitorInv, AnchorInv, ChainInv
  <2>5. /\ DOMAIN remote = Backends
        /\ \A c \in Backends : remote'[c] = IF c = b THEN new ELSE remote[c]
        /\ remote' = [c \in Backends |-> remote'[c]]
    BY <2>3 DEF MonitorInv, AnchorInv
  <2>6. AnchorInv'
    BY <2>1, <2>2, <2>4, <2>5 DEF MonitorInv, AnchorInv
  <2>7. MonitorInv'
    BY <2>1, <2>2, <2>6 DEF MonitorInv, NoFalseTampering
  <2>8. \A c \in Backends : remote[c].seq \in Nat
    BY StateFields DEF MonitorInv, AnchorInv, Published
  <2>9. rec.seq >= remote[b].seq
    <3>1. rec.seq \in Nat /\ remote[b].seq <= rec.seq
      BY <2>1, StateFields DEF MonitorInv, AnchorInv, Published
    <3> QED BY SMT, <2>8, <3>1
  <2>10. \A c \in Backends : remote[c].seq >= remote[c].seq
    BY SMT, <2>8
  <2>11. \A c \in Backends : remote'[c] # ZeroState => remote'[c].seq >= remote[c].seq
    BY <2>3, <2>5, <2>9, <2>10
  <2> QED BY <2>7, <2>11
<1>RequestStep.
      ASSUME MonitorInv, BeginVerify \/ ReadFile \/ TakeSnapshot \/ Compare
      PROVE  MonitorInv' /\ UNCHANGED remote
  <2> USE <1>RequestStep
  \* Two published heads of one sequence number are one head.
  <2>OneHeadPerSeq.
        ASSUME TypeOK, NEW s, NEW r, Published(s), Published(r)
        PROVE  "anchor_hash_mismatch" \notin CrossVerify(s, r)
    <3> USE <2>OneHeadPerSeq
    <3>1. PICK h \in Digest : h = HeadHash
      BY HeadIsDigest
    <3>2. /\ s.hash \in Digest /\ r.hash \in Digest
          /\ Commits(h, s.hash) /\ Commits(h, r.hash)
          /\ s.seq = Len(s.hash) /\ r.seq = Len(r.hash)
      BY <3>1, StateFields DEF Published
    <3>3. r.seq = s.seq => r.hash = s.hash
      BY <3>2, CommitsSame
    <3>4. \A k \in {"anchor_chain_mismatch", "anchor_truncation"} : k # "anchor_hash_mismatch"
      OBVIOUS
    <3> QED BY <3>3, <3>4 DEF CrossVerify
  <2>1. UNCHANGED <<vars, lastSeq, pending, rec, remote>>
    BY DEF BeginVerify, ReadFile, TakeSnapshot, Compare, anchorVars
  <2>2. /\ ChainInv' /\ SavedInv' /\ TypeOK'
        /\ \A s : Published(s) => Published(s)'
    BY <2>1, LogUntouched
  <2>3. snap' = snap \/ snap' = state
    BY DEF BeginVerify, ReadFile, TakeSnapshot, Compare
  <2>4. Published(snap)'
    <3>1. PICK s : s = snap' /\ Published(s)
      BY <2>3, StatePublished DEF MonitorInv, AnchorInv
    <3> QED BY <2>2, <3>1 DEF Published
  <2>5. AnchorInv'
    BY <2>1, <2>2, <2>4 DEF MonitorInv, AnchorInv
  <2>6. alarms' = alarms \/ alarms' = {} \/ alarms' = CrossVerify(snap, Fetched)
    BY DEF BeginVerify, ReadFile, TakeSnapshot, Compare
  <2>7. Published(Fetched)
    <3>1. (IF "http" \in Backends THEN "http" ELSE "file") \in Backends
      BY MonitorAssumption
    <3> QED BY <3>1 DEF Fetched, MonitorInv, AnchorInv
  <2>8. "anchor_hash_mismatch" \notin CrossVerify(snap, Fetched)
    BY <2>7, <2>OneHeadPerSeq DEF MonitorInv, AnchorInv, ChainInv
  <2>9. NoFalseTampering'
    BY <2>6, <2>8 DEF MonitorInv, NoFalseTampering
  <2> QED BY <2>1, <2>2, <2>5, <2>9 DEF MonitorInv
<1>LogStepStep.
      ASSUME Dependable, MonitorInv, LogStep
      PROVE  /\ MonitorInv'
             /\ \A c \in Backends : remote'[c] # ZeroState => remote'[c].seq >= remote[c].seq
  <2> USE <1>LogStepStep
  <2>DependableFaults.
        ASSUME Dependable
        PROVE  ~Fault("crash") /\ ~Fault("save") /\ ~Fault("state")
    BY <2>DependableFaults DEF Dependable, Fault
  \* What was published stays published while the head grows.
  <2>PublishedKept.
        ASSUME TypeOK, TypeOK', Commits(HeadHash', HeadHash), NEW s, Published(s)
        PROVE  Published(s)'
    <3> USE <2>PublishedKept
    <3>1. PICK h \in Digest, k \in Digest : h = HeadHash /\ k = HeadHash'
      <4>1. HeadHash \in Digest /\ HeadHash' \in Digest
        BY StateFields DEF TypeOK, HeadHash
      <4> QED BY <4>1
    <3>2. s.hash \in Digest /\ Commits(h, s.hash) /\ Commits(k, h)
      BY <3>1, StateFields DEF Published
    <3>3. Commits(k, s.hash)
      BY <3>2, CommitsTransitive
    <3> QED BY <3>1, <3>3 DEF Published
  <2>1. Next
    BY DEF LogStep
  <2>2. ChainInv'
    BY <2>1, ChainStep, <2>DependableFaults DEF MonitorInv
  <2>3. SavedInv' /\ Commits(HeadHash', HeadHash)
    BY <2>1, SavedStep, <2>DependableFaults DEF MonitorInv
  <2>4. TypeOK /\ TypeOK'
    BY <2>2 DEF MonitorInv, ChainInv
  <2>5. \A s : Published(s) => Published(s)'
    BY <2>3, <2>4, <2>PublishedKept
  <2>6. Published(ZeroState)'
    BY <2>4, <2>5, ZeroPublished
  <2>7. \A c \in Backends : remote[c].seq >= remote[c].seq
    <3>1. \A c \in Backends : remote[c].seq \in Nat
      BY StateFields DEF MonitorInv, AnchorInv, Published
    <3> QED BY SMT, <3>1
  <2>8. CASE up'
    <3>1. UNCHANGED <<lastSeq, pending, rec, remote, snap, alarms>>
      BY <2>8 DEF LogStep
    <3>2. AnchorInv' /\ NoFalseTampering'
      BY <2>5, <3>1 DEF MonitorInv, AnchorInv, NoFalseTampering
    <3> QED BY <2>2, <2>3, <2>7, <3>1, <3>2 DEF MonitorInv
  <2>9. CASE ~up'
    <3>1. /\ lastSeq' = 0 /\ pending' = {} /\ rec' = ZeroState /\ snap' = ZeroState /\ alarms' = {}
          /\ remote' = remote \/ remote' = [remote EXCEPT !["file"] = ZeroState]
      BY <2>9 DEF LogStep, CutShort
    <3>2. /\ \A c \in Backends : remote'[c] = remote[c] \/ remote'[c] = ZeroState
          /\ remote' = [c \in Backends |-> remote'[c]]
      BY <3>1 DEF MonitorInv, AnchorInv
    <3>3. ASSUME NEW c \in Backends
          PROVE  Published(remote[c])'
      <4>1. PICK s : s = remote'[c] /\ Published(s)'
        BY <2>5, <2>6, <3>2 DEF MonitorInv, AnchorInv
      <4> QED BY <4>1 DEF Published
    <3>4. 0 \in Nat
      OBVIOUS
    <3>5. AnchorInv' /\ NoFalseTampering'
      BY <2>6, <3>1, <3>2, <3>3, <3>4 DEF AnchorInv, NoFalseTampering
    <3>6. \A c \in Backends : remote'[c] # ZeroState => remote'[c].seq >= remote[c].seq
      BY <2>7, <3>2
    <3> QED BY <2>2, <2>3, <3>5, <3>6 DEF MonitorInv
  <2> QED BY <2>8, <2>9
<1>1. \A b \in Backends : remote[b].seq >= remote[b].seq
  <2>1. \A b \in Backends : remote[b].seq \in Nat
    BY StateFields DEF MonitorInv, AnchorInv, Published
  <2> QED BY SMT, <2>1
<1>2. CASE Tick
  <2>1. remote' = remote
    BY <1>2 DEF Tick
  <2> QED BY <1>1, <1>2, <2>1, <1>TickStep
<1>3. CASE BeginVerify \/ ReadFile \/ TakeSnapshot \/ Compare
  BY <1>1, <1>3, <1>RequestStep
<1>4. CASE UNCHANGED allVars
  <2>1. UNCHANGED <<vars, lastSeq, pending, rec, remote, snap, alarms>>
    BY <1>4 DEF allVars, anchorVars, reqVars
  <2>2. ChainInv' /\ SavedInv' /\ \A s : Published(s) => Published(s)'
    BY <2>1, LogUntouched
  <2>3. AnchorInv' /\ NoFalseTampering'
    BY <2>1, <2>2 DEF MonitorInv, AnchorInv, NoFalseTampering
  <2> QED BY <1>1, <2>1, <2>2, <2>3 DEF MonitorInv
<1> QED BY <1>2, <1>3, <1>4, <1>PushStep, <1>LogStepStep DEF MonitorNext

LEMMA MonitorAlways ==
  ASSUME Dependable
  PROVE  MonitorSpec => []MonitorInv
<1>MonitorInvInit.
      MonitorInit => MonitorInv
  <2> SUFFICES ASSUME MonitorInit
               PROVE  MonitorInv
    OBVIOUS
  <2>1. ChainInv /\ TypeOK
    BY ChainInit DEF MonitorInit, ChainInv
  <2>2. /\ stateFile = ZeroState /\ state = ZeroState /\ ~up /\ ~chainOn
        /\ lastSeq = 0 /\ pending = {} /\ rec = ZeroState /\ snap = ZeroState /\ alarms = {}
        /\ remote = [b \in Backends |-> ZeroState]
    BY DEF MonitorInit, Init
  <2>3. ZeroState.hash = << >> /\ 0 \in Nat
    BY DEF ZeroState
  <2>4. Covers(files, stateFile.hash)
    <3>1. ASSUME NEW a, HasLine(files, a)
          PROVE  a.kind # "chain"
      <4>1. PICK f \in FileNo : \E i \in DOMAIN files[f] : a = files[f][i]
        BY <3>1 DEF HasLine
      <4>2. PICK i \in DOMAIN files[f] : a = files[f][i]
        BY <4>1
      <4>3. f = 0
        BY SMT, <4>2 DEF MonitorInit, Init
      <4>4. files[0] = [k \in 1 .. LegacyLines |-> Legacy(0)]
        BY SMT, LogAssumption DEF MonitorInit, Init, FileNo
      <4>5. a = Legacy(0)
        BY <4>2, <4>3, <4>4
      <4> QED BY <4>5 DEF Legacy
    <3> QED BY <3>1 DEF Covers
  <2>5. SavedInv
    BY <2>2, <2>3, <2>4 DEF SavedInv
  <2>6. AnchorInv
    BY <2>1, <2>2, <2>3, ZeroPublished DEF AnchorInv
  <2> QED BY <2>1, <2>2, <2>5, <2>6 DEF MonitorInv, NoFalseTampering
<1>1. MonitorInv /\ [MonitorNext]_allVars => MonitorInv'
  BY MonitorInvNext
<1> QED BY <1>1, <1>MonitorInvInit, PTL DEF MonitorSpec

(***************************************************************************)
(* Whatever a backend holds commits to every line on disk that is not      *)
(* newer: Push may publish a head before its line, and before its state,   *)
(* is on disk, and what it published is never taken back (anchor.go).      *)
(***************************************************************************)
THEOREM AnchorNeverContradictsLog ==
  ASSUME Dependable
  PROVE  MonitorSpec => []AnchorCommitsToLog
\* Of two digests that a third commits to, the longer commits to the other.
<1>CommitsBetween.
      ASSUME NEW h \in Digest, NEW g \in Digest, NEW f \in Digest,
             Commits(h, g), Commits(h, f), Len(f) <= Len(g)
      PROVE  Commits(g, f)
  <2> USE <1>CommitsBetween
  <2>1. Len(h) \in Nat /\ Len(g) \in Nat /\ Len(f) \in Nat
    BY SMT DEF Digest
  <2> QED BY SMT, <2>1 DEF Commits
\* The head commits to every line on disk.
<1>HeadCoversLog.
      ASSUME ChainInv, SavedInv
      PROVE  Covers(files, HeadHash)
  <2> USE <1>HeadCoversLog
  <2>1. CASE up /\ chainOn /\ pc = "idle"
    BY <2>1 DEF ChainInv, IdleCovers, HeadHash
  <2>2. CASE up /\ chainOn /\ pc # "idle"
    BY <2>2, HeadCovers DEF HeadHash
  <2>3. CASE ~(up /\ chainOn)
    BY <2>3 DEF SavedInv, HeadHash
  <2> QED BY <2>1, <2>2, <2>3
<1>1. MonitorInv => AnchorCommitsToLog
  <2> SUFFICES ASSUME MonitorInv, NEW b \in Backends, NEW p \in ChainPositions,
                      At(p).seq <= remote[b].seq
               PROVE  Commits(remote[b].hash, At(p).hash)
    BY DEF AnchorCommitsToLog
  <2>1. HasLine(files, At(p)) /\ At(p).kind = "chain"
    BY PairsArePositions DEF ChainPositions
  <2>2. PICK h \in Digest : h = HeadHash
    BY HeadIsDigest DEF MonitorInv, ChainInv
  <2>3. Commits(h, At(p).hash)
    BY <2>1, <2>2, <1>HeadCoversLog DEF MonitorInv, Covers
  <2>4. At(p).hash \in Digest /\ At(p).seq = Len(At(p).hash)
    BY <2>1, LineTypes, ChainLineFields DEF MonitorInv, ChainInv, LinesSealed, Sealed
  <2>5. /\ remote[b].hash \in Digest /\ remote[b].seq = Len(remote[b].hash)
        /\ Commits(h, remote[b].hash)
    BY <2>2, StateFields DEF MonitorInv, AnchorInv, Published
  <2> QED BY <2>3, <2>4, <2>5, <1>CommitsBetween
<1> QED BY <1>1, MonitorAlways, PTL

(***************************************************************************)
(* CrossVerify never reports tampering: the head the handler has read and  *)
(* the one Fetch returns are of one chain, however far apart in time.      *)
(***************************************************************************)
THEOREM NoTamperingIsReported ==
  ASSUME Dependable
  PROVE  MonitorSpec => []NoFalseTampering
<1>1. MonitorInv => NoFalseTampering
  BY DEF MonitorInv
<1> QED BY <1>1, MonitorAlways, PTL

(***************************************************************************)
(* No Push takes a backend back to an older head, although a restart       *)
(* forgets Anchor.lastSeq.                                                 *)
(***************************************************************************)
THEOREM AnchorNeverGoesBack ==
  ASSUME Dependable
  PROVE  MonitorSpec => AnchorMonotone
<1>1. MonitorInv /\ [MonitorNext]_allVars =>
        [\A b \in Backends : remote'[b] # ZeroState => remote'[b].seq >= remote[b].seq]_allVars
  BY MonitorInvNext
<1> QED BY <1>1, MonitorAlways, PTL DEF MonitorSpec, AnchorMonotone
-----------------------------------------------------------------------------
(***************************************************************************)
(* Counting.  Some of what follows counts positions.  What it uses of      *)
(* finite sets is a hypothesis, Counting; the library proves it, at the    *)
(* end of LogVerifyProofs.                                                 *)
(***************************************************************************)
Counting ==
  /\ IsFiniteSet({}) /\ Cardinality({}) = 0
  /\ \A S : IsFiniteSet(S) => Cardinality(S) \in Nat
  /\ \A S, x : IsFiniteSet(S) =>
       /\ IsFiniteSet(S \cup {x})
       /\ Cardinality(S \cup {x}) = IF x \in S THEN Cardinality(S) ELSE Cardinality(S) + 1
  /\ \A S, T : IsFiniteSet(S) /\ T \subseteq S => IsFiniteSet(T) /\ Cardinality(T) <= Cardinality(S)
  /\ \A S, T, f : IsFiniteSet(S) /\ f \in Surjection(S, T) =>
       IsFiniteSet(T) /\ Cardinality(T) <= Cardinality(S)

LEMMA CountNothing ==
  ASSUME Counting
  PROVE  IsFiniteSet({}) /\ Cardinality({}) = 0
  BY DEF Counting

LEMMA CountType ==
  ASSUME Counting, NEW S, IsFiniteSet(S)
  PROVE  Cardinality(S) \in Nat
  BY DEF Counting

LEMMA CountOneMore ==
  ASSUME Counting, NEW S, NEW x, IsFiniteSet(S)
  PROVE  /\ IsFiniteSet(S \cup {x})
         /\ Cardinality(S \cup {x}) = IF x \in S THEN Cardinality(S) ELSE Cardinality(S) + 1
  BY DEF Counting

LEMMA CountFewer ==
  ASSUME Counting, NEW S, IsFiniteSet(S), NEW T \in SUBSET S
  PROVE  IsFiniteSet(T) /\ Cardinality(T) <= Cardinality(S)
  BY DEF Counting

LEMMA CountImage ==
  ASSUME Counting, NEW S, NEW T, NEW f \in Surjection(S, T), IsFiniteSet(S)
  PROVE  IsFiniteSet(T) /\ Cardinality(T) <= Cardinality(S)
  BY DEF Counting

-----------------------------------------------------------------------------
(***************************************************************************)
(* How many links a failure can break.  The argument keeps books: the gaps *)
(* on disk, plus one for each gap still to come, never exceed the failures *)
(* so far.  First the gaps, as a function of the chain lines alone: c[p]   *)
(* is the line at position p.                                              *)
(***************************************************************************)
Spots == Int \X Int

GapsOf(c) ==
  {q \in DOMAIN c :
     \E p \in DOMAIN c :
       /\ Earlier(p, q)
       /\ \A r \in DOMAIN c : ~(Earlier(p, r) /\ Earlier(r, q))
       /\ c[q].prevHash # c[p].hash}

\* The newest line is not the one that the digest h goes on from.
LooseOf(c, h) ==
  \E p \in DOMAIN c : (\A r \in DOMAIN c : ~Earlier(p, r)) /\ c[p].hash # h

LEMMA SpotsOrdered ==
  /\ \A p \in Spots : ~Earlier(p, p)
  /\ \A p, q \in Spots : p # q => Earlier(p, q) \/ Earlier(q, p)
  /\ \A p, q, r \in Spots : Earlier(p, q) /\ Earlier(q, r) => Earlier(p, r)
BY SMT DEF Spots, Earlier

\* A line is added at the end.
AddedAt(c, d, z) ==
  /\ DOMAIN d = DOMAIN c \cup {z}
  /\ DOMAIN d \subseteq Spots
  /\ \A p \in DOMAIN c : Earlier(p, z) /\ d[p] = c[p]

(***************************************************************************)
(* What is owed for the failures so far: a backup about to be overwritten, *)
(* a record whose line is missing or will be, a state that was not saved.  *)
(***************************************************************************)
Bit(b) == IF b THEN 1 ELSE 0
Ledger(c, b, o, u, n) == c + Bit(b) + Bit(o) + Bit(u) <= n

\* The chain lines of the files.
InChain(fs) == {p \in FileNo \X Nat : p[2] \in DOMAIN fs[p[1]] /\ fs[p[1]][p[2]].kind = "chain"}
ChainOf(fs) == [p \in InChain(fs) |-> fs[p[1]][p[2]]]
Gaps(fs) == GapsOf(ChainOf(fs))
Loose(fs, h) == LooseOf(ChainOf(fs), h)
EndsTorn(fs) == fs[0] # << >> /\ fs[0][Len(fs[0])] = Torn

\* What the system calls make of the files.
Cleared(fs, n) == [fs EXCEPT ![n] = << >>]
Moved(fs, n) == [fs EXCEPT ![n + 1] = fs[n], ![n] = << >>]
Appended(fs, l) == [fs EXCEPT ![0] = AppendLine(fs[0], l)]

LEMMA ChainShape ==
  ASSUME NEW fs \in [FileNo -> Seq(Line)]
  PROVE  /\ DOMAIN ChainOf(fs) \subseteq Spots
         /\ DOMAIN ChainOf(fs) = InChain(fs)
         /\ \A p \in DOMAIN ChainOf(fs) : \E f \in FileNo : \E i \in DOMAIN fs[f] :
              p = <<f, i>> /\ fs[f][i].kind = "chain" /\ ChainOf(fs)[p] = fs[f][i]
         /\ \A f \in FileNo : \A i \in DOMAIN fs[f] : fs[f][i].kind = "chain" =>
              <<f, i>> \in DOMAIN ChainOf(fs) /\ ChainOf(fs)[<<f, i>>] = fs[f][i]
<1>1. \A f \in FileNo : f \in Int /\ DOMAIN fs[f] \subseteq Nat
  <2> SUFFICES ASSUME NEW f \in FileNo PROVE f \in Int /\ DOMAIN fs[f] \subseteq Nat
    OBVIOUS
  <2>1. fs[f] \in Seq(Line)
    OBVIOUS
  <2>2. DOMAIN fs[f] = 1 .. Len(fs[f]) /\ Len(fs[f]) \in Nat
    BY SMT, <2>1
  <2> QED BY SMT, <2>2 DEF FileNo
<1>2. DOMAIN ChainOf(fs) = InChain(fs)
  BY DEF ChainOf
<1>3. \A p \in InChain(fs) : ChainOf(fs)[p] = fs[p[1]][p[2]]
  BY DEF ChainOf
<1>4. ASSUME NEW p \in InChain(fs)
      PROVE  \E f \in FileNo : \E i \in DOMAIN fs[f] :
               p = <<f, i>> /\ fs[f][i].kind = "chain" /\ ChainOf(fs)[p] = fs[f][i]
  <2>1. /\ p[1] \in FileNo /\ p[2] \in DOMAIN fs[p[1]] /\ p = <<p[1], p[2]>>
        /\ fs[p[1]][p[2]].kind = "chain"
    BY SMT DEF InChain
  <2> QED BY <1>3, <2>1
<1>5. InChain(fs) \subseteq Spots
  BY SMT, <1>1 DEF InChain, Spots
<1>6. ASSUME NEW f \in FileNo, NEW i \in DOMAIN fs[f], fs[f][i].kind = "chain"
      PROVE  <<f, i>> \in InChain(fs) /\ ChainOf(fs)[<<f, i>>] = fs[f][i]
  <2>1. i \in Nat
    BY <1>1
  <2>2. <<f, i>> \in InChain(fs)
    BY SMT, <1>6, <2>1 DEF InChain
  <2>3. <<f, i>>[1] = f /\ <<f, i>>[2] = i
    OBVIOUS
  <2> QED BY <1>3, <2>2, <2>3
<1> QED BY <1>2, <1>4, <1>5, <1>6

LEMMA ChainAt ==
  ASSUME files \in [FileNo -> Seq(Line)]
  PROVE  ChainPositions = DOMAIN ChainOf(files) /\ \A p \in ChainPositions : At(p) = ChainOf(files)[p]
<1>1. ASSUME NEW p \in ChainPositions
      PROVE  p \in DOMAIN ChainOf(files) /\ At(p) = ChainOf(files)[p]
  <2>1. PICK f \in FileNo : \E i \in DOMAIN files[f] : p = <<f, i>>
    BY PositionPairs DEF ChainPositions
  <2>2. PICK i \in DOMAIN files[f] : p = <<f, i>>
    BY <2>1
  <2>3. At(p) = files[f][i]
    BY <2>2 DEF At
  <2>4. files[f][i].kind = "chain"
    BY <2>3 DEF ChainPositions
  <2> QED BY <2>2, <2>3, <2>4, ChainShape
<1>2. ASSUME NEW p \in DOMAIN ChainOf(files) PROVE p \in ChainPositions
  <2>1. PICK f \in FileNo : \E i \in DOMAIN files[f] : p = <<f, i>> /\ files[f][i].kind = "chain"
    BY ChainShape
  <2>2. PICK i \in DOMAIN files[f] : p = <<f, i>> /\ files[f][i].kind = "chain"
    BY <2>1
  <2>3. At(p) = files[f][i]
    BY <2>2 DEF At
  <2> QED BY <2>2, <2>3, PositionPairs DEF ChainPositions
<1> QED BY <1>1, <1>2

LEMMA BreaksAreGaps ==
  ASSUME files \in [FileNo -> Seq(Line)]
  PROVE  Breaks = Gaps(files)
<1>1. ChainPositions = DOMAIN ChainOf(files) /\ \A p \in ChainPositions : At(p) = ChainOf(files)[p]
  BY ChainAt
<1> DEFINE c == ChainOf(files)
<1>2. Breaks = {q \in DOMAIN c :
                  \E p \in DOMAIN c :
                    /\ Earlier(p, q)
                    /\ \A r \in DOMAIN c : ~(Earlier(p, r) /\ Earlier(r, q))
                    /\ At(q).prevHash # At(p).hash}
  BY <1>1 DEF Breaks
<1>3. \A p \in DOMAIN c : At(p) = c[p]
  BY <1>1
<1> HIDE DEF c
<1>4. Breaks = GapsOf(c)
  BY <1>2, <1>3 DEF GapsOf
<1> QED BY <1>4 DEF c, Gaps

LEMMA NoLines == << >> \in Seq(Line)
BY SMT

\* The lines of a file are gone.
LEMMA ClearDrops ==
  ASSUME NEW fs \in [FileNo -> Seq(Line)], NEW n \in FileNo, NEW gs, gs = Cleared(fs, n)
  PROVE  /\ \E z : Gaps(gs) \subseteq Gaps(fs) \cup {z}
         /\ Gaps(gs) \subseteq Gaps(fs) \/ \A h : Loose(gs, h) => Loose(fs, h)
         /\ n = MaxBackups => Gaps(gs) \subseteq Gaps(fs) /\ \A h : Loose(gs, h) => Loose(fs, h)
\* The lines of K are gone, between the older and the newer ones.
<1>GapDropped.
      ASSUME NEW c, NEW d, NEW K, DOMAIN c \subseteq Spots, DOMAIN d = DOMAIN c \ K, K \subseteq DOMAIN c,
             \A p \in DOMAIN d : d[p] = c[p],
             \A p \in DOMAIN d : (\A k \in K : Earlier(p, k)) \/ (\A k \in K : Earlier(k, p))
      PROVE  /\ \E z : GapsOf(d) \subseteq GapsOf(c) \cup {z}
             /\ \/ GapsOf(d) \subseteq GapsOf(c)
                \/ \A h : LooseOf(d, h) => LooseOf(c, h)
             /\ (\A p \in DOMAIN d : \A k \in K : Earlier(k, p)) =>
                  /\ GapsOf(d) \subseteq GapsOf(c)
                  /\ \A h : LooseOf(d, h) => LooseOf(c, h)
  <2> USE <1>GapDropped
  <2> DEFINE After(q) == /\ q \in DOMAIN d
                         /\ \E p \in DOMAIN d : /\ \E k \in K : Earlier(p, k) /\ Earlier(k, q)
                                                /\ \A r \in DOMAIN d : ~(Earlier(p, r) /\ Earlier(r, q))
  <2>1. ASSUME NEW q \in GapsOf(d), q \notin GapsOf(c) PROVE After(q)
    <3>1. q \in DOMAIN d /\ q \in DOMAIN c
      BY DEF GapsOf
    <3>2. PICK p \in DOMAIN d : /\ Earlier(p, q)
                                /\ \A r \in DOMAIN d : ~(Earlier(p, r) /\ Earlier(r, q))
                                /\ d[q].prevHash # d[p].hash
      BY DEF GapsOf
    <3>3. p \in DOMAIN c /\ c[q].prevHash # c[p].hash
      BY <3>1, <3>2
    <3>4. PICK r \in DOMAIN c : Earlier(p, r) /\ Earlier(r, q)
      BY <2>1, <3>1, <3>2, <3>3 DEF GapsOf
    <3>5. r \in K
      BY <3>2, <3>4
    <3> QED BY <3>1, <3>2, <3>4, <3>5
  <2>2. ASSUME NEW x, NEW y, After(x), After(y) PROVE x = y
    <3>1. PICK p \in DOMAIN d : /\ \E k \in K : Earlier(p, k) /\ Earlier(k, x)
                                /\ \A r \in DOMAIN d : ~(Earlier(p, r) /\ Earlier(r, x))
      BY <2>2
    <3>2. PICK q \in DOMAIN d : /\ \E k \in K : Earlier(q, k) /\ Earlier(k, y)
                                /\ \A r \in DOMAIN d : ~(Earlier(q, r) /\ Earlier(r, y))
      BY <2>2
    <3>3. PICK k \in K : Earlier(p, k) /\ Earlier(k, x)
      BY <3>1
    <3>4. PICK l \in K : Earlier(q, l) /\ Earlier(l, y)
      BY <3>2
    <3>5. x \in Spots /\ y \in Spots /\ p \in Spots /\ q \in Spots /\ k \in Spots /\ l \in Spots
      BY <2>2
    <3>6. Earlier(p, l) /\ Earlier(q, k)
      <4>1. ~Earlier(k, p) /\ ~Earlier(l, q)
        BY <3>3, <3>4, <3>5, SpotsOrdered
      <4> QED BY <4>1
    <3>7. Earlier(p, y) /\ Earlier(q, x)
      BY <3>3, <3>4, <3>5, <3>6, SpotsOrdered
    <3>8. ~Earlier(y, x) /\ ~Earlier(x, y)
      BY <2>2, <3>1, <3>2, <3>7
    <3> QED BY <3>5, <3>8, SpotsOrdered
  <2>3. \E z : GapsOf(d) \subseteq GapsOf(c) \cup {z}
    <3>1. CASE GapsOf(d) \subseteq GapsOf(c)
      BY <3>1
    <3>2. CASE ~(GapsOf(d) \subseteq GapsOf(c))
      <4>1. PICK z \in GapsOf(d) : z \notin GapsOf(c)
        BY <3>2
      <4>2. After(z)
        BY <2>1, <4>1
      <4> HIDE DEF After
      <4>3. GapsOf(d) \subseteq GapsOf(c) \cup {z}
        BY <2>1, <2>2, <4>2
      <4> QED BY <4>3
    <3> QED BY <3>1, <3>2
  <2>4. ASSUME NEW h, LooseOf(d, h), ~LooseOf(c, h), NEW q, After(q) PROVE FALSE
    <3>1. PICK p \in DOMAIN d : (\A r \in DOMAIN d : ~Earlier(p, r)) /\ d[p].hash # h
      BY <2>4 DEF LooseOf
    <3>2. PICK k \in DOMAIN c : Earlier(p, k)
      BY <2>4, <3>1 DEF LooseOf
    <3>3. k \in K
      BY <3>1, <3>2
    <3>4. PICK l \in K : Earlier(l, q)
      BY <2>4
    <3>5. p \in Spots /\ q \in Spots /\ k \in Spots /\ l \in Spots /\ q \in DOMAIN d
      BY <2>4
    <3>6. Earlier(p, l)
      <4>1. ~Earlier(k, p)
        BY <3>2, <3>5, SpotsOrdered
      <4> QED BY <3>3, <4>1
    <3>7. Earlier(p, q)
      BY <3>4, <3>5, <3>6, SpotsOrdered
    <3> QED BY <3>1, <3>5, <3>7
  <2>5. ASSUME \A p \in DOMAIN d : \A k \in K : Earlier(k, p)
        PROVE  /\ GapsOf(d) \subseteq GapsOf(c)
               /\ \A h : LooseOf(d, h) => LooseOf(c, h)
    <3>0. \A p \in DOMAIN d : \A k \in K : ~Earlier(p, k)
      BY <2>5, SpotsOrdered
    <3>1. \A q : ~After(q)
      BY <3>0
    <3> HIDE DEF After
    <3>2. GapsOf(d) \subseteq GapsOf(c)
      BY <2>1, <3>1
    <3>3. ASSUME NEW h, LooseOf(d, h) PROVE LooseOf(c, h)
      <4>1. PICK p \in DOMAIN d : (\A r \in DOMAIN d : ~Earlier(p, r)) /\ d[p].hash # h
        BY <3>3 DEF LooseOf
      <4>2. p \in DOMAIN c /\ c[p].hash # h
        BY <4>1
      <4>3. \A r \in DOMAIN c : ~Earlier(p, r)
        BY <3>0, <4>1
      <4> QED BY <4>2, <4>3 DEF LooseOf
    <3> QED BY <3>2, <3>3
  <2> HIDE DEF After
  <2>6. \/ GapsOf(d) \subseteq GapsOf(c)
        \/ \A h : LooseOf(d, h) => LooseOf(c, h)
    BY <2>1, <2>4
  <2> QED BY <2>3, <2>5, <2>6
<1> USE DEF Cleared
<1> DEFINE c == ChainOf(fs)
           d == ChainOf(gs)
           K == {p \in DOMAIN c : p[1] = n}
<1>1. gs \in [FileNo -> Seq(Line)] /\ gs[n] = << >> /\ \A f \in FileNo : f # n => gs[f] = fs[f]
  BY SMT, NoLines
<1>2. /\ DOMAIN c \subseteq Spots
      /\ \A p \in DOMAIN c : \E f \in FileNo : \E i \in DOMAIN fs[f] :
           p = <<f, i>> /\ fs[f][i].kind = "chain" /\ c[p] = fs[f][i]
      /\ \A f \in FileNo : \A i \in DOMAIN fs[f] : fs[f][i].kind = "chain" =>
           <<f, i>> \in DOMAIN c /\ c[<<f, i>>] = fs[f][i]
  BY ChainShape
<1>3. /\ \A p \in DOMAIN d : \E f \in FileNo : \E i \in DOMAIN gs[f] :
           p = <<f, i>> /\ gs[f][i].kind = "chain" /\ d[p] = gs[f][i]
      /\ \A f \in FileNo : \A i \in DOMAIN gs[f] : gs[f][i].kind = "chain" =>
           <<f, i>> \in DOMAIN d /\ d[<<f, i>>] = gs[f][i]
  BY <1>1, ChainShape
<1> HIDE DEF c, d
<1>4. \A i : i \notin DOMAIN gs[n]
  BY SMT, <1>1
<1>5. ASSUME NEW p \in DOMAIN d PROVE p \in DOMAIN c /\ p \notin K /\ d[p] = c[p]
  <2>1. PICK f \in FileNo : \E i \in DOMAIN gs[f] :
           p = <<f, i>> /\ gs[f][i].kind = "chain" /\ d[p] = gs[f][i]
    BY <1>3
  <2>2. PICK i \in DOMAIN gs[f] : p = <<f, i>> /\ gs[f][i].kind = "chain" /\ d[p] = gs[f][i]
    BY <2>1
  <2>3. f # n /\ gs[f] = fs[f] /\ p[1] = f
    BY <1>1, <1>4, <2>2
  <2> QED BY <1>2, <2>2, <2>3
<1>6. ASSUME NEW p \in DOMAIN c, p \notin K PROVE p \in DOMAIN d
  <2>1. PICK f \in FileNo : \E i \in DOMAIN fs[f] : p = <<f, i>> /\ fs[f][i].kind = "chain"
    BY <1>2
  <2>2. PICK i \in DOMAIN fs[f] : p = <<f, i>> /\ fs[f][i].kind = "chain"
    BY <2>1
  <2>3. f # n /\ gs[f] = fs[f]
    BY <1>1, <1>6, <2>2
  <2> QED BY <1>3, <2>2, <2>3
<1>7. DOMAIN d = DOMAIN c \ K /\ K \subseteq DOMAIN c
  BY <1>5, <1>6
<1>8. \A p \in DOMAIN d : p[1] \in FileNo /\ p[1] # n
  <2> SUFFICES ASSUME NEW p \in DOMAIN d PROVE p[1] \in FileNo /\ p[1] # n
    OBVIOUS
  <2>1. PICK f \in FileNo : \E i \in DOMAIN gs[f] : p = <<f, i>>
    BY <1>3
  <2>2. PICK i \in DOMAIN gs[f] : p = <<f, i>>
    BY <2>1
  <2>3. p[1] = f
    BY <2>2
  <2>4. f # n
    BY <1>4, <2>2
  <2> QED BY <2>3, <2>4
<1>9. \A p \in DOMAIN d : p[1] \in Int /\ (p[1] > n \/ p[1] < n) /\ (n = MaxBackups => p[1] < n)
  BY SMT, <1>8, LogAssumption DEF FileNo
<1>10. /\ \A p \in DOMAIN d : (\A k \in K : Earlier(p, k)) \/ (\A k \in K : Earlier(k, p))
       /\ n = MaxBackups => \A p \in DOMAIN d : \A k \in K : Earlier(k, p)
  <2>1. \A p \in DOMAIN d, k \in K : /\ p[1] > n => Earlier(p, k)
                                     /\ p[1] < n => Earlier(k, p)
    <3> SUFFICES ASSUME NEW p \in DOMAIN d, NEW k \in K
                 PROVE  (p[1] > n => Earlier(p, k)) /\ (p[1] < n => Earlier(k, p))
      OBVIOUS
    <3>1. k[1] = n /\ p[1] \in Int /\ n \in Int
      BY SMT, <1>9 DEF FileNo
    <3> QED BY SMT, <3>1 DEF Earlier
  <2> QED BY <1>9, <2>1
<1>11. \A p \in DOMAIN d : d[p] = c[p]
  BY <1>5
<1> HIDE DEF K
<1>12. /\ \E z : GapsOf(d) \subseteq GapsOf(c) \cup {z}
       /\ GapsOf(d) \subseteq GapsOf(c) \/ \A h : LooseOf(d, h) => LooseOf(c, h)
       /\ n = MaxBackups => GapsOf(d) \subseteq GapsOf(c) /\ \A h : LooseOf(d, h) => LooseOf(c, h)
  BY <1>2, <1>7, <1>10, <1>11, <1>GapDropped
<1> QED BY <1>12 DEF c, d, Gaps, Loose

\* A file gets the next name, which is free.
LEMMA RenameMoves ==
  ASSUME Counting, NEW fs \in [FileNo -> Seq(Line)], NEW n \in FileNo, n + 1 \in FileNo, fs[n + 1] = << >>,
         NEW gs, gs = Moved(fs, n), IsFiniteSet(Gaps(fs))
  PROVE  /\ IsFiniteSet(Gaps(gs)) /\ Cardinality(Gaps(gs)) <= Cardinality(Gaps(fs))
         /\ \A h : Loose(gs, h) => Loose(fs, h)
\* The lines keep their order in new places.
<1>GapMoved.
      ASSUME NEW c, NEW d, NEW m,
             \A x \in DOMAIN d : \E p \in DOMAIN c : x = m[p],
             \A p \in DOMAIN c : m[p] \in DOMAIN d /\ d[m[p]] = c[p],
             \A p, q \in DOMAIN c : Earlier(p, q) <=> Earlier(m[p], m[q])
      PROVE  /\ GapsOf(d) \subseteq {m[p] : p \in GapsOf(c)}
             /\ \A h : LooseOf(d, h) => LooseOf(c, h)
  <2> USE <1>GapMoved
  <2>1. ASSUME NEW y \in GapsOf(d) PROVE y \in {m[p] : p \in GapsOf(c)}
    <3>0. y \in DOMAIN d
      BY DEF GapsOf
    <3>1. PICK q \in DOMAIN c : y = m[q]
      BY <3>0
    <3>2. PICK x \in DOMAIN d : /\ Earlier(x, y)
                                /\ \A r \in DOMAIN d : ~(Earlier(x, r) /\ Earlier(r, y))
                                /\ d[y].prevHash # d[x].hash
      BY DEF GapsOf
    <3>3. PICK p \in DOMAIN c : x = m[p]
      BY <3>2
    <3>4. Earlier(p, q) /\ c[q].prevHash # c[p].hash
      BY <3>1, <3>2, <3>3
    <3>5. ASSUME NEW r \in DOMAIN c, Earlier(p, r), Earlier(r, q) PROVE FALSE
      <4>1. m[r] \in DOMAIN d
        OBVIOUS
      <4>2. Earlier(m[p], m[r]) /\ Earlier(m[r], m[q])
        BY <3>5
      <4> QED BY <3>1, <3>2, <3>3, <4>1, <4>2
    <3>6. q \in GapsOf(c)
      BY <3>4, <3>5 DEF GapsOf
    <3> QED BY <3>1, <3>6
  <2>2. ASSUME NEW h, LooseOf(d, h) PROVE LooseOf(c, h)
    <3>1. PICK x \in DOMAIN d : (\A r \in DOMAIN d : ~Earlier(x, r)) /\ d[x].hash # h
      BY <2>2 DEF LooseOf
    <3>2. PICK p \in DOMAIN c : x = m[p]
      BY <3>1
    <3>3. c[p].hash # h
      BY <3>1, <3>2
    <3>4. ASSUME NEW r \in DOMAIN c, Earlier(p, r) PROVE FALSE
      <4>1. m[r] \in DOMAIN d /\ Earlier(m[p], m[r])
        BY <3>4
      <4> QED BY <3>1, <3>2, <4>1
    <3> QED BY <3>3, <3>4 DEF LooseOf
  <2> QED BY <2>1, <2>2
<1>NoMoreThan.
      ASSUME NEW S, NEW T, NEW m, IsFiniteSet(S), T \subseteq {m[p] : p \in S}
      PROVE  IsFiniteSet(T) /\ Cardinality(T) <= Cardinality(S)
  <2> USE <1>NoMoreThan
  <2> DEFINE U == {m[p] : p \in S}
             f == [p \in S |-> m[p]]
  <2>1. f \in Surjection(S, U)
    BY SMT DEF Surjection
  <2>2. IsFiniteSet(U) /\ Cardinality(U) <= Cardinality(S)
    BY <2>1, CountImage
  <2> HIDE DEF U
  <2>3. T \in SUBSET U
    BY DEF U
  <2>4. IsFiniteSet(T) /\ Cardinality(T) <= Cardinality(U)
    BY <2>2, <2>3, CountFewer
  <2>5. Cardinality(T) \in Nat /\ Cardinality(U) \in Nat /\ Cardinality(S) \in Nat
    BY <2>2, <2>4, CountType
  <2>6. Cardinality(T) <= Cardinality(S)
    BY SMT, <2>2, <2>4, <2>5
  <2> QED BY <2>4, <2>6
<1> USE DEF Moved
<1> DEFINE c == ChainOf(fs)
           d == ChainOf(gs)
           m == [p \in DOMAIN c |-> IF p[1] = n THEN <<n + 1, p[2]>> ELSE p]
<1>0. n \in Int /\ n + 1 # n
  BY SMT DEF FileNo
<1>1. /\ gs \in [FileNo -> Seq(Line)] /\ gs[n] = << >> /\ gs[n + 1] = fs[n]
      /\ \A f \in FileNo : f # n /\ f # n + 1 => gs[f] = fs[f]
  BY SMT, <1>0, NoLines
<1>2. /\ DOMAIN c \subseteq Spots
      /\ \A p \in DOMAIN c : \E f \in FileNo : \E i \in DOMAIN fs[f] :
           p = <<f, i>> /\ fs[f][i].kind = "chain" /\ c[p] = fs[f][i]
      /\ \A f \in FileNo : \A i \in DOMAIN fs[f] : fs[f][i].kind = "chain" =>
           <<f, i>> \in DOMAIN c /\ c[<<f, i>>] = fs[f][i]
  BY ChainShape
<1>3. /\ \A p \in DOMAIN d : \E f \in FileNo : \E i \in DOMAIN gs[f] :
           p = <<f, i>> /\ gs[f][i].kind = "chain" /\ d[p] = gs[f][i]
      /\ \A f \in FileNo : \A i \in DOMAIN gs[f] : gs[f][i].kind = "chain" =>
           <<f, i>> \in DOMAIN d /\ d[<<f, i>>] = gs[f][i]
  BY <1>1, ChainShape
<1> HIDE DEF c, d
<1>4. \A i : i \notin DOMAIN gs[n] /\ i \notin DOMAIN fs[n + 1]
  BY SMT, <1>1
<1>5. ASSUME NEW p \in DOMAIN c
      PROVE  \E f \in FileNo : \E i \in DOMAIN fs[f] :
               /\ p = <<f, i>> /\ fs[f][i].kind = "chain" /\ c[p] = fs[f][i] /\ f # n + 1
               /\ m[p] = <<IF f = n THEN n + 1 ELSE f, i>>
  <2>1. PICK f \in FileNo : \E i \in DOMAIN fs[f] :
           p = <<f, i>> /\ fs[f][i].kind = "chain" /\ c[p] = fs[f][i]
    BY <1>2
  <2>2. PICK i \in DOMAIN fs[f] : p = <<f, i>> /\ fs[f][i].kind = "chain" /\ c[p] = fs[f][i]
    BY <2>1
  <2>3. p[1] = f /\ p[2] = i /\ f # n + 1
    BY <1>4, <2>2
  <2>4. m[p] = <<IF f = n THEN n + 1 ELSE f, i>>
    BY <2>2, <2>3
  <2> QED BY <2>2, <2>3, <2>4
<1>6. ASSUME NEW p \in DOMAIN c PROVE m[p] \in DOMAIN d /\ d[m[p]] = c[p]
  <2>1. PICK f \in FileNo : \E i \in DOMAIN fs[f] :
               /\ p = <<f, i>> /\ fs[f][i].kind = "chain" /\ c[p] = fs[f][i] /\ f # n + 1
               /\ m[p] = <<IF f = n THEN n + 1 ELSE f, i>>
    BY <1>5
  <2>2. PICK i \in DOMAIN fs[f] :
               /\ p = <<f, i>> /\ fs[f][i].kind = "chain" /\ c[p] = fs[f][i] /\ f # n + 1
               /\ m[p] = <<IF f = n THEN n + 1 ELSE f, i>>
    BY <2>1
  <2> HIDE DEF m
  <2>3. CASE f = n
    <3>1. m[p] = <<n + 1, i>> /\ gs[n + 1] = fs[f]
      BY <1>1, <2>2, <2>3
    <3>2. i \in DOMAIN gs[n + 1] /\ gs[n + 1][i] = c[p] /\ gs[n + 1][i].kind = "chain"
      BY <2>2, <3>1
    <3>3. <<n + 1, i>> \in DOMAIN d /\ d[<<n + 1, i>>] = gs[n + 1][i]
      BY <1>3, <3>2
    <3> QED BY <3>1, <3>2, <3>3
  <2>4. CASE f # n
    <3>1. m[p] = <<f, i>> /\ gs[f] = fs[f]
      BY <1>1, <2>2, <2>4
    <3>2. i \in DOMAIN gs[f] /\ gs[f][i] = c[p] /\ gs[f][i].kind = "chain"
      BY <2>2, <3>1
    <3>3. <<f, i>> \in DOMAIN d /\ d[<<f, i>>] = gs[f][i]
      BY <1>3, <3>2
    <3> QED BY <3>1, <3>2, <3>3
  <2> QED BY <2>3, <2>4
<1>7. ASSUME NEW x \in DOMAIN d PROVE \E p \in DOMAIN c : x = m[p]
  <2>1. PICK f \in FileNo : \E i \in DOMAIN gs[f] : x = <<f, i>> /\ gs[f][i].kind = "chain"
    BY <1>3
  <2>2. PICK i \in DOMAIN gs[f] : x = <<f, i>> /\ gs[f][i].kind = "chain"
    BY <2>1
  <2>3. f # n
    BY <1>4, <2>2
  <2>4. CASE f = n + 1
    <3>1. <<n, i>> \in DOMAIN c
      BY <1>1, <1>2, <2>2, <2>4
    <3>2. m[<<n, i>>] = <<n + 1, i>>
      <4>1. <<n, i>>[1] = n /\ <<n, i>>[2] = i
        OBVIOUS
      <4> QED BY <3>1, <4>1
    <3> HIDE DEF m
    <3> QED BY <2>2, <2>4, <3>1, <3>2
  <2>5. CASE f # n + 1
    <3>1. x \in DOMAIN c
      BY <1>1, <1>2, <2>2, <2>3, <2>5
    <3>2. m[x] = x
      <4>1. x[1] # n
        BY <2>2, <2>3
      <4> QED BY <3>1, <4>1
    <3> HIDE DEF m
    <3> QED BY <3>1, <3>2
  <2> QED BY <2>4, <2>5
<1>8. ASSUME NEW p \in DOMAIN c, NEW q \in DOMAIN c PROVE Earlier(p, q) <=> Earlier(m[p], m[q])
  <2>1. PICK f \in FileNo : \E i \in DOMAIN fs[f] :
          p = <<f, i>> /\ f # n + 1 /\ m[p] = <<IF f = n THEN n + 1 ELSE f, i>>
    BY <1>5
  <2>2. PICK i \in DOMAIN fs[f] :
          p = <<f, i>> /\ f # n + 1 /\ m[p] = <<IF f = n THEN n + 1 ELSE f, i>>
    BY <2>1
  <2>3. PICK g \in FileNo : \E j \in DOMAIN fs[g] :
          q = <<g, j>> /\ g # n + 1 /\ m[q] = <<IF g = n THEN n + 1 ELSE g, j>>
    BY <1>5
  <2>4. PICK j \in DOMAIN fs[g] :
          q = <<g, j>> /\ g # n + 1 /\ m[q] = <<IF g = n THEN n + 1 ELSE g, j>>
    BY <2>3
  <2> HIDE DEF m
  <2>5. f \in Int /\ g \in Int
    BY SMT DEF FileNo
  <2> QED BY SMT, <1>0, <2>2, <2>4, <2>5 DEF Earlier
<1> HIDE DEF m
<1>9. /\ GapsOf(d) \subseteq {m[p] : p \in GapsOf(c)}
      /\ \A h : LooseOf(d, h) => LooseOf(c, h)
  BY <1>6, <1>7, <1>8, <1>GapMoved
<1>10. IsFiniteSet(GapsOf(c))
  BY DEF c, Gaps
<1>11. IsFiniteSet(GapsOf(d)) /\ Cardinality(GapsOf(d)) <= Cardinality(GapsOf(c))
  BY <1>9, <1>10, <1>NoMoreThan
<1> QED BY <1>9, <1>11 DEF c, d, Gaps, Loose

\* A line is appended, to the torn one if there is one.
LEMMA AppendAdds ==
  ASSUME NEW fs \in [FileNo -> Seq(Line)], NEW l \in Line,
         NEW gs, gs = Appended(fs, l)
  PROVE  /\ l # Torn => ~EndsTorn(gs)
         /\ l.kind # "chain" \/ EndsTorn(fs) => ChainOf(gs) = ChainOf(fs)
         /\ l.kind = "chain" /\ ~EndsTorn(fs) =>
              /\ \E z : Gaps(gs) \subseteq Gaps(fs) \cup {z}
              /\ ~Loose(fs, l.prevHash) => Gaps(gs) \subseteq Gaps(fs)
              /\ \A h : Loose(gs, h) => l.hash # h
<1>GapAdded.
      ASSUME NEW c, NEW d, NEW z, AddedAt(c, d, z)
      PROVE  /\ GapsOf(d) \subseteq GapsOf(c) \cup {z}
             /\ ~LooseOf(c, d[z].prevHash) => GapsOf(d) \subseteq GapsOf(c)
             /\ \A h : LooseOf(d, h) => d[z].hash # h
  <2> USE <1>GapAdded
  <2> USE DEF AddedAt
  <2>0. \A p \in DOMAIN c : ~Earlier(z, p)
    <3>1. z \in Spots /\ DOMAIN c \subseteq Spots
      OBVIOUS
    <3> QED BY <3>1, SpotsOrdered
  <2>1. ASSUME NEW q \in GapsOf(d), q # z PROVE q \in GapsOf(c)
    <3>1. q \in DOMAIN c
      BY <2>1 DEF GapsOf
    <3>2. PICK p \in DOMAIN d : /\ Earlier(p, q)
                                /\ \A r \in DOMAIN d : ~(Earlier(p, r) /\ Earlier(r, q))
                                /\ d[q].prevHash # d[p].hash
      BY DEF GapsOf
    <3>3. p \in DOMAIN c
      <4>1. p \in DOMAIN c \/ p = z
        OBVIOUS
      <4> QED BY <2>0, <3>1, <3>2, <4>1
    <3> QED BY <3>1, <3>2, <3>3 DEF GapsOf
  <2>2. ASSUME z \in GapsOf(d) PROVE LooseOf(c, d[z].prevHash)
    <3>1. PICK p \in DOMAIN d : /\ Earlier(p, z)
                                /\ \A r \in DOMAIN d : ~(Earlier(p, r) /\ Earlier(r, z))
                                /\ d[z].prevHash # d[p].hash
      BY <2>2 DEF GapsOf
    <3>2. p \in DOMAIN c
      BY <3>1, SpotsOrdered
    <3>3. \A r \in DOMAIN c : ~Earlier(p, r)
      BY <3>1
    <3>4. c[p].hash # d[z].prevHash
      BY <3>1, <3>2
    <3> QED BY <3>2, <3>3, <3>4 DEF LooseOf
  <2>3. ASSUME NEW h, LooseOf(d, h) PROVE d[z].hash # h
    <3>1. PICK p \in DOMAIN d : (\A r \in DOMAIN d : ~Earlier(p, r)) /\ d[p].hash # h
      BY <2>3 DEF LooseOf
    <3>2. z \in DOMAIN d
      OBVIOUS
    <3>3. p = z
      <4>1. p \in DOMAIN c \/ p = z
        OBVIOUS
      <4>2. ~Earlier(p, z)
        BY <3>1, <3>2
      <4> QED BY <4>1, <4>2
    <3> QED BY <3>1, <3>3
  <2>4. GapsOf(d) \subseteq GapsOf(c) \cup {z}
    BY <2>1
  <2>5. ASSUME ~LooseOf(c, d[z].prevHash) PROVE GapsOf(d) \subseteq GapsOf(c)
    <3>1. z \notin GapsOf(d)
      BY <2>2, <2>5
    <3> QED BY <2>1, <3>1
  <2> QED BY <2>3, <2>4, <2>5
<1> USE DEF Appended
<1> DEFINE f == fs[0]
           g == AppendLine(f, l)
<1>1. 0 \in FileNo /\ f \in Seq(Line)
  BY SMT, LogAssumption DEF FileNo
<1>2. g \in Seq(Line)
  BY <1>1, AppendLineType
<1>3. gs \in [FileNo -> Seq(Line)] /\ gs[0] = g /\ \A n \in FileNo : n # 0 => gs[n] = fs[n]
  BY <1>1, <1>2
<1>4. EndsTorn(fs) <=> f # << >> /\ f[Len(f)] = Torn
  BY DEF EndsTorn
<1>5. EndsTorn(gs) <=> g # << >> /\ g[Len(g)] = Torn
  BY <1>3 DEF EndsTorn
<1>6. CASE EndsTorn(fs)
  <2>1. g = [f EXCEPT ![Len(f)] = IF l = Torn THEN Torn ELSE Glued]
    BY <1>4, <1>6 DEF AppendLine
  <2>2. Len(f) \in DOMAIN f
    BY SMT, <1>1, <1>4, <1>6
  <2>3. PICK y : y = IF l = Torn THEN Torn ELSE Glued
    OBVIOUS
  <2>4. /\ DOMAIN g = DOMAIN f /\ Len(g) = Len(f) /\ g[Len(f)] = y
        /\ \A i \in DOMAIN f : i # Len(f) => g[i] = f[i]
    <3> HIDE DEF f, g
    <3>1. g = [f EXCEPT ![Len(f)] = y]
      BY <2>1, <2>3
    <3> QED BY SMT, <1>1, <2>2, <3>1
  <2>5. y.kind # "chain" /\ f[Len(f)].kind # "chain" /\ (l # Torn => y # Torn)
    <3>1. y = Torn \/ y = Glued
      BY <2>3
    <3>2. Torn.kind = "torn" /\ Glued.kind = "glued"
      BY LineKinds
    <3>3. "torn" # "chain" /\ "glued" # "chain" /\ "torn" # "glued"
      OBVIOUS
    <3> QED BY <1>4, <1>6, <2>3, <3>1, <3>2, <3>3
  <2>6. l # Torn => ~EndsTorn(gs)
    BY <1>5, <2>4, <2>5
  <2>7. \A n \in FileNo : /\ \A i : i \in DOMAIN gs[n] <=> i \in DOMAIN fs[n]
                          /\ \A i \in DOMAIN fs[n] : /\ gs[n][i].kind = "chain" <=> fs[n][i].kind = "chain"
                                                     /\ fs[n][i].kind = "chain" => gs[n][i] = fs[n][i]
    <3> SUFFICES ASSUME NEW n \in FileNo
                 PROVE  /\ \A i : i \in DOMAIN gs[n] <=> i \in DOMAIN fs[n]
                        /\ \A i \in DOMAIN fs[n] : /\ gs[n][i].kind = "chain" <=> fs[n][i].kind = "chain"
                                                   /\ fs[n][i].kind = "chain" => gs[n][i] = fs[n][i]
      OBVIOUS
    <3>1. CASE n = 0
      <4>1. gs[n] = g /\ fs[n] = f
        BY <1>3, <3>1
      <4> HIDE DEF f, g
      <4>2. ASSUME NEW i \in DOMAIN f
            PROVE  (g[i].kind = "chain" <=> f[i].kind = "chain") /\ (f[i].kind = "chain" => g[i] = f[i])
        <5>1. CASE i = Len(f)
          BY <2>4, <2>5, <5>1
        <5>2. CASE i # Len(f)
          BY <2>4, <5>2
        <5> QED BY <5>1, <5>2
      <4> QED BY <2>4, <4>1, <4>2
    <3>2. CASE n # 0
      BY <1>3, <3>2
    <3> QED BY <3>1, <3>2
  <2>8. InChain(gs) = InChain(fs)
    BY SMT, <2>7 DEF InChain
  <2>9. \A p \in InChain(fs) : gs[p[1]][p[2]] = fs[p[1]][p[2]]
    BY SMT, <2>7 DEF InChain
  <2>10. ChainOf(gs) = ChainOf(fs)
    BY <2>8, <2>9 DEF ChainOf
  <2> QED BY <1>6, <2>6, <2>10
<1>7. CASE ~EndsTorn(fs)
  <2>1. g = Append(f, l)
    BY <1>4, <1>7 DEF AppendLine
  <2>2. /\ Len(f) \in Nat /\ Len(g) = Len(f) + 1 /\ g # << >> /\ g[Len(f) + 1] = l
        /\ Len(f) + 1 \in DOMAIN g
        /\ \A i : i \in DOMAIN g <=> i \in DOMAIN f \/ i = Len(f) + 1
        /\ \A i \in DOMAIN f : g[i] = f[i] /\ i < Len(f) + 1 /\ i # Len(f) + 1 /\ i \in Nat
    <3> HIDE DEF f, g
    <3> QED BY SMT, <1>1, <2>1
  <2>3. l # Torn => ~EndsTorn(gs)
    BY <1>5, <2>2
  <2>4. CASE l.kind # "chain"
    <3>1. \A n \in FileNo :
             /\ \A i : i \in DOMAIN gs[n] /\ gs[n][i].kind = "chain" <=> i \in DOMAIN fs[n] /\ fs[n][i].kind = "chain"
             /\ \A i \in DOMAIN fs[n] : gs[n][i] = fs[n][i]
      <4> SUFFICES ASSUME NEW n \in FileNo
                   PROVE  /\ \A i : i \in DOMAIN gs[n] /\ gs[n][i].kind = "chain" <=> i \in DOMAIN fs[n] /\ fs[n][i].kind = "chain"
                          /\ \A i \in DOMAIN fs[n] : gs[n][i] = fs[n][i]
        OBVIOUS
      <4>1. CASE n = 0
        <5>1. gs[n] = g /\ fs[n] = f
          BY <1>3, <4>1
        <5> HIDE DEF f, g
        <5>2. \A i : i \in DOMAIN g /\ g[i].kind = "chain" <=> i \in DOMAIN f /\ f[i].kind = "chain"
          BY <2>2, <2>4
        <5>3. \A i \in DOMAIN f : g[i] = f[i]
          BY <2>2
        <5> QED BY <5>1, <5>2, <5>3
      <4>2. CASE n # 0
        BY <1>3, <4>2
      <4> QED BY <4>1, <4>2
    <3>2. InChain(gs) = InChain(fs)
      BY SMT, <3>1 DEF InChain
    <3>3. \A p \in InChain(fs) : gs[p[1]][p[2]] = fs[p[1]][p[2]]
      BY SMT, <3>1 DEF InChain
    <3>4. ChainOf(gs) = ChainOf(fs)
      BY <3>2, <3>3 DEF ChainOf
    <3> QED BY <1>7, <2>3, <2>4, <3>4
  <2>5. CASE l.kind = "chain"
    <3> DEFINE c == ChainOf(fs)
               d == ChainOf(gs)
               z == <<0, Len(f) + 1>>
    <3>1. /\ DOMAIN c \subseteq Spots
          /\ \A p \in DOMAIN c : \E n \in FileNo : \E i \in DOMAIN fs[n] :
               p = <<n, i>> /\ fs[n][i].kind = "chain" /\ c[p] = fs[n][i]
          /\ \A n \in FileNo : \A i \in DOMAIN fs[n] : fs[n][i].kind = "chain" =>
               <<n, i>> \in DOMAIN c /\ c[<<n, i>>] = fs[n][i]
      BY ChainShape
    <3>2. /\ \A p \in DOMAIN d : \E n \in FileNo : \E i \in DOMAIN gs[n] :
               p = <<n, i>> /\ gs[n][i].kind = "chain" /\ d[p] = gs[n][i]
          /\ \A n \in FileNo : \A i \in DOMAIN gs[n] : gs[n][i].kind = "chain" =>
               <<n, i>> \in DOMAIN d /\ d[<<n, i>>] = gs[n][i]
      BY <1>3, ChainShape
    <3> HIDE DEF c, d
    <3>3. z \in DOMAIN d /\ d[z] = l
      <4>1. PICK k : k = Len(f) + 1
        OBVIOUS
      <4>2. k \in DOMAIN gs[0] /\ gs[0][k] = l /\ z = <<0, k>>
        BY <1>3, <2>2, <4>1
      <4> HIDE DEF z, f, g
      <4>3. gs[0][k].kind = "chain"
        BY <2>5, <4>2
      <4>4. <<0, k>> \in DOMAIN d /\ d[<<0, k>>] = gs[0][k]
        BY <1>1, <3>2, <4>2, <4>3
      <4> QED BY <4>2, <4>4
    <3>4. ASSUME NEW n \in FileNo, NEW i \in DOMAIN fs[n]
          PROVE  i \in DOMAIN gs[n] /\ gs[n][i] = fs[n][i] /\ Earlier(<<n, i>>, z)
      <4>1. CASE n = 0
        <5>1. gs[n] = g /\ fs[n] = f
          BY <1>3, <4>1
        <5> HIDE DEF f, g
        <5>2. i \in DOMAIN g /\ g[i] = f[i] /\ i < Len(f) + 1
          BY <2>2, <5>1
        <5>3. Earlier(<<n, i>>, z)
          BY SMT, <4>1, <5>2 DEF Earlier
        <5> QED BY <5>1, <5>2, <5>3
      <4>2. CASE n # 0
        <5>1. gs[n] = fs[n]
          BY <1>3, <4>2
        <5>2. n > 0
          BY SMT, <4>2 DEF FileNo
        <5> HIDE DEF f, g
        <5>3. Earlier(<<n, i>>, z)
          BY SMT, <5>2 DEF Earlier
        <5> QED BY <5>1, <5>3
      <4> QED BY <4>1, <4>2
    <3>5. ASSUME NEW p \in DOMAIN c PROVE Earlier(p, z) /\ d[p] = c[p] /\ p \in DOMAIN d
      <4>1. PICK n \in FileNo : \E i \in DOMAIN fs[n] :
               p = <<n, i>> /\ fs[n][i].kind = "chain" /\ c[p] = fs[n][i]
        BY <3>1
      <4>2. PICK i \in DOMAIN fs[n] : p = <<n, i>> /\ fs[n][i].kind = "chain" /\ c[p] = fs[n][i]
        BY <4>1
      <4>3. i \in DOMAIN gs[n] /\ gs[n][i] = fs[n][i] /\ Earlier(p, z)
        BY <3>4, <4>2
      <4> HIDE DEF z, f, g
      <4>4. <<n, i>> \in DOMAIN d /\ d[<<n, i>>] = gs[n][i]
        <5>1. gs[n][i].kind = "chain"
          BY <4>2, <4>3
        <5> QED BY <3>2, <4>3, <5>1
      <4> QED BY <4>2, <4>3, <4>4
    <3>6. ASSUME NEW p \in DOMAIN d, p # z PROVE p \in DOMAIN c
      <4>1. PICK n \in FileNo : \E i \in DOMAIN gs[n] : p = <<n, i>> /\ gs[n][i].kind = "chain"
        BY <3>2
      <4>2. PICK i \in DOMAIN gs[n] : p = <<n, i>> /\ gs[n][i].kind = "chain"
        BY <4>1
      <4>3. i \in DOMAIN fs[n]
        <5>1. CASE n = 0
          <6>1. gs[n] = g /\ fs[n] = f /\ i # Len(f) + 1
            BY <1>3, <3>6, <4>2, <5>1
          <6> HIDE DEF f, g
          <6> QED BY <2>2, <6>1
        <5>2. CASE n # 0
          BY <1>3, <5>2
        <5> QED BY <5>1, <5>2
      <4>4. gs[n][i] = fs[n][i]
        BY <3>4, <4>3
      <4> QED BY <3>1, <4>2, <4>3, <4>4
    <3>7. z \in Spots
      <4> HIDE DEF f, g
      <4> QED BY SMT, <2>2 DEF Spots
    <3> HIDE DEF z
    <3>8. DOMAIN d = DOMAIN c \cup {z}
      BY <3>3, <3>5, <3>6
    <3>9. /\ GapsOf(d) \subseteq GapsOf(c) \cup {z}
          /\ ~LooseOf(c, d[z].prevHash) => GapsOf(d) \subseteq GapsOf(c)
          /\ \A h : LooseOf(d, h) => d[z].hash # h
      <4> HIDE DEF f, g
      <4>1. \A p \in DOMAIN c : Earlier(p, z) /\ d[p] = c[p]
        BY <3>5
      <4>2. DOMAIN d \subseteq Spots
        BY <3>1, <3>7, <3>8
      <4>3. AddedAt(c, d, z)
        BY <3>8, <4>1, <4>2 DEF AddedAt
      <4> QED BY <4>3, <1>GapAdded
    <3>10. /\ \E y : GapsOf(d) \subseteq GapsOf(c) \cup {y}
           /\ ~LooseOf(c, l.prevHash) => GapsOf(d) \subseteq GapsOf(c)
           /\ \A h : LooseOf(d, h) => l.hash # h
      BY <3>3, <3>9
    <3>11. /\ \E y : Gaps(gs) \subseteq Gaps(fs) \cup {y}
           /\ ~Loose(fs, l.prevHash) => Gaps(gs) \subseteq Gaps(fs)
           /\ \A h : Loose(gs, h) => l.hash # h
      BY <3>10 DEF c, d, Gaps, Loose
    <3> QED BY <1>7, <2>3, <2>5, <3>11
  <2> QED BY <2>4, <2>5
<1> QED BY <1>6, <1>7

Saved == stateFile.chain # 0 /\ stateFile.hash # << >>

\* The next rename overwrites a backup.
Blocked == pc = "shift" /\ files[shift + 1] # << >>

\* The next chain line, of this process or of the next one, does not go on from
\* the newest line on disk, or is lost on a torn one.
Open ==
  \/ EndsTorn(files)
  \/ IF chainOn /\ pc # "idle" THEN Loose(files, raw.prevHash)
     ELSE \/ Saved /\ Loose(files, stateFile.hash)
          \/ chainOn /\ Loose(files, state.hash)

\* The line in hand is not the one the state file goes on from.
Unsaved == chainOn /\ pc \in {"rotate", "shift", "append"} /\ stateFile # state

\* What a Write has in hand.
HandInv ==
  pc # "idle" =>
    /\ up
    /\ IF chainOn THEN raw.kind = "chain" /\ raw.hash = state.hash
       ELSE raw.kind = "legacy" /\ pc # "save"

PaidInv ==
  /\ TypeOK
  /\ HandInv
  /\ IsFiniteSet(Gaps(files))
  /\ Ledger(Cardinality(Gaps(files)), Blocked, Open, Unsaved, faults)

LEMMA PaidInit ==
  ASSUME Counting
  PROVE  Init => PaidInv
<1> SUFFICES ASSUME Init PROVE PaidInv
  OBVIOUS
<1>1. TypeOK /\ HandInv
  BY TypeInit DEF Init, HandInv
<1>2. files \in [FileNo -> Seq(Line)] /\ 0 \in FileNo
  BY SMT, <1>1, LogAssumption DEF TypeOK, FileNo
<1>3. \A f \in FileNo : \A i \in DOMAIN files[f] : files[f][i] = Legacy(0)
  <2> SUFFICES ASSUME NEW f \in FileNo, NEW i \in DOMAIN files[f] PROVE files[f][i] = Legacy(0)
    OBVIOUS
  <2>1. files[f] = IF f = 0 THEN [j \in 1 .. LegacyLines |-> Legacy(0)] ELSE << >>
    BY DEF Init
  <2>2. f = 0
    BY SMT, <2>1
  <2> QED BY <2>1, <2>2
<1>4. Legacy(0).kind = "legacy" /\ Legacy(0) # Torn
  <2>1. Legacy(0).kind = "legacy"
    BY DEF Legacy
  <2>2. Torn.kind = "torn" /\ "torn" # "legacy"
    BY LineKinds
  <2> QED BY <2>1, <2>2
<1>5. DOMAIN ChainOf(files) = {}
  <2> SUFFICES ASSUME NEW p \in DOMAIN ChainOf(files) PROVE FALSE
    OBVIOUS
  <2>1. PICK f \in FileNo : \E i \in DOMAIN files[f] : files[f][i].kind = "chain"
    BY <1>2, ChainShape
  <2>2. "legacy" # "chain"
    OBVIOUS
  <2> QED BY <1>3, <1>4, <2>1, <2>2
<1>6. Gaps(files) = {} /\ \A h : ~Loose(files, h)
  BY <1>5 DEF Gaps, GapsOf, Loose, LooseOf
<1>7. ~EndsTorn(files)
  <2>1. files[0] \in Seq(Line)
    BY <1>2
  <2>2. files[0] # << >> => Len(files[0]) \in DOMAIN files[0]
    BY SMT, <2>1
  <2> QED BY <1>2, <1>3, <1>4, <2>2 DEF EndsTorn
<1>8. ~Blocked /\ ~Open /\ ~Unsaved /\ faults = 0
  <2>1. pc = "idle" /\ faults = 0 /\ ~chainOn
    BY DEF Init
  <2> QED BY <1>6, <1>7, <2>1 DEF Blocked, Open, Unsaved
<1>9. IsFiniteSet(Gaps(files)) /\ Cardinality(Gaps(files)) = 0
  BY <1>6, CountNothing
<1>10. Ledger(Cardinality(Gaps(files)), Blocked, Open, Unsaved, faults)
  <2>1. Bit(Blocked) = 0 /\ Bit(Open) = 0 /\ Bit(Unsaved) = 0
    BY <1>8 DEF Bit
  <2>2. 0 + 0 + 0 + 0 <= 0
    BY SMT
  <2> QED BY <1>8, <1>9, <2>1, <2>2 DEF Ledger
<1> QED BY <1>1, <1>9, <1>10 DEF PaidInv

\* How a step keeps the books.
GapsKept == IsFiniteSet(Gaps(files)') /\ Cardinality(Gaps(files)') <= Cardinality(Gaps(files))
GapsGrow == IsFiniteSet(Gaps(files)') /\ Cardinality(Gaps(files)') <= Cardinality(Gaps(files)) + 1

\* No digest is loose in gs that is not in fs.
Tied(fs, gs) == \A h : Loose(gs, h) => Loose(fs, h)

LEMMA PaidStep ==
  ASSUME Counting
  PROVE  PaidInv /\ [Next]_vars => PaidInv'
<1>FewerGaps.
      ASSUME NEW S, NEW T, IsFiniteSet(S), NEW z
      PROVE  /\ Cardinality(S) \in Nat
             /\ T \subseteq S => IsFiniteSet(T) /\ Cardinality(T) \in Nat /\ Cardinality(T) <= Cardinality(S)
             /\ T \subseteq S \cup {z} =>
                  IsFiniteSet(T) /\ Cardinality(T) \in Nat /\ Cardinality(T) <= Cardinality(S) + 1
  <2> USE <1>FewerGaps
  <2>1. Cardinality(S) \in Nat
    BY CountType
  <2>2. ASSUME T \subseteq S
        PROVE  IsFiniteSet(T) /\ Cardinality(T) \in Nat /\ Cardinality(T) <= Cardinality(S)
    BY <2>2, CountFewer, CountType
  <2>3. ASSUME T \subseteq S \cup {z}
        PROVE  IsFiniteSet(T) /\ Cardinality(T) \in Nat /\ Cardinality(T) <= Cardinality(S) + 1
    <3> DEFINE U == S \cup {z}
    <3>1. IsFiniteSet(U) /\ Cardinality(U) = IF z \in S THEN Cardinality(S) ELSE Cardinality(S) + 1
      BY CountOneMore
    <3> HIDE DEF U
    <3>2. T \in SUBSET U
      BY <2>3 DEF U
    <3>3. IsFiniteSet(T) /\ Cardinality(T) <= Cardinality(U)
      BY <3>1, <3>2, CountFewer
    <3>4. Cardinality(T) \in Nat /\ Cardinality(U) \in Nat
      BY <3>1, <3>3, CountType
    <3>5. Cardinality(U) = Cardinality(S) \/ Cardinality(U) = Cardinality(S) + 1
      BY <3>1
    <3>6. Cardinality(T) <= Cardinality(S) + 1
      BY SMT, <2>1, <3>3, <3>4, <3>5
    <3> QED BY <3>3, <3>4, <3>6
  <2> QED BY <2>1, <2>2, <2>3
<1>BooksKept.
      ASSUME PaidInv, TypeOK', HandInv',
             \/ /\ GapsKept /\ faults' = faults
                /\ (Blocked' => Blocked) /\ (Open' => Open) /\ (Unsaved' => Unsaved)
             \/ /\ GapsKept /\ faults' = faults + 1
                /\ \/ (Open' => Open) /\ (Unsaved' => Unsaved)
                   \/ (Blocked' => Blocked) /\ (Open' => Open)
                   \/ ~Blocked' /\ ~Unsaved'
             \/ /\ GapsGrow /\ faults' = faults
                /\ Blocked /\ ~Blocked' /\ (Unsaved' => Unsaved) /\ (GapsKept \/ (Open' => Open))
             \/ /\ GapsKept /\ faults' = faults
                /\ ~Blocked' /\ ~Unsaved' /\ Open
             \/ /\ GapsGrow /\ faults' = faults
                /\ ~Blocked' /\ ~Unsaved' /\ (Open \/ GapsKept) /\ (Open' => Unsaved)
      PROVE  PaidInv'
  <2> USE <1>BooksKept
  <2>PaidBooleans.
        /\ Blocked \in BOOLEAN /\ Open \in BOOLEAN /\ Unsaved \in BOOLEAN
        /\ Blocked' \in BOOLEAN /\ Open' \in BOOLEAN /\ Unsaved' \in BOOLEAN
    <3>1. Blocked \in BOOLEAN /\ Blocked' \in BOOLEAN
      BY DEF Blocked
    <3>2. Unsaved \in BOOLEAN /\ Unsaved' \in BOOLEAN
      BY DEF Unsaved
    <3>3. Open \in BOOLEAN /\ Open' \in BOOLEAN
      BY DEF Open
    <3> QED BY <3>1, <3>2, <3>3
  <2>1. PICK c, c2, b, o, u, b2, o2, u2, n :
          /\ c = Cardinality(Gaps(files)) /\ c2 = Cardinality(Gaps(files)')
          /\ b = Blocked /\ o = Open /\ u = Unsaved /\ b2 = Blocked' /\ o2 = Open' /\ u2 = Unsaved'
          /\ n = faults
    OBVIOUS
  <2>2. IsFiniteSet(Gaps(files)')
    BY DEF GapsKept, GapsGrow
  <2>3. c \in Nat /\ c2 \in Nat /\ n \in Nat
    <3>1. c \in Nat /\ c2 \in Nat
      BY <2>1, <2>2, CountType DEF PaidInv
    <3>2. n \in Nat
      BY SMT, <2>1 DEF PaidInv, TypeOK
    <3> QED BY <3>1, <3>2
  <2>4. /\ b \in BOOLEAN /\ o \in BOOLEAN /\ u \in BOOLEAN
        /\ b2 \in BOOLEAN /\ o2 \in BOOLEAN /\ u2 \in BOOLEAN
    BY <2>1, <2>PaidBooleans
  <2>5. Ledger(c, b, o, u, n)
    BY <2>1 DEF PaidInv
  <2>6. \/ Ledger(c2, b2, o2, u2, n) /\ faults' = n
        \/ Ledger(c2, b2, o2, u2, n + 1) /\ faults' = n + 1
    <3>1. (GapsKept => c2 <= c) /\ (GapsGrow => c2 <= c + 1)
      BY <2>1 DEF GapsKept, GapsGrow
    <3>2. CASE /\ GapsKept /\ faults' = faults
               /\ (Blocked' => Blocked) /\ (Open' => Open) /\ (Unsaved' => Unsaved)
      <4>1. c2 <= c /\ (b2 => b) /\ (o2 => o) /\ (u2 => u)
        BY <2>1, <3>1, <3>2
      <4>2. Ledger(c2, b2, o2, u2, n)
        BY SMT, <2>3, <2>4, <2>5, <4>1 DEF Ledger, Bit
      <4> QED BY <2>1, <3>2, <4>2
    <3>3. CASE /\ GapsKept /\ faults' = faults + 1
               /\ \/ (Open' => Open) /\ (Unsaved' => Unsaved)
                  \/ (Blocked' => Blocked) /\ (Open' => Open)
                  \/ ~Blocked' /\ ~Unsaved'
      <4>1. /\ c2 <= c
            /\ \/ (o2 => o) /\ (u2 => u)
               \/ (b2 => b) /\ (o2 => o)
               \/ ~b2 /\ ~u2
        BY <2>1, <3>1, <3>3
      <4>2. Ledger(c2, b2, o2, u2, n + 1)
        BY SMT, <2>3, <2>4, <2>5, <4>1 DEF Ledger, Bit
      <4> QED BY <2>1, <3>3, <4>2
    <3>4. CASE /\ GapsGrow /\ faults' = faults
               /\ Blocked /\ ~Blocked' /\ (Unsaved' => Unsaved) /\ (GapsKept \/ (Open' => Open))
      <4>1. b /\ ~b2 /\ (u2 => u) /\ c2 <= c + 1 /\ (c2 <= c \/ (o2 => o))
        BY <2>1, <3>1, <3>4
      <4>2. Ledger(c2, b2, o2, u2, n)
        BY SMT, <2>3, <2>4, <2>5, <4>1 DEF Ledger, Bit
      <4> QED BY <2>1, <3>4, <4>2
    <3>5. CASE /\ GapsKept /\ faults' = faults
               /\ ~Blocked' /\ ~Unsaved' /\ Open
      <4>1. ~b2 /\ ~u2 /\ o /\ c2 <= c
        BY <2>1, <3>1, <3>5
      <4>2. Ledger(c2, b2, o2, u2, n)
        BY SMT, <2>3, <2>4, <2>5, <4>1 DEF Ledger, Bit
      <4> QED BY <2>1, <3>5, <4>2
    <3>6. CASE /\ GapsGrow /\ faults' = faults
               /\ ~Blocked' /\ ~Unsaved' /\ (Open \/ GapsKept) /\ (Open' => Unsaved)
      <4>1. ~b2 /\ ~u2 /\ c2 <= c + 1 /\ (o \/ c2 <= c) /\ (o2 => u)
        BY <2>1, <3>1, <3>6
      <4>2. Ledger(c2, b2, o2, u2, n)
        BY SMT, <2>3, <2>4, <2>5, <4>1 DEF Ledger, Bit
      <4> QED BY <2>1, <3>6, <4>2
    <3> QED BY <3>2, <3>3, <3>4, <3>5, <3>6
  <2>7. Ledger(c2, b2, o2, u2, faults')
    BY <2>6
  <2> QED BY <2>1, <2>2, <2>7 DEF PaidInv, Ledger
\* The links are the same when the files are.
<1>SameBooks.
      ASSUME PaidInv, files' = files
      PROVE  GapsKept /\ Tied(files, files') /\ (EndsTorn(files') <=> EndsTorn(files))
  <2> USE <1>SameBooks
  <2>1. Gaps(files)' = Gaps(files)
    OBVIOUS
  <2>2. Cardinality(Gaps(files)) \in Nat
    BY CountType DEF PaidInv
  <2>3. Cardinality(Gaps(files)) <= Cardinality(Gaps(files))
    BY SMT, <2>2
  <2> QED BY <2>1, <2>3 DEF GapsKept, Tied, PaidInv
<1>StartPaid.
      ASSUME PaidInv, TypeOK', NEW on \in ChainModes, Start(on) PROVE PaidInv'
  <2> USE <1>StartPaid
  \* A digest loaded from the log goes on from its newest line.
  <2>RecoveredIsNotLoose.
        ASSUME TypeOK
        PROVE  ~Loose(files, RecoverFromLog.hash)
    <3> USE <2>RecoveredIsNotLoose
    <3> SUFFICES ASSUME Loose(files, RecoverFromLog.hash) PROVE FALSE
      OBVIOUS
    <3>0. files \in [FileNo -> Seq(Line)]
      BY DEF TypeOK
    <3> DEFINE c == ChainOf(files)
    <3>1. ChainPositions = DOMAIN c /\ (\A p \in ChainPositions : At(p) = c[p]) /\ DOMAIN c \subseteq Spots
      BY <3>0, ChainAt, ChainShape
    <3>2. PICK p \in DOMAIN c : (\A r \in DOMAIN c : ~Earlier(p, r)) /\ c[p].hash # RecoverFromLog.hash
      BY DEF Loose, LooseOf
    <3> HIDE DEF c
    <3>3. ChainPositions # {}
      BY <3>1, <3>2
    <3>4. PICK q \in ChainPositions :
            /\ RecoverFromLog = [chain |-> At(q).chain, seq |-> At(q).seq, hash |-> At(q).hash]
            /\ \A r \in ChainPositions \ {q} : Earlier(r, q)
      BY <3>0, <3>3, RecoverFromLogType
    <3>5. p = q
      BY <3>1, <3>2, <3>4
    <3>6. RecoverFromLog.hash = At(q).hash
      BY <3>4
    <3> QED BY <3>1, <3>2, <3>4, <3>5, <3>6
  <2>1. files' = files /\ stateFile' = stateFile /\ pc' = pc /\ faults' = faults /\ ~up /\ up'
    BY DEF Start
  <2>2. pc = "idle"
    BY <2>1 DEF PaidInv, HandInv
  <2>3. GapsKept /\ (EndsTorn(files') <=> EndsTorn(files))
    BY <2>1, <1>SameBooks
  <2>4. HandInv' /\ ~Blocked' /\ ~Unsaved'
    BY <2>1, <2>2 DEF HandInv, Blocked, Unsaved
  <2>5. ASSUME Open' PROVE Open
    <3>1. \/ EndsTorn(files)
          \/ Saved /\ Loose(files, stateFile.hash)
          \/ chainOn' /\ Loose(files, state'.hash)
      BY <2>1, <2>2, <2>3, <2>5 DEF Open, Saved
    <3>2. ASSUME chainOn', Loose(files, state'.hash) PROVE Saved /\ Loose(files, stateFile.hash)
      <4>1. state' = LoadChain
        BY <3>2 DEF Start
      <4>2. ~Loose(files, RecoverFromLog.hash)
        BY <2>RecoveredIsNotLoose DEF PaidInv
      <4>3. LoadChain = stateFile /\ Saved
        BY <3>2, <4>1, <4>2 DEF LoadChain, Saved
      <4> QED BY <3>2, <4>1, <4>3
    <3>3. Open <=> \/ EndsTorn(files)
                   \/ Saved /\ Loose(files, stateFile.hash)
                   \/ chainOn /\ Loose(files, state.hash)
      BY <2>2 DEF Open
    <3> QED BY <3>1, <3>2, <3>3
  <2> QED BY <2>1, <2>3, <2>4, <2>5, <1>BooksKept
<1>WritePaid.
      ASSUME PaidInv, TypeOK', Write PROVE PaidInv'
  <2> USE <1>WritePaid
  <2>1. /\ files' = files /\ stateFile' = stateFile /\ faults' = faults /\ up /\ up' = up
        /\ chainOn' = chainOn /\ pc = "idle"
    BY DEF Write
  <2>2. GapsKept /\ (EndsTorn(files') <=> EndsTorn(files))
    BY <2>1, <1>SameBooks
  <2>3. Open <=> \/ EndsTorn(files)
                 \/ Saved /\ Loose(files, stateFile.hash)
                 \/ chainOn /\ Loose(files, state.hash)
    BY <2>1 DEF Open
  <2>4. CASE chainOn
    <3>1. raw' = SealChain(state, written + 1).line /\ state' = SealChain(state, written + 1).next /\ pc' = "save"
      BY <2>4 DEF Write
    <3>2. state \in ChainState /\ written + 1 \in Nat
      BY SMT DEF PaidInv, TypeOK
    <3>3. /\ SealChain(state, written + 1).line \in ChainLine
          /\ SealChain(state, written + 1).line.prevHash = state.hash
          /\ SealChain(state, written + 1).line.hash = SealChain(state, written + 1).next.hash
      BY <3>2, SealChainType
    <3>4. raw'.kind = "chain" /\ raw'.prevHash = state.hash /\ raw'.hash = state'.hash
      BY <3>1, <3>3, LineKinds
    <3>5. HandInv' /\ ~Blocked' /\ ~Unsaved'
      <4>1. "save" \notin {"rotate", "shift", "append"} /\ "save" # "shift"
        OBVIOUS
      <4> QED BY <2>1, <2>4, <3>1, <3>4, <4>1 DEF HandInv, Blocked, Unsaved
    <3>6. Open' => Open
      BY <2>1, <2>2, <2>3, <2>4, <3>1, <3>4 DEF Open
    <3> QED BY <2>1, <2>2, <3>5, <3>6, <1>BooksKept
  <2>5. CASE ~chainOn
    <3>1. raw' = Legacy(written + 1) /\ state' = state /\ pc' = "rotate"
      BY <2>5 DEF Write
    <3>2. raw'.kind = "legacy"
      BY <3>1 DEF Legacy
    <3>3. HandInv' /\ ~Blocked' /\ ~Unsaved'
      BY <2>1, <2>5, <3>1, <3>2 DEF HandInv, Blocked, Unsaved
    <3>4. Open' => Open
      BY <2>1, <2>2, <2>3, <2>5, <3>1 DEF Open, Saved
    <3> QED BY <2>1, <2>2, <3>3, <3>4, <1>BooksKept
  <2> QED BY <2>4, <2>5
<1>SaveStatePaid.
      ASSUME PaidInv, TypeOK', SaveState PROVE PaidInv'
  <2> USE <1>SaveStatePaid
  <2>1. /\ files' = files /\ up' = up /\ chainOn' = chainOn /\ state' = state /\ raw' = raw
        /\ pc = "save" /\ pc' = "rotate"
    BY DEF SaveState, procVars
  <2>2. GapsKept /\ (EndsTorn(files') <=> EndsTorn(files))
    BY <2>1, <1>SameBooks
  <2>3. HandInv' /\ chainOn
    BY <2>1 DEF PaidInv, HandInv
  <2>4. Open' => Open
    BY <2>1, <2>2, <2>3 DEF Open
  <2>5. ~Blocked'
    BY <2>1 DEF Blocked
  <2>6. CASE stateFile' = state /\ faults' = faults
    <3>1. ~Unsaved'
      BY <2>1, <2>6 DEF Unsaved
    <3> QED BY <2>2, <2>3, <2>4, <2>5, <2>6, <3>1, <1>BooksKept
  <2>7. CASE faults' = faults + 1
    BY <2>2, <2>3, <2>4, <2>5, <2>7, <1>BooksKept
  <2> QED BY <2>6, <2>7 DEF SaveState, Fault
<1>RotationPaid.
      ASSUME PaidInv, TypeOK', SkipRotation \/ RemoveOldest \/ ShiftBackup \/ RotateCurrent
      PROVE  PaidInv'
  <2> USE <1>RotationPaid
  \* A step inside a Write, or outside one, opens nothing new.
  <2>OpenKept.
        ASSUME EndsTorn(files') => EndsTorn(files), Tied(files, files'),
               UNCHANGED <<stateFile, chainOn, state, raw>>, pc # "idle" <=> pc' # "idle"
        PROVE  Open' => Open
    <3> USE <2>OpenKept
    <3>1. Open' = (\/ EndsTorn(files')
                   \/ IF chainOn /\ pc' # "idle" THEN Loose(files', raw.prevHash)
                      ELSE \/ Saved /\ Loose(files', stateFile.hash)
                           \/ chainOn /\ Loose(files', state.hash))
      BY DEF Open, Saved
    <3>2. CASE chainOn /\ pc # "idle"
      BY <3>1, <3>2 DEF Open, Tied
    <3>3. CASE ~(chainOn /\ pc # "idle")
      BY <3>1, <3>3 DEF Open, Tied
    <3> QED BY <3>2, <3>3
  \* A rename leaves the links alone, but for the one over an overwritten backup.
  <2>RenameBooks.
        ASSUME PaidInv, NEW n \in FileNo, n + 1 \in FileNo, Rename(n, n + 1)
        PROVE  /\ GapsGrow
               /\ GapsKept \/ Tied(files, files')
               /\ files[n + 1] = << >> => GapsKept /\ Tied(files, files')
               /\ files'[n] = << >>
               /\ EndsTorn(files') => EndsTorn(files)
    <3> USE <2>RenameBooks
    <3>0. files \in [FileNo -> Seq(Line)] /\ IsFiniteSet(Gaps(files))
      BY DEF PaidInv, TypeOK
    <3>1. PICK fs, gs : fs = files /\ gs = files'
      OBVIOUS
    <3>2. gs = Moved(fs, n) /\ fs \in [FileNo -> Seq(Line)] /\ IsFiniteSet(Gaps(fs))
      BY <3>0, <3>1 DEF Rename, Moved
    <3>3. n \in Int /\ n >= 0 /\ n # n + 1 /\ n + 1 # 0 /\ 0 \in FileNo
      BY SMT, LogAssumption DEF FileNo
    <3>4. gs[n] = << >> /\ \A f \in FileNo : f # n /\ f # n + 1 => gs[f] = fs[f]
      BY <3>2 DEF Moved
    <3>5. EndsTorn(gs) => EndsTorn(fs)
      <4>1. CASE n = 0
        <5>1. gs[0] = << >>
          BY <3>4, <4>1
        <5> QED BY <5>1 DEF EndsTorn
      <4>2. CASE n # 0
        <5>1. gs[0] = fs[0]
          BY <3>3, <3>4, <4>2
        <5> QED BY <5>1 DEF EndsTorn
      <4> QED BY <4>1, <4>2
    <3>6. ASSUME fs[n + 1] = << >>
          PROVE  /\ IsFiniteSet(Gaps(gs)) /\ Cardinality(Gaps(gs)) <= Cardinality(Gaps(fs))
                 /\ Tied(fs, gs)
      BY <3>2, <3>6, RenameMoves DEF Tied
    <3> DEFINE ms == Cleared(fs, n + 1)
    <3>7. /\ \E z : Gaps(ms) \subseteq Gaps(fs) \cup {z}
          /\ Gaps(ms) \subseteq Gaps(fs) \/ Tied(fs, ms)
      <4>1. PICK k \in FileNo : k = n + 1
        OBVIOUS
      <4>2. PICK ks : ks = Cleared(fs, k)
        OBVIOUS
      <4>3. /\ \E z : Gaps(ks) \subseteq Gaps(fs) \cup {z}
            /\ Gaps(ks) \subseteq Gaps(fs) \/ \A h : Loose(ks, h) => Loose(fs, h)
        BY <3>2, <4>2, ClearDrops
      <4> QED BY <4>1, <4>2, <4>3 DEF Tied
    <3>8. ms \in [FileNo -> Seq(Line)] /\ ms[n + 1] = << >>
      <4>1. << >> \in Seq(Line)
        BY NoLines
      <4> QED BY <3>2, <4>1 DEF Cleared
    <3>9. gs = Moved(ms, n)
      BY <3>2, <3>3 DEF Moved, Cleared
    <3> HIDE DEF ms
    <3>10. PICK z : Gaps(ms) \subseteq Gaps(fs) \cup {z}
      BY <3>7
    <3>11. /\ IsFiniteSet(Gaps(ms)) /\ Cardinality(Gaps(ms)) \in Nat /\ Cardinality(Gaps(fs)) \in Nat
           /\ Cardinality(Gaps(ms)) <= Cardinality(Gaps(fs)) + 1
           /\ Gaps(ms) \subseteq Gaps(fs) => Cardinality(Gaps(ms)) <= Cardinality(Gaps(fs))
      BY <3>2, <3>10, <1>FewerGaps
    <3>12. /\ IsFiniteSet(Gaps(gs)) /\ Cardinality(Gaps(gs)) <= Cardinality(Gaps(ms))
           /\ \A h : Loose(gs, h) => Loose(ms, h)
      BY <3>8, <3>9, <3>11, RenameMoves
    <3>13. Cardinality(Gaps(gs)) \in Nat
      BY <3>12, CountType
    <3>14. /\ Cardinality(Gaps(gs)) <= Cardinality(Gaps(fs)) + 1
           /\ Gaps(ms) \subseteq Gaps(fs) => Cardinality(Gaps(gs)) <= Cardinality(Gaps(fs))
      <4>1. PICK a, b, c : a = Cardinality(Gaps(fs)) /\ b = Cardinality(Gaps(ms)) /\ c = Cardinality(Gaps(gs))
        OBVIOUS
      <4>2. a \in Nat /\ b \in Nat /\ c \in Nat /\ b <= a + 1 /\ c <= b
        BY <3>11, <3>12, <3>13, <4>1
      <4>3. c <= a + 1 /\ (b <= a => c <= a)
        BY SMT, <4>2
      <4> QED BY <3>11, <4>1, <4>3
    <3>15. Gaps(ms) \subseteq Gaps(fs) \/ Tied(fs, gs)
      BY <3>7, <3>12 DEF Tied
    <3> QED BY <3>1, <3>4, <3>5, <3>6, <3>12, <3>14, <3>15 DEF GapsGrow, GapsKept
  <2>1. /\ stateFile' = stateFile /\ up' = up /\ chainOn' = chainOn /\ state' = state /\ raw' = raw
        /\ pc \in {"rotate", "shift"} /\ pc' \in {"shift", "append", "idle"}
    BY DEF SkipRotation, RemoveOldest, ShiftBackup, RotateCurrent, procVars
  <2>2. HandInv'
    <3>1. pc' # "save" /\ pc # "idle"
      BY <2>1
    <3> QED BY <2>1, <3>1 DEF PaidInv, HandInv
  <2>3. ASSUME pc' # "idle" PROVE /\ Unsaved' => Unsaved
                                  /\ (EndsTorn(files') => EndsTorn(files)) /\ Tied(files, files') => (Open' => Open)
    <3>1. pc # "idle" /\ pc \in {"rotate", "shift", "append"}
      BY <2>1
    <3>2. Unsaved' => Unsaved
      BY <2>1, <3>1 DEF Unsaved
    <3>3. (EndsTorn(files') => EndsTorn(files)) /\ Tied(files, files') => (Open' => Open)
      BY <2>1, <2>3, <3>1, <2>OpenKept
    <3> QED BY <3>2, <3>3
  <2>4. files \in [FileNo -> Seq(Line)] /\ shift \in Int
    BY SMT DEF PaidInv, TypeOK
  <2>5. CASE SkipRotation
    <3>1. files' = files /\ pc' = "append" /\ faults' = faults
      BY <2>5 DEF SkipRotation
    <3>2. GapsKept /\ Tied(files, files') /\ (EndsTorn(files') <=> EndsTorn(files))
      BY <3>1, <1>SameBooks
    <3>3. ~Blocked' /\ pc' # "idle"
      BY <3>1 DEF Blocked
    <3> QED BY <2>2, <2>3, <3>1, <3>2, <3>3, <1>BooksKept
  <2>6. CASE RemoveOldest
    <3>1. pc' = "shift" /\ shift' = MaxBackups - 1
      BY <2>6 DEF RemoveOldest
    <3>2. pc' # "idle"
      BY <3>1
    <3>3. CASE files' = [files EXCEPT ![MaxBackups] = << >>] /\ faults' = faults
      <4>1. MaxBackups \in FileNo /\ 0 \in FileNo /\ MaxBackups # 0 /\ (MaxBackups - 1) + 1 = MaxBackups
        BY SMT, LogAssumption DEF FileNo
      <4>2. PICK gs : gs = files'
        OBVIOUS
      <4>3. Gaps(gs) \subseteq Gaps(files) /\ \A h : Loose(gs, h) => Loose(files, h)
        <5>1. gs = Cleared(files, MaxBackups)
          BY <3>3, <4>2 DEF Cleared
        <5> QED BY <2>4, <4>1, <5>1, ClearDrops
      <4>4. IsFiniteSet(Gaps(gs)) /\ Cardinality(Gaps(gs)) <= Cardinality(Gaps(files))
        BY <4>3, <1>FewerGaps DEF PaidInv
      <4>5. GapsKept /\ Tied(files, files')
        BY <4>2, <4>3, <4>4 DEF GapsKept, Tied
      <4>6. files'[0] = files[0] /\ files'[MaxBackups] = << >>
        BY <2>4, <3>3, <4>1
      <4>7. EndsTorn(files') => EndsTorn(files)
        BY <4>6 DEF EndsTorn
      <4>8. ~Blocked'
        BY <3>1, <4>1, <4>6 DEF Blocked
      <4> QED BY <2>2, <2>3, <3>2, <3>3, <4>5, <4>7, <4>8, <1>BooksKept
    <3>4. CASE files' = files /\ faults' = faults + 1
      <4>1. GapsKept /\ Tied(files, files') /\ (EndsTorn(files') <=> EndsTorn(files))
        BY <3>4, <1>SameBooks
      <4> QED BY <2>2, <2>3, <3>2, <3>4, <4>1, <1>BooksKept
    <3> QED BY <2>6, <3>3, <3>4 DEF RemoveOldest, Fault
  <2>7. CASE ShiftBackup
    <3>1. pc = "shift" /\ pc' = "shift" /\ shift' = shift - 1 /\ shift >= 1
      BY <2>7 DEF ShiftBackup
    <3>2. pc' # "idle"
      BY <3>1
    <3>3. shift' + 1 = shift
      BY SMT, <2>4, <3>1
    <3>4. CASE Rename(shift, shift + 1) /\ faults' = faults
      <4>1. shift \in FileNo /\ shift + 1 \in FileNo
        BY SMT, <3>1, LogAssumption DEF PaidInv, TypeOK, FileNo
      <4>2. PICK n \in FileNo : n = shift
        BY <4>1
      <4>3. /\ GapsGrow
            /\ GapsKept \/ Tied(files, files')
            /\ files[n + 1] = << >> => GapsKept /\ Tied(files, files')
            /\ files'[n] = << >>
            /\ EndsTorn(files') => EndsTorn(files)
        BY <3>4, <4>1, <4>2, <2>RenameBooks
      <4>4. ~Blocked'
        BY <3>3, <4>2, <4>3 DEF Blocked
      <4>5. CASE files[n + 1] = << >>
        BY <2>2, <2>3, <3>2, <3>4, <4>3, <4>4, <4>5, <1>BooksKept
      <4>6. CASE files[n + 1] # << >>
        <5>1. Blocked
          BY <3>1, <4>2, <4>6 DEF Blocked
        <5> QED BY <2>2, <2>3, <3>2, <3>4, <4>3, <4>4, <5>1, <1>BooksKept
      <4> QED BY <4>5, <4>6
    <3>5. CASE files' = files /\ files[shift] = << >> /\ faults' = faults
      <4>1. GapsKept /\ Tied(files, files') /\ (EndsTorn(files') <=> EndsTorn(files))
        BY <3>5, <1>SameBooks
      <4>2. ~Blocked'
        BY <3>3, <3>5 DEF Blocked
      <4> QED BY <2>2, <2>3, <3>2, <3>5, <4>1, <4>2, <1>BooksKept
    <3>6. CASE files' = files /\ faults' = faults + 1
      <4>1. GapsKept /\ Tied(files, files') /\ (EndsTorn(files') <=> EndsTorn(files))
        BY <3>6, <1>SameBooks
      <4> QED BY <2>2, <2>3, <3>2, <3>6, <4>1, <1>BooksKept
    <3> QED BY <2>7, <3>4, <3>5, <3>6 DEF ShiftBackup, Fault
  <2>8. CASE RotateCurrent
    <3>1. pc = "shift" /\ shift = 0 /\ ~Blocked'
      BY <2>8 DEF RotateCurrent, Blocked
    <3>2. CASE Rename(0, 1) /\ pc' = "append" /\ faults' = faults
      <4>1. 0 \in FileNo /\ 0 + 1 \in FileNo /\ 0 + 1 = 1
        BY SMT, LogAssumption DEF FileNo
      <4>2. PICK n \in FileNo : n = 0
        BY <4>1
      <4>3. /\ GapsGrow
            /\ GapsKept \/ Tied(files, files')
            /\ files[n + 1] = << >> => GapsKept /\ Tied(files, files')
            /\ EndsTorn(files') => EndsTorn(files)
        BY <3>2, <4>1, <4>2, <2>RenameBooks
      <4>4. pc' # "idle"
        BY <3>2
      <4>5. CASE files[n + 1] = << >>
        BY <2>2, <2>3, <3>1, <3>2, <4>3, <4>4, <4>5, <1>BooksKept
      <4>6. CASE files[n + 1] # << >>
        <5>1. Blocked
          BY <3>1, <4>2, <4>6 DEF Blocked
        <5> QED BY <2>2, <2>3, <3>1, <3>2, <4>3, <4>4, <5>1, <1>BooksKept
      <4> QED BY <4>5, <4>6
    <3>3. CASE files' = files /\ pc' = "idle" /\ faults' = faults + 1
      <4>1. GapsKept
        BY <3>3, <1>SameBooks
      <4>2. ~Unsaved'
        BY <3>3 DEF Unsaved
      <4> QED BY <2>2, <3>1, <3>3, <4>1, <4>2, <1>BooksKept
    <3> QED BY <2>8, <3>2, <3>3 DEF RotateCurrent, Fault
  <2> QED BY <2>5, <2>6, <2>7, <2>8
<1>AppendPaid.
      ASSUME PaidInv, TypeOK', AppendRaw PROVE PaidInv'
  <2> USE <1>AppendPaid
  <2>1. /\ stateFile' = stateFile /\ up' = up /\ chainOn' = chainOn /\ state' = state /\ raw' = raw
        /\ pc = "append" /\ pc' = "idle"
    BY DEF AppendRaw, procVars
  <2>2. HandInv' /\ ~Blocked' /\ ~Unsaved'
    BY <2>1 DEF HandInv, Blocked, Unsaved
  <2>3. files \in [FileNo -> Seq(Line)] /\ raw \in Line /\ 0 \in FileNo /\ Cardinality(Gaps(files)) \in Nat
    <3>1. 0 \in FileNo
      BY SMT, LogAssumption DEF FileNo
    <3> QED BY <3>1, CountType DEF PaidInv, TypeOK
  <2>4. Cardinality(Gaps(files)) <= Cardinality(Gaps(files))
    BY SMT, <2>3
  <2>5. ASSUME ChainOf(files') = ChainOf(files) PROVE GapsKept /\ Tied(files, files')
    <3>1. Gaps(files') = Gaps(files) /\ \A h : Loose(files', h) = Loose(files, h)
      BY <2>5 DEF Gaps, Loose
    <3> QED BY <2>4, <3>1 DEF GapsKept, Tied, PaidInv
  <2>6. CASE files' = [files EXCEPT ![0] = AppendLine(@, raw)] /\ faults' = faults
    <3>1. PICK gs : gs = files'
      OBVIOUS
    <3>2. gs = Appended(files, raw)
      BY <2>6, <3>1 DEF Appended
    <3>3. /\ raw # Torn => ~EndsTorn(gs)
          /\ raw.kind # "chain" \/ EndsTorn(files) => ChainOf(gs) = ChainOf(files)
          /\ raw.kind = "chain" /\ ~EndsTorn(files) =>
               /\ \E z : Gaps(gs) \subseteq Gaps(files) \cup {z}
               /\ ~Loose(files, raw.prevHash) => Gaps(gs) \subseteq Gaps(files)
               /\ \A h : Loose(gs, h) => raw.hash # h
      BY <2>3, <3>2, AppendAdds
    <3>4. Torn.kind = "torn"
      BY LineKinds
    <3>5. CASE chainOn
      <4>1. raw.kind = "chain" /\ raw.hash = state.hash
        BY <2>1, <3>5 DEF PaidInv, HandInv
      <4>2. Open <=> EndsTorn(files) \/ Loose(files, raw.prevHash)
        BY <2>1, <3>5 DEF Open
      <4>3. CASE EndsTorn(files)
        <5>1. GapsKept /\ Open
          BY <2>5, <3>1, <3>3, <4>2, <4>3
        <5> QED BY <2>2, <2>6, <5>1, <1>BooksKept
      <4>4. CASE ~EndsTorn(files)
        <5>1. /\ \E z : Gaps(gs) \subseteq Gaps(files) \cup {z}
              /\ ~Loose(files, raw.prevHash) => Gaps(gs) \subseteq Gaps(files)
              /\ \A h : Loose(gs, h) => raw.hash # h
          BY <3>3, <4>1, <4>4
        <5>2. PICK z : Gaps(gs) \subseteq Gaps(files) \cup {z}
          BY <5>1
        <5>3. /\ IsFiniteSet(Gaps(gs)) /\ Cardinality(Gaps(gs)) <= Cardinality(Gaps(files)) + 1
              /\ Gaps(gs) \subseteq Gaps(files) => Cardinality(Gaps(gs)) <= Cardinality(Gaps(files))
          BY <5>2, <1>FewerGaps DEF PaidInv
        <5>4. GapsGrow /\ (Open \/ GapsKept)
          BY <3>1, <4>2, <5>1, <5>3 DEF GapsGrow, GapsKept
        <5>5. ~EndsTorn(gs)
          <6>1. raw # Torn
            BY <3>4, <4>1
          <6> QED BY <3>3, <6>1
        <5>6. Open' => Unsaved
          <6>1. Open' => \/ EndsTorn(gs)
                         \/ Loose(gs, stateFile.hash)
                         \/ Loose(gs, state.hash)
            BY <2>1, <3>1 DEF Open
          <6>2. ~Loose(gs, state.hash)
            BY <4>1, <5>1
          <6>3. Loose(gs, stateFile.hash) => stateFile # state
            BY <4>1, <5>1
          <6> QED BY <2>1, <3>5, <5>5, <6>1, <6>2, <6>3 DEF Unsaved
        <5> QED BY <2>2, <2>6, <5>4, <5>6, <1>BooksKept
      <4> QED BY <4>3, <4>4
    <3>6. CASE ~chainOn
      <4>1. raw.kind = "legacy"
        BY <2>1, <3>6 DEF PaidInv, HandInv
      <4>2. raw.kind # "chain" /\ raw # Torn
        BY <3>4, <4>1
      <4>3. GapsKept /\ Tied(files, files') /\ ~EndsTorn(files')
        BY <2>5, <3>1, <3>3, <4>2
      <4>4. Open' => Saved /\ Loose(files', stateFile.hash)
        BY <2>1, <3>6, <4>3 DEF Open, Saved
      <4>5. Open' => Open
        BY <3>6, <4>3, <4>4 DEF Open, Tied
      <4> QED BY <2>2, <2>6, <4>3, <4>5, <1>BooksKept
    <3> QED BY <3>5, <3>6
  <2>7. CASE faults' = faults + 1 /\ files' = files
    <3>1. GapsKept
      BY <2>7, <1>SameBooks
    <3> QED BY <2>2, <2>7, <3>1, <1>BooksKept
  <2>8. CASE faults' = faults + 1 /\ files' = [files EXCEPT ![0] = AppendLine(@, Torn)]
    <3>1. PICK gs : gs = files'
      OBVIOUS
    <3>2. gs = Appended(files, Torn)
      BY <2>8, <3>1 DEF Appended
    <3>3. Torn \in Line /\ Torn.kind # "chain"
      BY LineKinds
    <3>4. ChainOf(gs) = ChainOf(files)
      BY <2>3, <3>2, <3>3, AppendAdds
    <3>5. GapsKept
      BY <2>5, <3>1, <3>4
    <3> QED BY <2>2, <2>8, <3>5, <1>BooksKept
  <2> QED BY <2>6, <2>7, <2>8 DEF AppendRaw, Fault
<1>StopPaid.
      ASSUME PaidInv, TypeOK', Stop \/ LoseState PROVE PaidInv'
  <2> USE <1>StopPaid
  <2>1. files' = files
    BY DEF Stop, LoseState
  <2>2. GapsKept /\ Tied(files, files') /\ (EndsTorn(files') <=> EndsTorn(files))
    BY <2>1, <1>SameBooks
  <2>3. CASE Stop
    <3>1. pc' = "idle" /\ ~chainOn' /\ stateFile' = stateFile
      BY <2>3 DEF Stop
    <3>2. HandInv' /\ ~Blocked' /\ ~Unsaved'
      BY <3>1 DEF HandInv, Blocked, Unsaved
    <3>3. CASE pc = "idle" /\ faults' = faults
      <4>1. Open' => Open
        BY <2>1, <2>2, <3>1, <3>3 DEF Open, Saved
      <4> QED BY <2>2, <3>2, <3>3, <4>1, <1>BooksKept
    <3>4. CASE faults' = faults + 1
      BY <2>2, <3>2, <3>4, <1>BooksKept
    <3> QED BY <2>3, <3>3, <3>4 DEF Stop, Fault
  <2>4. CASE LoseState
    <3>1. /\ stateFile' = ZeroState /\ up' = up /\ chainOn' = chainOn /\ state' = state /\ pc' = pc
          /\ raw' = raw /\ shift' = shift /\ faults' = faults + 1
      BY <2>4 DEF LoseState, Fault, procVars
    <3>2. HandInv'
      BY <3>1 DEF PaidInv, HandInv
    <3>3. Blocked' => Blocked
      BY <2>1, <3>1 DEF Blocked
    <3>4. ~Saved'
      BY <3>1 DEF Saved, ZeroState
    <3>5. Open' => Open
      <4>1. CASE chainOn /\ pc # "idle"
        BY <2>1, <3>1, <4>1 DEF Open
      <4>2. CASE ~(chainOn /\ pc # "idle")
        BY <2>1, <3>1, <3>4, <4>2 DEF Open
      <4> QED BY <4>1, <4>2
    <3> QED BY <2>2, <3>1, <3>2, <3>3, <3>5, <1>BooksKept
  <2> QED BY <2>3, <2>4
<1> SUFFICES ASSUME PaidInv, [Next]_vars PROVE PaidInv'
  OBVIOUS
<1>1. TypeOK'
  BY TypeStep DEF PaidInv
<1>2. CASE UNCHANGED vars
  BY <1>2 DEF vars, PaidInv, TypeOK, HandInv, Ledger, Blocked, Open, Unsaved, Saved, ZeroState
<1>3. CASE \E on \in ChainModes : Start(on)
  BY <1>1, <1>3, <1>StartPaid
<1>4. CASE Write
  BY <1>1, <1>4, <1>WritePaid
<1>5. CASE SaveState
  BY <1>1, <1>5, <1>SaveStatePaid
<1>6. CASE SkipRotation \/ RemoveOldest \/ ShiftBackup \/ RotateCurrent
  BY <1>1, <1>6, <1>RotationPaid
<1>7. CASE AppendRaw
  BY <1>1, <1>7, <1>AppendPaid
<1>8. CASE Stop \/ LoseState
  BY <1>1, <1>8, <1>StopPaid
<1> QED BY <1>2, <1>3, <1>4, <1>5, <1>6, <1>7, <1>8 DEF Next

LEMMA PaidMeansOneBreak ==
  ASSUME Counting
  PROVE  PaidInv => OneBreakPerFault
<1> SUFFICES ASSUME PaidInv PROVE OneBreakPerFault
  OBVIOUS
<1>1. Breaks = Gaps(files)
  BY BreaksAreGaps DEF PaidInv, TypeOK
<1>2. PICK c, b, o, u : c = Cardinality(Gaps(files)) /\ b = Blocked /\ o = Open /\ u = Unsaved
  OBVIOUS
<1>3. c \in Nat /\ Ledger(c, b, o, u, faults)
  BY <1>2, CountType DEF PaidInv
<1>4. faults \in Nat
  BY SMT DEF PaidInv, TypeOK
<1>5. Bit(b) \in Nat /\ Bit(o) \in Nat /\ Bit(u) \in Nat
  BY SMT DEF Bit
<1>6. c <= faults
  BY SMT, <1>3, <1>4, <1>5 DEF Ledger
<1> QED BY <1>1, <1>2, <1>6 DEF OneBreakPerFault

LEMMA PaidFor ==
  ASSUME Counting
  PROVE  Spec => []OneBreakPerFault
<1>1. Init => PaidInv
  BY PaidInit
<1>2. PaidInv /\ [Next]_vars => PaidInv'
  BY PaidStep
<1>3. PaidInv => OneBreakPerFault
  BY PaidMeansOneBreak
<1> QED BY <1>1, <1>2, <1>3, PTL DEF Spec
=============================================================================
