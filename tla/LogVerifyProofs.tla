-------------------------- MODULE LogVerifyProofs --------------------------
(***************************************************************************)
(* What a report of Verify says about the files, at rest and while they    *)
(* grow, for every number of backups, file size, set of failures and       *)
(* number of events.  The last section discharges the hypothesis Counting, *)
(* and with it the result on broken links that EventLogProofs prepares.    *)
(***************************************************************************)
EXTENDS EventLogProofs

\* A leaf that names no prover is left to Zenon.
USE ZenonT(60)
-----------------------------------------------------------------------------
(***************************************************************************)
(* Verify.  Its walks are functions defined by recursion; that there are   *)
(* such functions is an induction on how far the walk has come.            *)
(***************************************************************************)
Walk(A, b, N, st) ==
  \E g \in [0 .. N -> A] : g[0] = b /\ \A k \in 1 .. N : g[k] = st[k][g[k - 1]]

LEMMA Recursion ==
  ASSUME NEW A, NEW b \in A, NEW N \in Nat, NEW st \in [1 .. N -> [A -> A]]
  PROVE  Walk(A, b, N, st)
<1> DEFINE Q(n) == \E g \in [0 .. n -> A] :
                     g[0] = b /\ \A k \in 1 .. n : g[k] = st[k][g[k - 1]]
           Bad == {n \in Nat : n <= N /\ ~Q(n)}
<1>1. Q(0)
  <2> DEFINE g == [k \in 0 .. 0 |-> b]
  <2>1. g \in [0 .. 0 -> A] /\ g[0] = b /\ \A k \in 1 .. 0 : g[k] = st[k][g[k - 1]]
    BY SMT
  <2> QED BY <2>1
<1>2. ASSUME NEW n \in Nat, n # 0, n <= N, Q(n - 1) PROVE Q(n)
  <2>1. PICK g \in [0 .. n - 1 -> A] :
          g[0] = b /\ \A k \in 1 .. n - 1 : g[k] = st[k][g[k - 1]]
    BY <1>2
  <2>2. n \in 1 .. N /\ n - 1 \in 0 .. n - 1
    BY SMT, <1>2
  <2>3. st[n][g[n - 1]] \in A
    BY <2>1, <2>2
  <2> DEFINE h == [k \in 0 .. n |-> IF k < n THEN g[k] ELSE st[n][g[n - 1]]]
  <2>4. h \in [0 .. n -> A]
    <3> SUFFICES ASSUME NEW k \in 0 .. n, k < n PROVE g[k] \in A
      BY <2>3
    <3>1. k \in 0 .. n - 1
      BY SMT, <1>2
    <3> QED BY <3>1, <2>1
  <2>5. h[0] = b
    BY SMT, <1>2, <2>1
  <2>6. ASSUME NEW k \in 1 .. n PROVE h[k] = st[k][h[k - 1]]
    <3>1. k \in 0 .. n /\ k - 1 \in 0 .. n /\ k - 1 < n
      BY SMT, <1>2
    <3>2. h[k - 1] = g[k - 1]
      BY <3>1
    <3>3. CASE k < n
      <4>1. k \in 1 .. n - 1
        BY SMT, <1>2, <3>3
      <4> QED BY <2>1, <3>1, <3>2, <3>3, <4>1
    <3>4. CASE ~(k < n)
      <4>1. k = n
        BY SMT, <1>2, <3>4
      <4> QED BY <3>1, <3>2, <3>4, <4>1
    <3> QED BY <3>3, <3>4
  <2> HIDE DEF h
  <2> QED BY <2>4, <2>5, <2>6
<1> HIDE DEF Q
<1>3. Bad = {}
  <2> SUFFICES ASSUME Bad # {} PROVE FALSE
    BY SMT
  <2>1. Bad \in SUBSET Nat
    OBVIOUS
  <2>2. PICK n \in Bad : \A m \in Bad : n <= m
    BY <2>1, MinExists
  <2>3. n \in Nat /\ n <= N /\ ~Q(n) /\ n # 0
    BY <1>1, <2>2
  <2>4. n - 1 \in Nat /\ n - 1 <= N /\ ~(n <= n - 1)
    BY SMT, <2>3
  <2>5. n - 1 \notin Bad
    BY <2>2, <2>4
  <2>6. Q(n - 1)
    BY <2>4, <2>5
  <2> QED BY <1>2, <2>3, <2>6
<1>4. N <= N
  BY SMT
<1>5. Q(N)
  BY <1>3, <1>4
<1> QED BY <1>5 DEF Q, Walk

\* What a step of a walk keeps, the walk keeps.
LEMMA WalkKeeps ==
  ASSUME NEW N \in Nat, NEW S \in SUBSET (0 .. N), 0 \in S,
         \A k \in 1 .. N : k - 1 \in S => k \in S
  PROVE  \A k \in 0 .. N : k \in S
<1> SUFFICES ASSUME (0 .. N) \ S # {} PROVE FALSE
  OBVIOUS
<1>1. (0 .. N) \ S \in SUBSET Nat
  BY SMT
<1>2. PICK k \in (0 .. N) \ S : \A m \in (0 .. N) \ S : k <= m
  BY <1>1, MinExists
<1>3. k # 0 /\ k \in 0 .. N
  BY <1>2
<1>4. k \in 1 .. N /\ k - 1 \in 0 .. N /\ ~(k <= k - 1)
  BY SMT, <1>3
<1>5. k - 1 \in S
  BY <1>2, <1>4
<1> QED BY <1>2, <1>4, <1>5

\* What a step of a walk never takes back, is not there before its end either.
LEMMA WalkGoesBack ==
  ASSUME NEW N \in Nat, NEW S \in SUBSET (0 .. N), N \in S,
         \A k \in 1 .. N : k \in S => k - 1 \in S
  PROVE  \A k \in 0 .. N : k \in S
<1> DEFINE T == {k \in 0 .. N : N - k \in S}
<1>1. 0 \in T /\ T \in SUBSET (0 .. N)
  BY SMT
<1>2. ASSUME NEW k \in 1 .. N, k - 1 \in T PROVE k \in T
  <2>1. N - (k - 1) \in S
    BY <1>2
  <2>2. N - (k - 1) \in 1 .. N /\ (N - (k - 1)) - 1 = N - k /\ k \in 0 .. N
    BY SMT
  <2>3. (N - (k - 1)) - 1 \in S
    BY <2>1, <2>2
  <2> QED BY <2>2, <2>3
<1> HIDE DEF T
<1>3. \A k \in 0 .. N : k \in T
  BY <1>1, <1>2, WalkKeeps
<1> SUFFICES ASSUME NEW k \in 0 .. N PROVE k \in S
  BY SMT
<1>4. N - k \in 0 .. N /\ N - (N - k) = k
  BY SMT
<1> QED BY <1>3, <1>4 DEF T

\* What verifyOneFile carries from line to line.
Issue == [line : Nat, kind : {"prev_hash_break", "hash_mismatch", "malformed"}]
Acc == [prevHash : Digest, lastSeq : Nat, line : Nat, issues : SUBSET Issue]

LEMMA FreshAcc == Fresh \in Acc /\ Fresh.prevHash = << >> /\ Fresh.issues = {}
BY SMT DEF Fresh, Acc, Digest

LEMMA ReportShape ==
  ASSUME NEW a \in Acc, NEW n \in Nat,
         NEW kinds \in SUBSET {"prev_hash_break", "hash_mismatch", "malformed"}
  PROVE  /\ Report(a, n, kinds) \in Acc
         /\ a.issues \subseteq Report(a, n, kinds).issues
         /\ Report(a, n, kinds).issues = {} => kinds = {}
         /\ Report(a, n, kinds).prevHash = a.prevHash
         /\ Report(a, n, kinds).line = a.line
<1> DEFINE new == {[line |-> n, kind |-> k] : k \in kinds}
<1>1. a.prevHash \in Digest /\ a.lastSeq \in Nat /\ a.line \in Nat /\ a.issues \in SUBSET Issue
  BY DEF Acc
<1>2. new \in SUBSET Issue
  BY SMT DEF Issue
<1>3. kinds # {} => new # {}
  OBVIOUS
<1> HIDE DEF new
<1>4. Report(a, n, kinds) = [prevHash |-> a.prevHash, lastSeq |-> a.lastSeq, line |-> a.line,
                              issues |-> a.issues \cup new]
  BY SMT DEF Report, new, Acc
<1> QED BY SMT, <1>1, <1>2, <1>3, <1>4 DEF Acc

LEMMA LineClean ==
  ASSUME NEW l, NEW h
  PROVE  /\ LineIssues(l, h) \in SUBSET {"prev_hash_break", "hash_mismatch", "malformed"}
         /\ LineIssues(l, h) = {} <=> l.prevHash = h /\ l.hash = Append(h, PayloadOf(l))
BY DEF LineIssues, RecomputeHash

\* A legacy line leaves the hash; a chain line without issues extends it.
LEMMA VerifyLineShape ==
  ASSUME NEW a \in Acc, NEW l \in Line, Readable(l)
  PROVE  /\ VerifyLine(a, l) \in Acc
         /\ VerifyLine(a, l).line = a.line + 1
         /\ a.issues \subseteq VerifyLine(a, l).issues
         /\ l.kind = "legacy" => VerifyLine(a, l).prevHash = a.prevHash
         /\ l.kind = "chain" =>
              /\ VerifyLine(a, l).prevHash = l.hash
              /\ VerifyLine(a, l).issues = {} =>
                   l.prevHash = a.prevHash /\ l.hash = Append(a.prevHash, PayloadOf(l))
<1> DEFINE here == [a EXCEPT !.line = @ + 1]
           issues == LineIssues(l, a.prevHash)
           r == Report(here, here.line, issues)
<1>1. a.prevHash \in Digest /\ a.lastSeq \in Nat /\ a.line \in Nat /\ a.issues \in SUBSET Issue
  BY DEF Acc
<1>2. here = [prevHash |-> a.prevHash, lastSeq |-> a.lastSeq, line |-> a.line + 1, issues |-> a.issues]
  BY SMT DEF Acc
<1>3. /\ here \in Acc /\ here.line = a.line + 1 /\ here.line \in Nat
      /\ here.prevHash = a.prevHash /\ here.issues = a.issues
  BY SMT, <1>1, <1>2 DEF Acc
<1>4. CASE l.kind = "legacy"
  <2>1. VerifyLine(a, l) = here
    BY <1>4 DEF VerifyLine
  <2>2. l.kind # "chain"
    BY <1>4
  <2> HIDE DEF here
  <2> QED BY <1>3, <1>4, <2>1, <2>2
<1>5. CASE l.kind = "chain"
  <2>1. l \in ChainLine /\ l.kind # "legacy"
    BY <1>5, LineKinds
  <2>2. l.hash \in Digest /\ l.seq \in Nat
    BY <2>1, ChainLineFields
  <2>3. VerifyLine(a, l) = [r EXCEPT !.prevHash = l.hash, !.lastSeq = l.seq]
    BY <2>1 DEF VerifyLine
  <2>0. issues \in SUBSET {"prev_hash_break", "hash_mismatch", "malformed"}
    BY LineClean
  <2> HIDE DEF here, issues
  <2>4. /\ r \in Acc /\ a.issues \subseteq r.issues /\ r.line = a.line + 1
        /\ r.issues = {} => issues = {}
    BY <1>3, <2>0, ReportShape
  <2> HIDE DEF r
  <2>5. VerifyLine(a, l) = [prevHash |-> l.hash, lastSeq |-> l.seq, line |-> r.line, issues |-> r.issues]
    BY <2>3, <2>4 DEF Acc
  <2>6. r.line \in Nat /\ r.issues \in SUBSET Issue
    BY <2>4 DEF Acc
  <2>7. /\ VerifyLine(a, l) \in Acc /\ VerifyLine(a, l).prevHash = l.hash
        /\ VerifyLine(a, l).issues = r.issues /\ VerifyLine(a, l).line = r.line
    BY SMT, <2>2, <2>5, <2>6 DEF Acc
  <2>8. issues = {} => l.prevHash = a.prevHash /\ l.hash = Append(a.prevHash, PayloadOf(l))
    BY LineClean DEF issues
  <2> QED BY <2>1, <2>4, <2>7, <2>8
<1> QED BY <1>4, <1>5 DEF Readable

\* The recursion of verifyOneFile's loop.
LEMMA ReplayLinesShape ==
  ASSUME NEW a \in Acc, NEW f \in Seq(Line), NEW last \in Nat, last <= Len(f),
         \A i \in 1 .. last : Readable(f[i])
  PROVE  /\ ReplayLines(a, f, last) \in [0 .. last -> Acc]
         /\ ReplayLines(a, f, last)[0] = a
         /\ \A k \in 1 .. last : ReplayLines(a, f, last)[k] = VerifyLine(ReplayLines(a, f, last)[k - 1], f[k])
<1> DEFINE st == [k \in 1 .. last |-> [x \in Acc |-> VerifyLine(x, f[k])]]
           P(w) == w = [k \in 0 .. last |-> IF k = 0 THEN a ELSE VerifyLine(w[k - 1], f[k])]
           W == ReplayLines(a, f, last)
<1>1. \A k \in 1 .. last : f[k] \in Line
  BY SMT
<1>2. st \in [1 .. last -> [Acc -> Acc]]
  BY <1>1, VerifyLineShape
<1>3. \A k \in 1 .. last, x \in Acc : st[k][x] = VerifyLine(x, f[k])
  OBVIOUS
<1> HIDE DEF st
<1>4. PICK g \in [0 .. last -> Acc] : g[0] = a /\ \A k \in 1 .. last : g[k] = st[k][g[k - 1]]
  <2>1. Walk(Acc, a, last, st)
    BY <1>2, Recursion
  <2> QED BY <2>1 DEF Walk
<1>5. /\ \A k \in 1 .. last : k - 1 \in 0 .. last /\ k \in 0 .. last /\ k # 0
      /\ \A k \in 0 .. last : k # 0 => k \in 1 .. last
      /\ 0 \in 0 .. last
  BY SMT
<1>6. \A k \in 1 .. last : g[k] = VerifyLine(g[k - 1], f[k])
  BY <1>3, <1>4, <1>5
<1>7. P(g)
  <2>1. \A k \in 0 .. last : g[k] = IF k = 0 THEN a ELSE VerifyLine(g[k - 1], f[k])
    BY <1>4, <1>5, <1>6
  <2> QED BY <1>4, <2>1
<1>8. W = CHOOSE w : P(w)
  BY DEF ReplayLines
<1>9. P(W)
  BY <1>7, <1>8
<1>10. /\ DOMAIN W = 0 .. last /\ W[0] = a
       /\ \A k \in 1 .. last : W[k] = VerifyLine(W[k - 1], f[k])
  <2> HIDE DEF W
  <2> QED BY <1>5, <1>9
<1> DEFINE S == {k \in 0 .. last : W[k] \in Acc}
<1>11. 0 \in S /\ S \in SUBSET (0 .. last)
  BY <1>5, <1>10
<1>12. ASSUME NEW k \in 1 .. last, k - 1 \in S PROVE k \in S
  BY <1>1, <1>5, <1>10, <1>12, VerifyLineShape
<1>13. \A k \in 0 .. last : k \in S
  <2> HIDE DEF S
  <2> QED BY <1>11, <1>12, WalkKeeps
<1>14. \A k \in 0 .. last : W[k] \in Acc
  BY <1>13
<1>15. W = [k \in 0 .. last |-> W[k]]
  BY <1>9
<1> HIDE DEF W
<1>16. W \in [0 .. last -> Acc]
  BY <1>14, <1>15
<1> QED BY <1>10, <1>16 DEF W

\* The lines of f, read with h in hand, extend it by their hashes one by one.
Replays(f, h, w) ==
  /\ w[0] = h
  /\ \A k \in 1 .. Len(f) :
       /\ Readable(f[k])
       /\ f[k].kind = "legacy" => w[k] = w[k - 1]
       /\ f[k].kind = "chain" =>
            w[k] = f[k].hash /\ f[k].prevHash = w[k - 1] /\ f[k].hash = Append(w[k - 1], PayloadOf(f[k]))

LEMMA MinIsLeast ==
  ASSUME NEW S \in SUBSET Nat, S # {}
  PROVE  Min(S) \in S /\ \A x \in S : Min(S) <= x
BY MinExists DEF Min

\* A file without issues has only readable lines, and replays.
LEMMA FileReplays ==
  ASSUME NEW a \in Acc, NEW f \in Seq(Line)
  PROVE  /\ VerifyOneFile(a, f) \in Acc
         /\ a.issues \subseteq VerifyOneFile(a, f).issues
         /\ VerifyOneFile(a, f).issues = {} =>
              \E w \in [0 .. Len(f) -> Digest] :
                Replays(f, a.prevHash, w) /\ w[Len(f)] = VerifyOneFile(a, f).prevHash
<1> DEFINE bad == {i \in DOMAIN f : Malformed(f[i])}
           last == IF bad = {} THEN Len(f) ELSE Min(bad) - 1
           W == ReplayLines(a, f, last)
<1>1. Len(f) \in Nat /\ DOMAIN f = 1 .. Len(f) /\ \A k \in 1 .. Len(f) : f[k] \in Line
  BY SMT
<1>2. last \in Nat /\ last <= Len(f) /\ \A i \in 1 .. last : Readable(f[i])
  <2>1. CASE bad = {}
    <3>1. last = Len(f)
      BY <2>1
    <3>2. \A i \in 1 .. Len(f) : Readable(f[i])
      BY <1>1, <2>1 DEF Malformed
    <3> HIDE DEF last
    <3>3. last \in Nat /\ last <= Len(f)
      BY SMT, <1>1, <3>1
    <3> QED BY <3>1, <3>2, <3>3
  <2>2. CASE bad # {}
    <3>1. bad \in SUBSET Nat
      BY SMT, <1>1
    <3>2. Min(bad) \in bad /\ \A x \in bad : Min(bad) <= x
      BY <2>2, <3>1, MinIsLeast
    <3>3. Min(bad) \in 1 .. Len(f)
      BY <1>1, <3>2
    <3>4. last = Min(bad) - 1
      BY <2>2
    <3>5. ASSUME NEW i \in 1 .. last PROVE Readable(f[i])
      <4>1. i \in 1 .. Len(f) /\ ~(Min(bad) <= i)
        BY SMT, <1>1, <3>3, <3>4
      <4>2. i \notin bad
        BY <3>2, <4>1
      <4> QED BY <1>1, <4>1, <4>2 DEF Malformed
    <3> HIDE DEF bad, last
    <3>6. last \in Nat /\ last <= Len(f)
      BY SMT, <1>1, <3>3, <3>4
    <3> QED BY <3>5, <3>6
  <2> QED BY <2>1, <2>2
<1> HIDE DEF last
<1>3. /\ W \in [0 .. last -> Acc] /\ W[0] = a
      /\ \A k \in 1 .. last : W[k] = VerifyLine(W[k - 1], f[k])
  BY <1>2, ReplayLinesShape
<1>4. /\ \A k \in 1 .. last : k - 1 \in 0 .. last /\ k \in 0 .. last /\ k \in 1 .. Len(f)
      /\ 0 \in 0 .. last /\ last \in 0 .. last
  BY SMT, <1>1, <1>2
<1>5. \A k \in 1 .. last : f[k] \in Line /\ Readable(f[k]) /\ W[k - 1] \in Acc /\ W[k] \in Acc
  BY <1>1, <1>2, <1>3, <1>4
<1>6. VerifyOneFile(a, f) = IF bad = {} THEN W[last] ELSE Report(W[last], W[last].line + 1, {"malformed"})
  BY DEF VerifyOneFile, last
<1> HIDE DEF W
<1>7. \A k \in 1 .. last : W[k - 1].issues \subseteq W[k].issues
  BY <1>3, <1>5, VerifyLineShape
<1>8. a.issues \subseteq W[last].issues
  <2> DEFINE S == {k \in 0 .. last : a.issues \subseteq W[k].issues}
  <2>1. 0 \in S /\ S \in SUBSET (0 .. last)
    BY <1>3, <1>4
  <2>2. \A k \in 1 .. last : k - 1 \in S => k \in S
    BY <1>4, <1>7
  <2> HIDE DEF S
  <2>3. \A k \in 0 .. last : k \in S
    BY <1>2, <2>1, <2>2, WalkKeeps
  <2> QED BY <1>4, <2>3 DEF S
<1>9. W[last] \in Acc
  BY <1>3, <1>4
<1>10. CASE bad # {}
  <2>1. W[last].line + 1 \in Nat
    <3>1. W[last].line \in Nat
      BY <1>9 DEF Acc
    <3> QED BY SMT, <3>1
  <2> DEFINE n == W[last].line + 1
             kinds == {"malformed"}
  <2>2. kinds \in SUBSET {"prev_hash_break", "hash_mismatch", "malformed"} /\ kinds # {}
    OBVIOUS
  <2>3. VerifyOneFile(a, f) = Report(W[last], n, kinds)
    BY <1>6, <1>10
  <2> HIDE DEF n, kinds, bad
  <2>4. n \in Nat
    BY <2>1 DEF n
  <2> QED BY <1>8, <1>9, <2>2, <2>3, <2>4, ReportShape
<1>11. CASE bad = {}
  <2>1. VerifyOneFile(a, f) = W[last] /\ last = Len(f)
    BY <1>6, <1>11 DEF last
  <2> SUFFICES ASSUME W[last].issues = {}
               PROVE  \E w \in [0 .. Len(f) -> Digest] :
                        Replays(f, a.prevHash, w) /\ w[Len(f)] = W[last].prevHash
    BY <1>8, <1>9, <2>1
  <2> DEFINE S == {k \in 0 .. last : W[k].issues = {}}
             w == [k \in 0 .. last |-> W[k].prevHash]
  <2>2. last \in S /\ S \in SUBSET (0 .. last)
    BY <1>4
  <2>3. ASSUME NEW k \in 1 .. last, k \in S PROVE k - 1 \in S
    <3>1. W[k].issues = {} /\ W[k - 1].issues \subseteq W[k].issues /\ k - 1 \in 0 .. last
      BY <1>4, <1>7, <2>3
    <3>2. W[k - 1].issues = {}
      BY <3>1
    <3> QED BY <3>1, <3>2
  <2> HIDE DEF S
  <2>4. \A k \in 0 .. last : k \in S
    BY <1>2, <2>2, <2>3, WalkGoesBack
  <2>5. w \in [0 .. last -> Digest]
    BY <1>3 DEF Acc
  <2>6. /\ w[0] = a.prevHash /\ w[last] = W[last].prevHash
        /\ \A k \in 1 .. last : w[k] = W[k].prevHash /\ w[k - 1] = W[k - 1].prevHash
    BY <1>3, <1>4
  <2> HIDE DEF w
  <2>7. \A k \in 1 .. last : W[k].issues = {}
    BY <1>4, <2>4 DEF S
  <2>8. ASSUME NEW k \in 1 .. last
        PROVE  /\ Readable(f[k])
               /\ f[k].kind = "legacy" => w[k] = w[k - 1]
               /\ f[k].kind = "chain" =>
                    /\ w[k] = f[k].hash
                    /\ f[k].prevHash = w[k - 1]
                    /\ f[k].hash = Append(w[k - 1], PayloadOf(f[k]))
    <3>1. f[k] \in Line /\ Readable(f[k]) /\ W[k - 1] \in Acc /\ W[k] = VerifyLine(W[k - 1], f[k])
      BY <1>3, <1>5
    <3>2. W[k].issues = {} /\ w[k] = W[k].prevHash /\ w[k - 1] = W[k - 1].prevHash
      BY <2>6, <2>7
    <3> DEFINE x == W[k - 1]
               l == f[k]
    <3>3. /\ x \in Acc /\ l \in Line /\ Readable(l) /\ W[k] = VerifyLine(x, l)
          /\ x.prevHash = w[k - 1]
      BY <3>1, <3>2
    <3>4. f[k] = l
      BY SMT
    <3> HIDE DEF x, l
    <3>5. VerifyLine(x, l).issues = {}
      BY <3>2, <3>3
    <3>6. /\ l.kind = "legacy" => VerifyLine(x, l).prevHash = x.prevHash
          /\ l.kind = "chain" => VerifyLine(x, l).prevHash = l.hash
      BY <3>3, VerifyLineShape
    <3>7. l.kind = "chain" => l.prevHash = x.prevHash /\ l.hash = Append(x.prevHash, PayloadOf(l))
      BY <3>3, <3>5, VerifyLineShape
    <3> QED BY <3>2, <3>3, <3>4, <3>6, <3>7
  <2>9. Replays(f, a.prevHash, w)
    BY <2>1, <2>6, <2>8 DEF Replays
  <2> QED BY <2>1, <2>5, <2>6, <2>9
<1> QED BY <1>10, <1>11

Descends(s, n) == \A i, j \in 1 .. n : i < j => s[i] > s[j]

\* rotatedFiles, in this state.
LEMMA RotatedFilesShape ==
  /\ RotatedFiles \in Seq(FileNo)
  /\ \A f \in FileNo : files[f] # << >> => \E i \in DOMAIN RotatedFiles : RotatedFiles[i] = f
  /\ \A i \in DOMAIN RotatedFiles : files[RotatedFiles[i]] # << >>
  /\ \A i, j \in DOMAIN RotatedFiles : i < j => RotatedFiles[i] > RotatedFiles[j]
\* rotatedFiles lists every file that exists, in the order of the suffixes.
<1>ExistingOfShape.
      ASSUME NEW s \in [1 .. MaxBackups + 1 -> FileNo],
             Descends(s, MaxBackups + 1)
      PROVE  LET names == ExistingOf(s)
             IN  \A k \in 0 .. MaxBackups + 1 :
                   /\ names[k] \in Seq(FileNo)
                   /\ \A j \in 1 .. k : files[s[j]] # << >> => \E i \in DOMAIN names[k] : names[k][i] = s[j]
                   /\ \A i \in DOMAIN names[k] : \E j \in 1 .. k : names[k][i] = s[j] /\ files[s[j]] # << >>
                   /\ \A i, j \in DOMAIN names[k] : i < j => names[k][i] > names[k][j]
  <2> USE <1>ExistingOfShape
  <2> DEFINE N == MaxBackups + 1
             Step(x, k) == IF files[s[k]] = << >> THEN x ELSE Append(x, s[k])
             st == [k \in 1 .. N |-> [x \in Seq(FileNo) |-> Step(x, k)]]
             P(w) == w = [k \in 0 .. N |-> IF k = 0 THEN << >>
                                           ELSE IF files[s[k]] = << >> THEN w[k - 1] ELSE Append(w[k - 1], s[k])]
             W == ExistingOf(s)
  <2>0. N \in Nat
    BY SMT, LogAssumption
  <2>1. ASSUME NEW x \in Seq(FileNo), NEW k \in 1 .. N
        PROVE  /\ Step(x, k) \in Seq(FileNo)
               /\ \A i \in DOMAIN x : i \in DOMAIN Step(x, k) /\ Step(x, k)[i] = x[i]
               /\ files[s[k]] # << >> => \E i \in DOMAIN Step(x, k) : Step(x, k)[i] = s[k]
               /\ \A i \in DOMAIN Step(x, k) :
                    \/ i \in DOMAIN x /\ Step(x, k)[i] = x[i]
                    \/ Step(x, k)[i] = s[k] /\ files[s[k]] # << >> /\ \A j \in DOMAIN Step(x, k) : ~(i < j)
    <3>1. CASE files[s[k]] = << >>
      BY <2>1, <3>1
    <3>2. CASE files[s[k]] # << >>
      <4>1. Step(x, k) = Append(x, s[k]) /\ s[k] \in FileNo
        BY <2>1, <3>2
      <4> DEFINE e == s[k]
      <4> HIDE DEF e
      <4>2. /\ Append(x, e) \in Seq(FileNo)
            /\ \A i \in DOMAIN x : i \in DOMAIN Append(x, e) /\ Append(x, e)[i] = x[i]
            /\ Len(x) + 1 \in DOMAIN Append(x, e) /\ Append(x, e)[Len(x) + 1] = e
            /\ \A i \in DOMAIN Append(x, e) :
                 (i \in DOMAIN x) \/ (i = Len(x) + 1 /\ \A j \in DOMAIN Append(x, e) : ~(i < j))
        <5>1. e \in FileNo
          BY <4>1 DEF e
        <5> QED BY SMT, <2>1, <5>1
      <4> HIDE DEF Step
      <4> QED BY <3>2, <4>1, <4>2 DEF e
    <3> QED BY <3>1, <3>2
  <2>2. st \in [1 .. N -> [Seq(FileNo) -> Seq(FileNo)]]
    <3> HIDE DEF Step, N
    <3> QED BY <2>1
  <2>3. \A k \in 1 .. N, x \in Seq(FileNo) : st[k][x] = Step(x, k)
    OBVIOUS
  <2>4. << >> \in Seq(FileNo)
    BY SMT
  <2> HIDE DEF st, N
  <2> DEFINE none == << >>
  <2>5. PICK g \in [0 .. N -> Seq(FileNo)] : g[0] = none /\ \A k \in 1 .. N : g[k] = st[k][g[k - 1]]
    <3> HIDE DEF none
    <3>0. none \in Seq(FileNo)
      BY <2>4 DEF none
    <3> DEFINE A == Seq(FileNo)
    <3> HIDE DEF A
    <3>1. Walk(A, none, N, st)
      <4>1. none \in A /\ st \in [1 .. N -> [A -> A]]
        BY <2>2, <3>0 DEF A
      <4> QED BY <2>0, <4>1, Recursion
    <3> QED BY <3>1 DEF Walk, A
  <2>6. /\ \A k \in 1 .. N : k - 1 \in 0 .. N /\ k \in 0 .. N /\ k # 0
        /\ \A k \in 0 .. N : k # 0 => k \in 1 .. N
        /\ 0 \in 0 .. N
        /\ \A k \in 1 .. N : k \in 1 .. k /\ \A j \in 1 .. k : j = k \/ j \in 1 .. k - 1
        /\ \A k \in 1 .. N : \A j \in 1 .. k - 1 : j \in 1 .. k /\ j \in 1 .. N /\ j < k
        /\ ~ \E j \in 1 .. 0 : TRUE
    BY SMT, <2>0
  <2>7. \A k \in 1 .. N : g[k] = Step(g[k - 1], k)
    <3> HIDE DEF Step
    <3> QED BY <2>3, <2>5, <2>6
  <2>8. P(g)
    <3>1. \A k \in 0 .. N : g[k] = IF k = 0 THEN << >>
                                   ELSE IF files[s[k]] = << >> THEN g[k - 1] ELSE Append(g[k - 1], s[k])
      BY <2>5, <2>6, <2>7
    <3> QED BY <2>5, <3>1
  <2>9. W = CHOOSE w : P(w)
    BY DEF ExistingOf, N
  <2>10. P(W)
    BY <2>8, <2>9
  <2> HIDE DEF W
  <2>11. W[0] = << >> /\ \A k \in 1 .. N : W[k] = Step(W[k - 1], k)
    BY <2>6, <2>10
  <2> DEFINE Good(k) == /\ W[k] \in Seq(FileNo)
                        /\ \A j \in 1 .. k : files[s[j]] # << >> => \E i \in DOMAIN W[k] : W[k][i] = s[j]
                        /\ \A i \in DOMAIN W[k] : \E j \in 1 .. k : W[k][i] = s[j] /\ files[s[j]] # << >>
                        /\ \A i, j \in DOMAIN W[k] : i < j => W[k][i] > W[k][j]
             S == {k \in 0 .. N : Good(k)}
  <2>12. 0 \in S /\ S \in SUBSET (0 .. N)
    <3>1. ~ \E i \in DOMAIN << >> : TRUE
      BY SMT
    <3> QED BY <2>4, <2>6, <2>11, <3>1
  <2>13. ASSUME NEW k \in 1 .. N, k - 1 \in S PROVE k \in S
    <3> HIDE DEF Step
    <3>1. W[k - 1] \in Seq(FileNo) /\ W[k] = Step(W[k - 1], k)
      BY <2>11, <2>13
    <3>2. /\ W[k] \in Seq(FileNo)
          /\ \A i \in DOMAIN W[k - 1] : i \in DOMAIN W[k] /\ W[k][i] = W[k - 1][i]
          /\ files[s[k]] # << >> => \E i \in DOMAIN W[k] : W[k][i] = s[k]
          /\ \A i \in DOMAIN W[k] :
               \/ i \in DOMAIN W[k - 1] /\ W[k][i] = W[k - 1][i]
               \/ W[k][i] = s[k] /\ files[s[k]] # << >> /\ \A j \in DOMAIN W[k] : ~(i < j)
      <4> DEFINE x == W[k - 1]
                 y == Step(x, k)
      <4>1. x \in Seq(FileNo) /\ W[k] = y /\ W[k - 1] = x
        BY <3>1
      <4> HIDE DEF x
      <4>2. /\ y \in Seq(FileNo)
            /\ \A i \in DOMAIN x : i \in DOMAIN y /\ y[i] = x[i]
            /\ files[s[k]] # << >> => \E i \in DOMAIN y : y[i] = s[k]
            /\ \A i \in DOMAIN y : \/ i \in DOMAIN x /\ y[i] = x[i]
                                   \/ y[i] = s[k] /\ files[s[k]] # << >> /\ \A j \in DOMAIN y : ~(i < j)
        BY <2>1, <4>1
      <4> HIDE DEF y
      <4> QED BY <4>1, <4>2
    <3>3. ASSUME NEW j \in 1 .. k, files[s[j]] # << >> PROVE \E i \in DOMAIN W[k] : W[k][i] = s[j]
      <4>1. CASE j = k
        BY <3>2, <3>3, <4>1
      <4>2. CASE j \in 1 .. k - 1
        <5>1. PICK i \in DOMAIN W[k - 1] : W[k - 1][i] = s[j]
          BY <2>13, <3>3, <4>2
        <5> QED BY <3>2, <5>1
      <4> QED BY <2>6, <4>1, <4>2
    <3>4. ASSUME NEW i \in DOMAIN W[k] PROVE \E j \in 1 .. k : W[k][i] = s[j] /\ files[s[j]] # << >>
      <4>1. CASE W[k][i] = s[k] /\ files[s[k]] # << >>
        BY <2>6, <4>1
      <4>2. CASE i \in DOMAIN W[k - 1] /\ W[k][i] = W[k - 1][i]
        <5>1. PICK j \in 1 .. k - 1 : W[k - 1][i] = s[j] /\ files[s[j]] # << >>
          BY <2>13, <4>2
        <5> QED BY <2>6, <4>2, <5>1
      <4> QED BY <3>2, <4>1, <4>2
    <3>5. ASSUME NEW i \in DOMAIN W[k], NEW j \in DOMAIN W[k], i < j PROVE W[k][i] > W[k][j]
      <4>1. i \in DOMAIN W[k - 1] /\ W[k][i] = W[k - 1][i]
        BY <3>2, <3>5
      <4>2. CASE j \in DOMAIN W[k - 1] /\ W[k][j] = W[k - 1][j]
        BY <2>13, <3>5, <4>1, <4>2
      <4>3. CASE W[k][j] = s[k]
        <5>1. PICK n \in 1 .. k - 1 : W[k - 1][i] = s[n]
          BY <2>13, <4>1
        <5>2. n \in 1 .. N /\ n < k
          BY <2>6
        <5>3. s[n] > s[k]
          BY <5>2 DEF N, Descends
        <5> QED BY <4>1, <4>3, <5>1, <5>3
      <4> QED BY <3>2, <4>2, <4>3
    <3> QED BY <2>6, <3>2, <3>3, <3>4, <3>5
  <2>14. \A k \in 0 .. N : k \in S
    <3> HIDE DEF S
    <3> QED BY <2>0, <2>12, <2>13, WalkKeeps
  <2> QED BY <2>14 DEF W, N
<1> DEFINE N == MaxBackups + 1
           s == [k \in 1 .. MaxBackups + 1 |-> MaxBackups + 1 - k]
<1>1. N \in Nat /\ N \in 0 .. N
  BY SMT, LogAssumption
<1>2. /\ s \in [1 .. MaxBackups + 1 -> FileNo]
      /\ Descends(s, MaxBackups + 1)
  BY SMT, LogAssumption DEF FileNo, Descends
<1>3. \A f \in FileNo : N - f \in 1 .. N /\ s[N - f] = f
  BY SMT, LogAssumption DEF FileNo
<1> HIDE DEF s
<1>4. RotatedFiles = ExistingOf(s)[N]
  BY DEF RotatedFiles, s
<1> DEFINE r == ExistingOf(s)[N]
<1>5. /\ r \in Seq(FileNo)
      /\ \A j \in 1 .. N : files[s[j]] # << >> => \E i \in DOMAIN r : r[i] = s[j]
      /\ \A i \in DOMAIN r : \E j \in 1 .. N : r[i] = s[j] /\ files[s[j]] # << >>
      /\ \A i, j \in DOMAIN r : i < j => r[i] > r[j]
  BY <1>1, <1>2, <1>ExistingOfShape
<1> HIDE DEF r
<1>6. ASSUME NEW f \in FileNo, files[f] # << >> PROVE \E i \in DOMAIN r : r[i] = f
  <2>1. N - f \in 1 .. N /\ s[N - f] = f
    BY <1>3
  <2>2. \A j \in 1 .. N : files[s[j]] # << >> => \E i \in DOMAIN r : r[i] = s[j]
    BY <1>5
  <2>3. files[s[N - f]] # << >>
    BY <1>6, <2>1
  <2> HIDE DEF N
  <2> QED BY <2>1, <2>2, <2>3
<1>7. RotatedFiles = r
  BY <1>4 DEF r
<1>8. \A i \in DOMAIN r : files[r[i]] # << >>
  BY <1>5
<1> QED BY <1>5, <1>6, <1>7, <1>8

\* The recursion of Verify's loop.
LEMMA ReplayFilesShape ==
  ASSUME files \in [FileNo -> Seq(Line)], NEW order \in Seq(FileNo)
  PROVE  /\ ReplayFiles(order) \in [0 .. Len(order) -> Acc]
         /\ ReplayFiles(order)[0] = Fresh
         /\ \A k \in 1 .. Len(order) :
              ReplayFiles(order)[k] = VerifyOneFile(ReplayFiles(order)[k - 1], files[order[k]])
<1> DEFINE N == Len(order)
           st == [k \in 1 .. N |-> [x \in Acc |-> VerifyOneFile(x, files[order[k]])]]
           P(w) == w = [k \in 0 .. N |-> IF k = 0 THEN Fresh ELSE VerifyOneFile(w[k - 1], files[order[k]])]
           W == ReplayFiles(order)
<1>0. N \in Nat
  BY SMT
<1>1. \A k \in 1 .. N : files[order[k]] \in Seq(Line)
  BY SMT
<1> HIDE DEF N
<1>2. st \in [1 .. N -> [Acc -> Acc]]
  BY <1>1, FileReplays
<1>3. \A k \in 1 .. N, x \in Acc : st[k][x] = VerifyOneFile(x, files[order[k]])
  OBVIOUS
<1> HIDE DEF st
<1>4. PICK g \in [0 .. N -> Acc] : g[0] = Fresh /\ \A k \in 1 .. N : g[k] = st[k][g[k - 1]]
  <2>1. Walk(Acc, Fresh, N, st)
    BY <1>0, <1>2, FreshAcc, Recursion
  <2> QED BY <2>1 DEF Walk
<1>5. /\ \A k \in 1 .. N : k - 1 \in 0 .. N /\ k \in 0 .. N /\ k # 0
      /\ \A k \in 0 .. N : k # 0 => k \in 1 .. N
      /\ 0 \in 0 .. N
  BY SMT, <1>0
<1>6. \A k \in 1 .. N : g[k] = VerifyOneFile(g[k - 1], files[order[k]])
  BY <1>3, <1>4, <1>5
<1>7. P(g)
  <2>1. \A k \in 0 .. N : g[k] = IF k = 0 THEN Fresh ELSE VerifyOneFile(g[k - 1], files[order[k]])
    BY <1>4, <1>5, <1>6
  <2> QED BY <1>4, <2>1
<1>8. W = CHOOSE w : P(w)
  BY DEF ReplayFiles, N
<1>9. P(W)
  BY <1>7, <1>8
<1> HIDE DEF W
<1>10. /\ W[0] = Fresh
       /\ \A k \in 1 .. N : W[k] = VerifyOneFile(W[k - 1], files[order[k]])
  BY <1>5, <1>9
<1> DEFINE S == {k \in 0 .. N : W[k] \in Acc}
<1>11. 0 \in S /\ S \in SUBSET (0 .. N)
  BY <1>5, <1>10, FreshAcc
<1>12. ASSUME NEW k \in 1 .. N, k - 1 \in S PROVE k \in S
  <2>1. W[k - 1] \in Acc /\ files[order[k]] \in Seq(Line)
    BY <1>1, <1>12
  <2>2. W[k] \in Acc
    BY <1>10, <2>1, FileReplays
  <2> QED BY <1>5, <2>2
<1>13. \A k \in 0 .. N : k \in S
  <2> HIDE DEF S
  <2> QED BY <1>0, <1>11, <1>12, WalkKeeps
<1>14. W \in [0 .. N -> Acc]
  BY <1>9, <1>13
<1> QED BY <1>10, <1>14 DEF W, N

\* Every file that Verify found clean replays, from what the files before it left.
FileFrom(f, h) ==
  \E w \in [0 .. Len(files[f]) -> Digest] : Replays(files[f], h, w)

\* What is true of the empty hash and of whatever a file makes of it, is true of
\* the hash each file starts from.
LEMMA CleanReplays ==
  ASSUME files \in [FileNo -> Seq(Line)], Verify.issues = {}, NEW G, << >> \in G,
         \A f \in FileNo, h \in Digest : \A w \in [0 .. Len(files[f]) -> Digest] :
           h \in G /\ Replays(files[f], h, w) => w[Len(files[f])] \in G
  PROVE  \A f \in FileNo : files[f] # << >> =>
           \E h \in Digest : h \in G /\ FileFrom(f, h)
<1> DEFINE order == RotatedFiles
           N == Len(order)
           W == ReplayFiles(order)
<1>1. order \in Seq(FileNo) /\ N \in Nat /\ DOMAIN order = 1 .. N
  BY SMT, RotatedFilesShape
<1>2. \A f \in FileNo : files[f] # << >> => \E i \in 1 .. N : order[i] = f
  BY <1>1, RotatedFilesShape
<1>3. /\ W \in [0 .. N -> Acc] /\ W[0] = Fresh
      /\ \A k \in 1 .. N : W[k] = VerifyOneFile(W[k - 1], files[order[k]])
  BY <1>1, ReplayFilesShape
<1>4. W[N].issues = {}
  BY DEF Verify
<1> HIDE DEF W, N, order
<1>5. /\ \A k \in 1 .. N : k - 1 \in 0 .. N /\ k \in 0 .. N
      /\ 0 \in 0 .. N /\ N \in 0 .. N
  BY SMT, <1>1
<1>6. \A k \in 1 .. N : /\ W[k - 1] \in Acc /\ order[k] \in FileNo /\ files[order[k]] \in Seq(Line)
                        /\ W[k - 1].prevHash \in Digest /\ W[k].prevHash \in Digest
  <2>1. \A k \in 1 .. N : order[k] \in FileNo
    BY SMT, <1>1
  <2> QED BY <1>3, <1>5, <2>1 DEF Acc
<1>7. \A k \in 1 .. N : W[k - 1].issues \subseteq W[k].issues
  BY <1>3, <1>6, FileReplays
<1> DEFINE S == {k \in 0 .. N : W[k].issues = {}}
<1>8. N \in S /\ S \in SUBSET (0 .. N)
  BY <1>4, <1>5
<1>9. ASSUME NEW k \in 1 .. N, k \in S PROVE k - 1 \in S
  <2>1. W[k].issues = {} /\ W[k - 1].issues \subseteq W[k].issues /\ k - 1 \in 0 .. N
    BY <1>5, <1>7, <1>9
  <2>2. W[k - 1].issues = {}
    BY <2>1
  <2> QED BY <2>1, <2>2
<1> HIDE DEF S
<1>10. \A k \in 0 .. N : k \in S
  BY <1>1, <1>8, <1>9, WalkGoesBack
<1>11. ASSUME NEW k \in 1 .. N
       PROVE  \E w \in [0 .. Len(files[order[k]]) -> Digest] :
                 /\ Replays(files[order[k]], W[k - 1].prevHash, w)
                 /\ w[Len(files[order[k]])] = W[k].prevHash
  <2> DEFINE x == W[k - 1]
             f == files[order[k]]
  <2>1. /\ x \in Acc /\ f \in Seq(Line) /\ W[k] = VerifyOneFile(x, f)
    BY <1>3, <1>6
  <2>2. W[k].issues = {}
    BY <1>5, <1>10 DEF S
  <2> HIDE DEF x, f
  <2>3. VerifyOneFile(x, f).issues = {}
    BY <2>1, <2>2
  <2>4. PICK w \in [0 .. Len(f) -> Digest] :
          Replays(f, x.prevHash, w) /\ w[Len(f)] = VerifyOneFile(x, f).prevHash
    BY <2>1, <2>3, FileReplays
  <2>5. w[Len(f)] = W[k].prevHash
    BY <2>1, <2>4
  <2> QED BY <2>4, <2>5 DEF x, f
<1> DEFINE T == {k \in 0 .. N : W[k].prevHash \in G}
<1>12. 0 \in T /\ T \in SUBSET (0 .. N)
  BY <1>3, <1>5, FreshAcc
<1>13. ASSUME NEW k \in 1 .. N, k - 1 \in T PROVE k \in T
  <2>1. W[k - 1].prevHash \in G
    BY <1>13
  <2>2. PICK w \in [0 .. Len(files[order[k]]) -> Digest] :
          /\ Replays(files[order[k]], W[k - 1].prevHash, w)
          /\ w[Len(files[order[k]])] = W[k].prevHash
    BY <1>11
  <2> DEFINE f == order[k]
             h == W[k - 1].prevHash
  <2>3. f \in FileNo /\ h \in Digest /\ h \in G /\ Replays(files[f], h, w) /\ w \in [0 .. Len(files[f]) -> Digest]
    BY <1>6, <2>1, <2>2
  <2> HIDE DEF f, h
  <2>4. w[Len(files[f])] \in G
    BY <2>3
  <2> QED BY <1>5, <2>2, <2>4 DEF f
<1> HIDE DEF T
<1>14. \A k \in 0 .. N : k \in T
  BY <1>1, <1>12, <1>13, WalkKeeps
<1>15. ASSUME NEW f \in FileNo, files[f] # << >>
       PROVE  \E h \in Digest : h \in G /\ FileFrom(f, h)
  <2>1. PICK k \in 1 .. N : order[k] = f
    BY <1>2, <1>15
  <2>2. W[k - 1].prevHash \in G /\ W[k - 1].prevHash \in Digest
    BY <1>5, <1>6, <1>14 DEF T
  <2>3. FileFrom(f, W[k - 1].prevHash)
    BY <1>11, <2>1 DEF FileFrom
  <2> QED BY <2>2, <2>3
<1> QED BY <1>15

\* Only payloads of D are under a hash.
Within(h, D) == \A i \in DOMAIN h : h[i] \in D

(***************************************************************************)
(* A clean verdict of Verify is worth something, whatever has failed and   *)
(* however many files there are: it replays the chain from the empty hash, *)
(* so what a line on disk commits to has been read on the way.             *)
(***************************************************************************)
THEOREM CleanVerdictIsComplete == Spec => []CleanMeansComplete
<1>WithinAppend.
      ASSUME NEW h \in Digest, NEW e \in Payload, NEW D, Within(h, D), e \in D
      PROVE  Within(Append(h, e), D)
  BY SMT, <1>WithinAppend DEF Within, Digest
<1>ReplayWithin.
      ASSUME NEW f \in Seq(Line), NEW h \in Digest, NEW w \in [0 .. Len(f) -> Digest], Replays(f, h, w),
             NEW D, Within(h, D), \A k \in 1 .. Len(f) : f[k].kind = "chain" => PayloadOf(f[k]) \in D
      PROVE  \A k \in 0 .. Len(f) : Within(w[k], D)
  <2> USE <1>ReplayWithin
  <2> DEFINE N == Len(f)
             S == {k \in 0 .. N : Within(w[k], D)}
  <2>1. N \in Nat /\ \A k \in 1 .. N : f[k] \in Line
    BY SMT
  <2>2. Len(f) = N
    BY SMT
  <2> HIDE DEF N
  <2>3. /\ \A k \in 1 .. N : k - 1 \in 0 .. N /\ k \in 0 .. N
        /\ 0 \in 0 .. N
    BY SMT, <2>1
  <2>4. 0 \in S /\ S \in SUBSET (0 .. N)
    BY <2>3 DEF Replays
  <2>5. ASSUME NEW k \in 1 .. N, k - 1 \in S PROVE k \in S
    <3>1. /\ Readable(f[k])
          /\ f[k].kind = "legacy" => w[k] = w[k - 1]
          /\ f[k].kind = "chain" => w[k] = f[k].hash /\ f[k].hash = Append(w[k - 1], PayloadOf(f[k]))
      BY <2>2 DEF Replays
    <3>2. Within(w[k - 1], D) /\ w[k - 1] \in Digest /\ k \in 0 .. N
      BY <2>2, <2>3, <2>5
    <3>3. CASE f[k].kind = "legacy"
      BY <3>1, <3>2, <3>3
    <3>4. CASE f[k].kind = "chain"
      <4> DEFINE g == w[k - 1]
                 e == PayloadOf(f[k])
      <4>1. f[k] \in ChainLine
        BY <2>1, <3>4, LineKinds
      <4>2. e \in Payload
        BY SMT, <4>1, ChainLineFields DEF PayloadOf, Payload
      <4>3. g \in Digest /\ Within(g, D) /\ e \in D /\ w[k] = Append(g, e)
        BY <2>2, <3>1, <3>2, <3>4
      <4> HIDE DEF g, e
      <4>4. Within(w[k], D)
        BY <4>2, <4>3, <1>WithinAppend
      <4> QED BY <3>2, <4>4
    <3> QED BY <3>1, <3>3, <3>4 DEF Readable
  <2> HIDE DEF S
  <2>6. \A k \in 0 .. N : k \in S
    BY <2>1, <2>4, <2>5, WalkKeeps
  <2> QED BY <2>2, <2>6 DEF S
<1>1. TypeOK => CleanMeansComplete
  <2> SUFFICES ASSUME TypeOK, Verify.issues = {}, NEW q \in ChainPositions,
                      NEW i \in DOMAIN At(q).hash
               PROVE  \E p \in ChainPositions : PayloadOf(At(p)) = At(q).hash[i]
    BY DEF CleanMeansComplete
  <2> DEFINE D == {PayloadOf(At(p)) : p \in ChainPositions}
             G == {h \in Digest : Within(h, D)}
  <2>1. files \in [FileNo -> Seq(Line)]
    BY DEF TypeOK
  <2>2. ASSUME NEW f \in FileNo, NEW k \in 1 .. Len(files[f]), files[f][k].kind = "chain"
        PROVE  PayloadOf(files[f][k]) \in D
    <3>1. DOMAIN files[f] = 1 .. Len(files[f])
      BY SMT, <2>1
    <3>2. <<f, k>> \in Positions
      BY <3>1, PositionPairs
    <3>3. At(<<f, k>>) = files[f][k]
      BY DEF At
    <3>4. <<f, k>> \in ChainPositions
      BY <2>2, <3>2, <3>3 DEF ChainPositions
    <3> QED BY <3>3, <3>4
  <2> HIDE DEF D
  <2>3. << >> \in G
    BY SMT DEF Within, Digest
  <2>4. ASSUME NEW f \in FileNo, NEW h \in Digest, NEW w \in [0 .. Len(files[f]) -> Digest],
               h \in G, Replays(files[f], h, w)
        PROVE  /\ w[Len(files[f])] \in G
               /\ \A k \in 0 .. Len(files[f]) : Within(w[k], D)
    <3>1. Within(h, D) /\ files[f] \in Seq(Line)
      BY <2>1, <2>4
    <3>2. \A k \in 0 .. Len(files[f]) : Within(w[k], D)
      BY <2>2, <2>4, <3>1, <1>ReplayWithin
    <3>3. Len(files[f]) \in 0 .. Len(files[f])
      BY SMT, <3>1
    <3> QED BY <2>4, <3>2, <3>3
  <2> HIDE DEF G
  <2>5. PICK f \in FileNo : \E k \in DOMAIN files[f] : q = <<f, k>>
    BY PositionPairs DEF ChainPositions
  <2>6. PICK k \in DOMAIN files[f] : q = <<f, k>>
    BY <2>5
  <2>7. k \in 1 .. Len(files[f]) /\ k \in 0 .. Len(files[f]) /\ files[f] # << >>
    BY SMT, <2>1, <2>6
  <2>8. At(q) = files[f][k] /\ files[f][k].kind = "chain"
    BY <2>6 DEF At, ChainPositions
  <2>9. PICK h \in Digest : h \in G /\ FileFrom(f, h)
    BY <2>1, <2>3, <2>4, <2>7, CleanReplays
  <2>10. PICK w \in [0 .. Len(files[f]) -> Digest] : Replays(files[f], h, w)
    BY <2>9 DEF FileFrom
  <2>11. Within(w[k], D) /\ w[k] = At(q).hash
    BY <2>4, <2>7, <2>8, <2>9, <2>10 DEF Replays
  <2>12. At(q).hash[i] \in D
    BY <2>11 DEF Within
  <2> QED BY <2>12 DEF D
<1> QED BY <1>1, TypeCorrect, PTL

(***************************************************************************)
(* Whatever fails, saveState included: a chain line is hashed over its own *)
(* prev_hash and payload, and is numbered by the length of its chain.      *)
(***************************************************************************)
Counted(a) ==
  a.kind = "chain" => a.seq = Len(a.hash) /\ a.hash = Append(a.prevHash, PayloadOf(a))

LinesCounted == \A a : HasLine(files, a) => Counted(a)

CountInv == TypeOK /\ HeadsCount /\ LinesCounted /\ Counted(raw)

LEMMA CountInit == Init => CountInv
<1> SUFFICES ASSUME Init PROVE CountInv
  OBVIOUS
<1>1. TypeOK
  BY TypeInit
<1>2. ASSUME NEW a, HasLine(files, a) PROVE Counted(a)
  <2>1. PICK f \in FileNo : \E i \in DOMAIN files[f] : a = files[f][i]
    BY <1>2 DEF HasLine
  <2>2. PICK i \in DOMAIN files[f] : a = files[f][i]
    BY <2>1
  <2>3. f = 0
    BY SMT, <2>2 DEF Init
  <2>4. files[0] = [k \in 1 .. LegacyLines |-> Legacy(0)]
    BY SMT, LogAssumption DEF Init, FileNo
  <2>5. a = Legacy(0)
    BY <2>2, <2>3, <2>4
  <2> QED BY <2>5 DEF Legacy, Counted
<1>3. HeadsCount
  BY SMT DEF Init, HeadsCount, ZeroState
<1>4. raw = Torn
  BY DEF Init
<1> QED BY <1>1, <1>2, <1>3, <1>4, LineKinds DEF CountInv, LinesCounted, Counted

LEMMA CountStep == CountInv /\ [Next]_vars => CountInv'
<1>LoadCounts.
      ASSUME CountInv
      PROVE  LoadChain.seq = Len(LoadChain.hash)
  <2> USE <1>LoadCounts
  <2>1. files \in [FileNo -> Seq(Line)] /\ TypeOK /\ HeadsCount
    BY DEF CountInv, TypeOK
  <2>2. CASE LoadChain = stateFile
    BY <2>1, <2>2 DEF HeadsCount
  <2>3. CASE LoadChain = RecoverFromLog /\ ChainPositions = {}
    <3>1. LoadChain = ZeroState
      BY <2>1, <2>3, RecoverFromLogType
    <3> QED BY SMT, <3>1 DEF ZeroState
  <2>4. CASE LoadChain = RecoverFromLog /\ ChainPositions # {}
    <3>1. PICK p \in ChainPositions :
            RecoverFromLog = [chain |-> At(p).chain, seq |-> At(p).seq, hash |-> At(p).hash]
      BY <2>1, <2>4, RecoverFromLogType
    <3>2. Counted(At(p)) /\ At(p).kind = "chain"
      BY PairsArePositions DEF CountInv, LinesCounted, ChainPositions
    <3> QED BY <2>4, <3>1, <3>2 DEF Counted
  <2> QED BY <2>2, <2>3, <2>4 DEF LoadChain
<1> SUFFICES ASSUME CountInv, [Next]_vars PROVE CountInv'
  OBVIOUS
<1>1. TypeOK /\ TypeOK' /\ HeadsCount /\ LinesCounted /\ Counted(raw)
  BY TypeStep DEF CountInv
<1>2. LinesCounted'
  <2>1. CASE UNCHANGED vars
    BY <1>1, <2>1 DEF vars, LinesCounted
  <2>2. CASE Next
    <3>1. Shrinks(files, files') \/ Grows(files, files', raw)
      BY <1>1, <2>2, FileStep
    <3>2. \A a : HasLine(files', a) => HasLine(files, a) \/ a \in {raw, Torn, Glued}
      BY <3>1 DEF Shrinks, Grows
    <3>3. Counted(Torn) /\ Counted(Glued)
      BY LineKinds DEF Counted
    <3> QED BY <1>1, <3>2, <3>3 DEF LinesCounted
  <2> QED BY <2>1, <2>2
<1>3. CASE Write
  <2>1. CASE chainOn
    <3> DEFINE sl == SealChain(state, written + 1)
    <3>1. raw' = sl.line /\ state' = sl.next /\ UNCHANGED stateFile
      BY <1>3, <2>1 DEF Write
    <3>2. state \in ChainState /\ written + 1 \in Nat
      BY SMT, <1>1 DEF TypeOK
    <3>3. /\ sl.line.hash = sl.next.hash
          /\ sl.line.seq = state.seq + 1
          /\ sl.next.seq = state.seq + 1
          /\ Len(sl.next.hash) = Len(state.hash) + 1
      BY <3>2, SealChainType
    <3>4. sl.line.hash = Append(sl.line.prevHash, PayloadOf(sl.line))
      BY DEF SealChain, PayloadOf
    <3> HIDE DEF sl
    <3>5. state.seq = Len(state.hash)
      BY <1>1 DEF HeadsCount
    <3>6. HeadsCount'
      BY <1>1, <3>1, <3>3, <3>5 DEF HeadsCount
    <3>7. Counted(raw')
      BY <3>1, <3>3, <3>4, <3>5 DEF Counted
    <3> QED BY <1>1, <1>2, <3>6, <3>7 DEF CountInv, Counted
  <2>2. CASE ~chainOn
    <3>1. raw' = Legacy(written + 1) /\ UNCHANGED <<state, stateFile>>
      BY <1>3, <2>2 DEF Write
    <3>2. raw'.kind = "legacy"
      BY <3>1 DEF Legacy
    <3>3. Counted(raw)'
      BY <3>2 DEF Counted
    <3> QED BY <1>1, <1>2, <3>1, <3>3 DEF CountInv, HeadsCount
  <2> QED BY <2>1, <2>2
<1>4. CASE ~Write
  <2>0. 0 = Len(<< >>)
    BY SMT
  <2>1. ZeroState.seq = Len(ZeroState.hash)
    BY <2>0 DEF ZeroState
  <2>2. /\ raw' = raw
        /\ state' \in {state, LoadChain, ZeroState}
        /\ stateFile' \in {stateFile, state, ZeroState}
    <3>1. CASE UNCHANGED vars
      BY <3>1 DEF vars
    <3>2. CASE Next
      BY <1>4, <3>2 DEF Next, Start, SaveState, SkipRotation, RemoveOldest, ShiftBackup,
                               RotateCurrent, AppendRaw, Stop, LoseState, procVars
    <3> QED BY <3>1, <3>2
  <2>3. HeadsCount'
    BY <1>1, <2>1, <2>2, <1>LoadCounts DEF HeadsCount
  <2> QED BY <1>1, <1>2, <2>2, <2>3 DEF CountInv, Counted
<1> QED BY <1>3, <1>4

LEMMA CountAlways == Spec => []CountInv
BY CountInit, CountStep, PTL DEF Spec

(***************************************************************************)
(* Whatever has failed: on a log that Verify finds clean, the check of a   *)
(* single record finds no fault with a record that has a predecessor in    *)
(* the current file.  It looks the record up by its sequence number, which *)
(* is unique there because it is the length of the chain.                  *)
(***************************************************************************)
THEOREM SingleRecordIsClean == Spec => []SingleRecordAgrees
\* While a file replays, the hash in hand is that of the last chain line, and
\* it never gets shorter.
<1>ReplayOrder.
      ASSUME NEW f \in Seq(Line), NEW h \in Digest, NEW w \in [0 .. Len(f) -> Digest], Replays(f, h, w)
      PROVE  /\ \A k \in 0 .. Len(f) : \A i \in 0 .. k : Len(w[i]) <= Len(w[k])
             /\ \A k \in 1 .. Len(f) : f[k].kind = "chain" => Len(w[k]) = Len(w[k - 1]) + 1
             /\ \A k \in 0 .. Len(f) : \A i \in 1 .. k :
                  f[i].kind = "chain" /\ (\A j \in i + 1 .. k : f[j].kind # "chain") => w[k] = f[i].hash
  <2> USE <1>ReplayOrder
  <2> DEFINE N == Len(f)
  <2>1. N \in Nat /\ \A k \in 1 .. N : f[k] \in Line
    BY SMT
  <2>2. Len(f) = N
    BY SMT
  <2> HIDE DEF N
  <2>3. /\ \A k \in 1 .. N : k - 1 \in 0 .. N /\ k \in 0 .. N
        /\ 0 \in 0 .. N
        /\ \A k \in 0 .. N : Len(w[k]) \in Nat
    BY SMT, <2>1, <2>2 DEF Digest
  <2>4. \A k \in 1 .. N : /\ Readable(f[k])
                          /\ f[k].kind = "legacy" => w[k] = w[k - 1]
                          /\ f[k].kind = "chain" => w[k] = f[k].hash /\ f[k].hash = Append(w[k - 1], PayloadOf(f[k]))
    BY <2>2 DEF Replays
  <2>5. ASSUME NEW k \in 1 .. N, f[k].kind = "chain" PROVE Len(w[k]) = Len(w[k - 1]) + 1
    <3> DEFINE g == w[k - 1]
               e == PayloadOf(f[k])
    <3>1. f[k] \in ChainLine
      BY <2>1, <2>5, LineKinds
    <3>2. e \in Payload
      BY SMT, <3>1, ChainLineFields DEF PayloadOf, Payload
    <3>3. g \in Digest /\ w[k] = Append(g, e)
      BY <2>2, <2>3, <2>4, <2>5
    <3> HIDE DEF g, e
    <3>4. Len(w[k]) = Len(g) + 1
      BY <3>2, <3>3, CommitsAppend
    <3> QED BY <3>4 DEF g
  <2>6. \A k \in 1 .. N : Len(w[k - 1]) <= Len(w[k])
    <3> TAKE k \in 1 .. N
    <3>1. CASE f[k].kind = "chain"
      BY SMT, <2>3, <2>5, <3>1
    <3>2. CASE f[k].kind = "legacy"
      <4>1. w[k] = w[k - 1]
        BY <2>4, <3>2
      <4> QED BY SMT, <2>3, <4>1
    <3> QED BY <2>4, <3>1, <3>2 DEF Readable
  <2> DEFINE S == {k \in 0 .. N : \A i \in 0 .. k : Len(w[i]) <= Len(w[k])}
  <2>7. \A k \in 0 .. N : k \in S
    <3>1. 0 \in S /\ S \in SUBSET (0 .. N)
      BY SMT, <2>3
    <3>2. ASSUME NEW k \in 1 .. N, k - 1 \in S PROVE k \in S
      <4>1. ASSUME NEW i \in 0 .. k PROVE Len(w[i]) <= Len(w[k])
        <5>1. CASE i = k
          BY SMT, <2>3, <5>1
        <5>2. CASE i \in 0 .. k - 1
          <6>1. Len(w[i]) <= Len(w[k - 1]) /\ Len(w[k - 1]) <= Len(w[k])
            BY <2>6, <3>2, <5>2
          <6>2. Len(w[i]) \in Nat /\ Len(w[k - 1]) \in Nat /\ Len(w[k]) \in Nat
            <7>1. i \in 0 .. N
              BY SMT, <5>2, <2>1
            <7> QED BY <2>3, <7>1
          <6> QED BY SMT, <6>1, <6>2
        <5>3. i = k \/ i \in 0 .. k - 1
          BY SMT, <2>1
        <5> QED BY <5>1, <5>2, <5>3
      <4> QED BY <2>3, <4>1
    <3> HIDE DEF S
    <3> QED BY <2>1, <3>1, <3>2, WalkKeeps
  <2> DEFINE LastIs(k) == \A i \in 1 .. k :
               f[i].kind = "chain" /\ (\A j \in i + 1 .. k : f[j].kind # "chain") => w[k] = f[i].hash
             T == {k \in 0 .. N : LastIs(k)}
  <2>8. \A k \in 0 .. N : k \in T
    <3>1. 0 \in T /\ T \in SUBSET (0 .. N)
      BY SMT, <2>3
    <3>2. ASSUME NEW k \in 1 .. N, k - 1 \in T PROVE k \in T
      <4>1. ASSUME NEW i \in 1 .. k, f[i].kind = "chain", \A j \in i + 1 .. k : f[j].kind # "chain"
            PROVE  w[k] = f[i].hash
        <5>1. CASE i = k
          BY <2>4, <4>1, <5>1
        <5>2. CASE i \in 1 .. k - 1
          <6>1. k \in i + 1 .. k /\ \A j \in i + 1 .. k - 1 : j \in i + 1 .. k
            BY SMT, <5>2, <2>1
          <6>2. f[k].kind = "legacy"
            BY <2>4, <4>1, <6>1 DEF Readable
          <6>3. \A j \in i + 1 .. k - 1 : f[j].kind # "chain"
            BY <4>1, <6>1
          <6>4. w[k - 1] = f[i].hash
            BY <3>2, <4>1, <5>2, <6>3
          <6> QED BY <2>4, <6>2, <6>4
        <5>3. i = k \/ i \in 1 .. k - 1
          BY SMT, <2>1
        <5> QED BY <5>1, <5>2, <5>3
      <4> QED BY <2>3, <4>1
    <3> HIDE DEF T
    <3> QED BY <2>1, <3>1, <3>2, WalkKeeps
  <2> QED BY <2>2, <2>5, <2>7, <2>8
<1>MaxIsGreatest.
      ASSUME NEW N \in Nat, NEW S \in SUBSET (1 .. N), S # {}
      PROVE  Max(S) \in S /\ \A x \in S : x <= Max(S)
  <2> USE <1>MaxIsGreatest
  <2> DEFINE T == {N - x : x \in S}
  <2>1. T \in SUBSET Nat /\ T # {}
    <3>1. \A x \in 1 .. N : N - x \in Nat
      BY SMT
    <3> QED BY <3>1
  <2>2. PICK m \in T : \A y \in T : m <= y
    BY <2>1, MinExists
  <2>3. PICK x \in S : m = N - x
    BY <2>2
  <2>4. ASSUME NEW y \in S PROVE x >= y
    <3>1. m <= N - y
      BY <2>2
    <3>2. x \in 1 .. N /\ y \in 1 .. N
      OBVIOUS
    <3> HIDE DEF T
    <3> QED BY SMT, <2>3, <3>1, <3>2
  <2>5. Max(S) \in S /\ \A y \in S : Max(S) >= y
    BY <2>4 DEF Max
  <2>6. S \subseteq Int
    BY SMT
  <2> HIDE DEF T
  <2> QED BY SMT, <2>5, <2>6
<1>1. CountInv => SingleRecordAgrees
  <2> SUFFICES ASSUME CountInv, Verify.issues = {}, NEW p \in ChainPositions, NEW q \in ChainPositions,
                      p[1] = 0, q[1] = 0, Earlier(p, q)
               PROVE  VerifyEventSeq(At(q).seq) = {}
    BY DEF SingleRecordAgrees
  <2>1. files \in [FileNo -> Seq(Line)] /\ 0 \in FileNo
    BY SMT, LogAssumption DEF CountInv, TypeOK, FileNo
  <2> DEFINE f == files[0]
             N == Len(f)
             C == ChainLines(f)
  <2>2. f \in Seq(Line) /\ N \in Nat /\ DOMAIN f = 1 .. N
    BY SMT, <2>1
  <2>3. \A i : i \in C <=> i \in 1 .. N /\ f[i].kind = "chain"
    BY <2>2 DEF ChainLines
  <2>4. ASSUME NEW r \in ChainPositions, r[1] = 0 PROVE r[2] \in C /\ At(r) = f[r[2]]
    <3>1. PICK g \in FileNo : \E i \in DOMAIN files[g] : r = <<g, i>>
      BY PositionPairs DEF ChainPositions
    <3>2. PICK i \in DOMAIN files[g] : r = <<g, i>>
      BY <3>1
    <3>3. r[1] = g /\ r[2] = i
      BY SMT, <3>2
    <3>4. At(r) = f[r[2]] /\ r[2] \in DOMAIN f /\ At(r).kind = "chain"
      BY <2>4, <3>2, <3>3 DEF At, ChainPositions
    <3> QED BY <2>2, <2>3, <3>4
  <2> DEFINE a == p[2]
             b == q[2]
  <2>5. a \in C /\ b \in C /\ At(q) = f[b] /\ a < b
    <3>1. a < b
      BY SMT DEF Earlier
    <3> QED BY <2>4, <3>1
  <2>6. \A i \in C : f[i].seq = Len(f[i].hash)
    <3> TAKE i \in C
    <3>1. HasLine(files, f[i]) /\ f[i].kind = "chain"
      BY <2>1, <2>2, <2>3 DEF HasLine
    <3> QED BY <3>1 DEF CountInv, LinesCounted, Counted
  <2> HIDE DEF a, b
  <2>7. f # << >>
    BY SMT, <2>2, <2>3, <2>5
  <2>8. PICK h \in Digest : h \in Digest /\ FileFrom(0, h)
    <3>1. << >> \in Digest
      BY SMT DEF Digest
    <3>2. ASSUME NEW g \in FileNo, NEW d \in Digest, NEW w \in [0 .. Len(files[g]) -> Digest]
          PROVE  w[Len(files[g])] \in Digest
      <4>1. Len(files[g]) \in 0 .. Len(files[g])
        BY SMT, <2>1
      <4> QED BY <4>1
    <3> QED BY <2>1, <2>7, <3>1, <3>2, CleanReplays
  <2>9. PICK w \in [0 .. Len(f) -> Digest] : Replays(f, h, w)
    BY <2>8 DEF FileFrom
  <2> HIDE DEF f, C
  <2>10. /\ \A k \in 0 .. N : \A i \in 0 .. k : Len(w[i]) <= Len(w[k])
         /\ \A k \in 1 .. N : f[k].kind = "chain" => Len(w[k]) = Len(w[k - 1]) + 1
         /\ \A k \in 0 .. N : \A i \in 1 .. k :
              f[i].kind = "chain" /\ (\A j \in i + 1 .. k : f[j].kind # "chain") => w[k] = f[i].hash
    BY <2>2, <2>9, <1>ReplayOrder
  <2>11. \A k \in C : /\ w[k] = f[k].hash /\ f[k].prevHash = w[k - 1]
                      /\ f[k].hash = Append(w[k - 1], PayloadOf(f[k]))
    BY <2>3, <2>9 DEF Replays
  <2>12. ASSUME NEW i \in C, NEW j \in C, i < j PROVE f[i].seq # f[j].seq
    <3>1. /\ i \in 1 .. N /\ j \in 1 .. N /\ f[j].kind = "chain"
          /\ f[i].seq = Len(w[i]) /\ f[j].seq = Len(w[j])
      BY <2>3, <2>6, <2>11
    <3>2. i \in 0 .. j - 1 /\ j - 1 \in 0 .. N /\ i \in 0 .. N
      BY SMT, <2>2, <2>12, <3>1
    <3>3. Len(w[i]) <= Len(w[j - 1]) /\ Len(w[j]) = Len(w[j - 1]) + 1
      BY <2>10, <3>1, <3>2
    <3>4. Len(w[i]) \in Nat /\ Len(w[j - 1]) \in Nat
      <4>1. w[i] \in Digest /\ w[j - 1] \in Digest
        BY <3>2
      <4> QED BY SMT, <4>1 DEF Digest
    <3> QED BY SMT, <3>1, <3>3, <3>4
  <2> DEFINE found == {i \in C : f[i].seq = f[b].seq}
             before == {i \in C : i < b}
             m == Max(before)
  <2>13. C \in SUBSET Nat /\ C \in SUBSET (1 .. N)
    BY SMT, <2>3
  <2>14. Min(found) = b
    <3>1. found \in SUBSET Nat /\ b \in found
      BY <2>5, <2>13
    <3>2. Min(found) \in found
      BY <3>1, MinIsLeast
    <3>3. Min(found) \in C /\ f[Min(found)].seq = f[b].seq
      BY <3>2
    <3>4. ~(Min(found) < b) /\ ~(b < Min(found))
      BY <2>5, <2>12, <3>3
    <3> HIDE DEF found
    <3>5. Min(found) \in Nat /\ b \in Nat
      BY <2>5, <2>13, <3>3
    <3> QED BY SMT, <3>4, <3>5
  <2>15. before # {} /\ before \in SUBSET (1 .. N)
    BY <2>5, <2>13
  <2>16. m \in before /\ \A x \in before : x <= m
    BY <2>2, <2>15, <1>MaxIsGreatest
  <2>17. m \in C /\ m < b
    BY <2>16
  <2>18. w[b - 1] = f[m].hash
    <3>1. \A j \in m + 1 .. b - 1 : j \in 1 .. N /\ j < b /\ ~(j <= m)
      <4>1. m \in 1 .. N /\ b \in 1 .. N /\ m < b
        BY <2>5, <2>13, <2>17
      <4> HIDE DEF m, N
      <4> QED BY SMT, <2>2, <4>1
    <3>2. \A j \in m + 1 .. b - 1 : f[j].kind # "chain"
      BY <2>3, <2>16, <3>1
    <3>3. m \in 1 .. b - 1 /\ b - 1 \in 0 .. N /\ f[m].kind = "chain"
      <4>1. f[m].kind = "chain"
        BY <2>3, <2>17
      <4> HIDE DEF m
      <4> QED BY SMT, <2>2, <2>5, <2>13, <2>17, <4>1
    <3> HIDE DEF m
    <3> QED BY <2>10, <3>2, <3>3
  <2>19. LineIssues(f[b], f[m].hash) = {}
    <3>1. f[b].prevHash = f[m].hash /\ f[b].hash = Append(f[m].hash, PayloadOf(f[b]))
      BY <2>5, <2>11, <2>18
    <3> QED BY <3>1, LineClean
  <2>20. VerifyEventSeq(f[b].seq) = {}
    <3>1. VerifyEventSeq(f[b].seq) =
            LineIssues(f[Min(found)], IF {i \in C : i < Min(found)} = {} THEN << >>
                                      ELSE f[Max({i \in C : i < Min(found)})].hash)
              \ IF f[b].seq > 1 THEN {} ELSE {"prev_hash_break"}
      <4>1. found # {} /\ f # << >>
        BY <2>5, <2>7
      <4> QED BY <4>1 DEF VerifyEventSeq, f, C
    <3>2. VerifyEventSeq(f[b].seq) = LineIssues(f[b], f[m].hash) \ IF f[b].seq > 1 THEN {} ELSE {"prev_hash_break"}
      <4> HIDE DEF found
      <4> QED BY <2>14, <2>15, <3>1
    <3> QED BY <2>19, <3>2
  <2> QED BY <2>5, <2>20
<1> QED BY <1>1, CountAlways, PTL

-----------------------------------------------------------------------------
(***************************************************************************)
(* What Verify has counted, carried and reported when the lines of D are   *)
(* behind it.                                                              *)
(***************************************************************************)
Faulty == Breaks \cup {f \in FirstLine : At(f).prevHash # << >>}
LinesOf(issues) == {i.line : i \in issues}
Behind(q) == {p \in Positions : Earlier(p, q)}

Carries(D, h) ==
  IF D \cap ChainPositions = {} THEN h = << >>
  ELSE \E l \in D \cap ChainPositions :
         h = At(l).hash /\ \A r \in D \cap ChainPositions : r = l \/ Earlier(r, l)

HasRead(D, a) ==
  /\ a \in Acc
  /\ IsFiniteSet(D) /\ a.line = Cardinality(D)
  /\ Carries(D, a.prevHash)
  /\ LinesOf(a.issues) = {LineNo(q) : q \in D \cap Faulty}

LEMMA EarlierOrders ==
  ASSUME files \in [FileNo -> Seq(Line)]
  PROVE  /\ \A p \in Positions : ~Earlier(p, p)
         /\ \A p, q \in Positions : Earlier(p, q) => ~Earlier(q, p)
<1>1. ASSUME NEW p \in Positions PROVE p[1] \in Int /\ p[2] \in Int
  <2>1. PICK f \in FileNo : \E i \in DOMAIN files[f] : p = <<f, i>>
    BY PositionPairs
  <2>2. PICK i \in DOMAIN files[f] : p = <<f, i>>
    BY <2>1
  <2>3. f \in Int /\ i \in Int
    BY SMT, <2>2 DEF FileNo
  <2> QED BY SMT, <2>2, <2>3
<1>2. ASSUME NEW p \in Positions, NEW q \in Positions
      PROVE  ~Earlier(p, p) /\ (Earlier(p, q) => ~Earlier(q, p))
  <2>1. p[1] \in Int /\ p[2] \in Int /\ q[1] \in Int /\ q[2] \in Int
    BY <1>1
  <2> QED BY SMT, <2>1 DEF Earlier
<1> QED BY <1>2

\* The line after D is faulty when its prev_hash is not the hash in hand.
LEMMA FaultyLine ==
  ASSUME files \in [FileNo -> Seq(Line)], NEW q \in ChainPositions, NEW h,
         Carries(Behind(q), h)
  PROVE  q \in Faulty <=> At(q).prevHash # h
<1>1. q \in Positions /\ ChainPositions \subseteq Positions
  BY DEF ChainPositions
<1>2. \A p \in ChainPositions : p \in Behind(q) \cap ChainPositions <=> Earlier(p, q)
  BY <1>1 DEF Behind
<1>3. CASE Behind(q) \cap ChainPositions = {}
  <2>1. \A p \in ChainPositions : ~Earlier(p, q)
    BY <1>2, <1>3
  <2>2. q \in FirstLine /\ q \notin Breaks
    BY <2>1 DEF FirstLine, Breaks
  <2>3. h = << >>
    BY <1>3 DEF Carries
  <2> QED BY <2>2, <2>3 DEF Faulty
<1>4. CASE Behind(q) \cap ChainPositions # {}
  <2>1. PICK l \in Behind(q) \cap ChainPositions :
          h = At(l).hash /\ \A r \in Behind(q) \cap ChainPositions : r = l \/ Earlier(r, l)
    BY <1>4 DEF Carries
  <2>2. Earlier(l, q) /\ l \in ChainPositions /\ l \in Positions
    BY <1>1, <1>2
  <2>3. q \notin FirstLine
    BY <2>2 DEF FirstLine
  <2>4. \A r \in ChainPositions : ~(Earlier(l, r) /\ Earlier(r, q))
    BY <1>1, <1>2, <2>1, <2>2, EarlierOrders
  <2>5. ASSUME NEW p \in ChainPositions, Earlier(p, q),
               \A r \in ChainPositions : ~(Earlier(p, r) /\ Earlier(r, q))
        PROVE  p = l
    BY <1>2, <2>1, <2>2, <2>5
  <2>6. q \in Breaks <=> At(q).prevHash # At(l).hash
    BY <2>2, <2>4, <2>5 DEF Breaks
  <2> QED BY <2>1, <2>3, <2>6 DEF Faulty
<1> QED BY <1>3, <1>4

LEMMA ReportLines ==
  ASSUME NEW a \in Acc, NEW n \in Nat,
         NEW kinds \in SUBSET {"prev_hash_break", "hash_mismatch", "malformed"}
  PROVE  LinesOf(Report(a, n, kinds).issues) =
           LinesOf(a.issues) \cup IF kinds = {} THEN {} ELSE {n}
<1> DEFINE new == {[line |-> n, kind |-> k] : k \in kinds}
<1>1. Report(a, n, kinds).issues = a.issues \cup new
  BY SMT DEF Report, Acc
<1>2. \A x \in new : x.line = n
  BY SMT
<1>3. kinds # {} <=> new # {}
  OBVIOUS
<1> HIDE DEF new
<1>4. LinesOf(a.issues \cup new) = LinesOf(a.issues) \cup LinesOf(new)
  BY DEF LinesOf
<1>5. LinesOf(new) = IF kinds = {} THEN {} ELSE {n}
  BY <1>2, <1>3 DEF LinesOf
<1> QED BY <1>1, <1>4, <1>5

LEMMA VerifyLineLines ==
  ASSUME NEW a \in Acc, NEW l \in Line, Readable(l)
  PROVE  LinesOf(VerifyLine(a, l).issues) =
           LinesOf(a.issues) \cup IF l.kind = "legacy" \/ LineIssues(l, a.prevHash) = {} THEN {}
                                  ELSE {a.line + 1}
<1> DEFINE here == [a EXCEPT !.line = @ + 1]
           issues == LineIssues(l, a.prevHash)
           r == Report(here, here.line, issues)
<1>1. a.prevHash \in Digest /\ a.lastSeq \in Nat /\ a.line \in Nat /\ a.issues \in SUBSET Issue
  BY DEF Acc
<1>2. here = [prevHash |-> a.prevHash, lastSeq |-> a.lastSeq, line |-> a.line + 1, issues |-> a.issues]
  BY SMT DEF Acc
<1>3. here \in Acc /\ here.line = a.line + 1 /\ here.line \in Nat /\ here.issues = a.issues
  BY SMT, <1>1, <1>2 DEF Acc
<1>4. CASE l.kind = "legacy"
  <2>1. VerifyLine(a, l) = here
    BY <1>4 DEF VerifyLine
  <2> HIDE DEF here
  <2> QED BY <1>3, <1>4, <2>1
<1>5. CASE l.kind = "chain"
  <2>1. l.kind # "legacy"
    BY <1>5
  <2>2. VerifyLine(a, l) = [r EXCEPT !.prevHash = l.hash, !.lastSeq = l.seq]
    BY <2>1 DEF VerifyLine
  <2>3. issues \in SUBSET {"prev_hash_break", "hash_mismatch", "malformed"}
    BY LineClean
  <2> HIDE DEF here, issues
  <2>4. r \in Acc
    BY <1>3, <2>3, ReportShape
  <2>5. LinesOf(r.issues) = LinesOf(here.issues) \cup IF issues = {} THEN {} ELSE {here.line}
    BY <1>3, <2>3, ReportLines
  <2> HIDE DEF r
  <2>6. VerifyLine(a, l).issues = r.issues
    BY SMT, <2>2, <2>4 DEF Acc
  <2> QED BY <1>3, <2>1, <2>5, <2>6 DEF issues
<1> QED BY <1>4, <1>5 DEF Readable

\* One more line.
LEMMA ReadsLine ==
  ASSUME Counting, files \in [FileNo -> Seq(Line)], LinesCounted, NEW q \in Positions, Readable(At(q)),
         NEW a, HasRead(Behind(q), a)
  PROVE  HasRead(Behind(q) \cup {q}, VerifyLine(a, At(q)))
<1> DEFINE D == Behind(q)
           l == At(q)
           b == VerifyLine(a, l)
<1>1. /\ a \in Acc /\ IsFiniteSet(D) /\ a.line = Cardinality(D) /\ Carries(D, a.prevHash)
      /\ LinesOf(a.issues) = {LineNo(p) : p \in D \cap Faulty}
  BY DEF HasRead
<1>2. l \in Line /\ HasLine(files, l)
  <2>1. PICK f \in FileNo : \E i \in DOMAIN files[f] : q = <<f, i>>
    BY PositionPairs
  <2>2. PICK i \in DOMAIN files[f] : q = <<f, i>>
    BY <2>1
  <2>3. l = files[f][i]
    BY <2>2 DEF At
  <2>4. files[f][i] \in Line
    BY SMT, <2>2
  <2> QED BY <2>3, <2>4, PairsArePositions
<1>3. q \notin D
  BY EarlierOrders DEF Behind
<1>4. LineNo(q) = Cardinality(D \cup {q})
  <2>1. {p \in Positions : p = q \/ Earlier(p, q)} = D \cup {q}
    BY DEF Behind
  <2> QED BY <2>1 DEF LineNo
<1>5. IsFiniteSet(D \cup {q}) /\ Cardinality(D \cup {q}) = Cardinality(D) + 1
  BY <1>1, <1>3, CountOneMore
<1>6. b \in Acc /\ b.line = a.line + 1
  BY <1>1, <1>2, VerifyLineShape
<1>7. LinesOf(b.issues) =
        LinesOf(a.issues) \cup IF l.kind = "legacy" \/ LineIssues(l, a.prevHash) = {} THEN {}
                               ELSE {a.line + 1}
  BY <1>1, <1>2, VerifyLineLines
<1>8. Faulty \subseteq ChainPositions /\ (q \in ChainPositions <=> l.kind = "chain")
  BY DEF Faulty, Breaks, FirstLine, ChainPositions
<1>9. CASE l.kind = "legacy"
  <2>1. q \notin ChainPositions /\ q \notin Faulty
    BY <1>8, <1>9
  <2>2. (D \cup {q}) \cap ChainPositions = D \cap ChainPositions
    BY <2>1
  <2>3. (D \cup {q}) \cap Faulty = D \cap Faulty
    BY <2>1
  <2>4. b.prevHash = a.prevHash
    BY <1>1, <1>2, <1>9, VerifyLineShape
  <2>5. Carries(D \cup {q}, b.prevHash)
    BY <1>1, <2>2, <2>4 DEF Carries
  <2>6. LinesOf(b.issues) = {LineNo(p) : p \in (D \cup {q}) \cap Faulty}
    BY <1>1, <1>7, <1>9, <2>3
  <2> QED BY <1>1, <1>5, <1>6, <2>5, <2>6 DEF HasRead
<1>10. CASE l.kind = "chain"
  <2>1. q \in ChainPositions /\ l.kind # "legacy"
    BY <1>8, <1>10
  <2>2. b.prevHash = l.hash
    BY <1>1, <1>2, <1>10, VerifyLineShape
  <2>3. Carries(D \cup {q}, b.prevHash)
    <3>1. q \in (D \cup {q}) \cap ChainPositions
      BY <2>1
    <3>2. \A r \in (D \cup {q}) \cap ChainPositions : r = q \/ Earlier(r, q)
      BY DEF Behind
    <3> QED BY <2>2, <3>1, <3>2 DEF Carries
  <2>4. l.hash = Append(l.prevHash, PayloadOf(l))
    BY <1>2, <1>10 DEF LinesCounted, Counted
  <2>5. LineIssues(l, a.prevHash) = {} <=> l.prevHash = a.prevHash
    BY <2>4, LineClean
  <2>6. q \in Faulty <=> l.prevHash # a.prevHash
    BY <1>1, <2>1, FaultyLine
  <2>7. LinesOf(b.issues) = LinesOf(a.issues) \cup IF q \in Faulty THEN {LineNo(q)} ELSE {}
    BY <1>1, <1>4, <1>5, <1>7, <2>1, <2>5, <2>6
  <2>8. LinesOf(b.issues) = {LineNo(p) : p \in (D \cup {q}) \cap Faulty}
    <3> DEFINE A == {LineNo(p) : p \in D \cap Faulty}
               B == {LineNo(p) : p \in (D \cup {q}) \cap Faulty}
    <3>1. CASE q \in Faulty
      <4>1. B = A \cup {LineNo(q)}
        BY <3>1
      <4> QED BY <1>1, <2>7, <3>1, <4>1
    <3>2. CASE q \notin Faulty
      <4>1. B = A
        BY <3>2
      <4>2. LinesOf(b.issues) = A \cup {}
        BY <1>1, <2>7, <3>2
      <4> QED BY <4>1, <4>2
    <3> QED BY <3>1, <3>2
  <2> QED BY <1>1, <1>5, <1>6, <2>3, <2>8 DEF HasRead
<1> QED BY <1>9, <1>10 DEF Readable

\* One more file, when every line can be decoded.
LEMMA ReadsFile ==
  ASSUME Counting, files \in [FileNo -> Seq(Line)], LinesCounted, NEW f \in FileNo,
         \A i \in DOMAIN files[f] : Readable(files[f][i]),
         NEW a, HasRead({p \in Positions : p[1] > f}, a)
  PROVE  HasRead({p \in Positions : p[1] >= f}, VerifyOneFile(a, files[f]))
<1> DEFINE N == Len(files[f])
           D(k) == {p \in Positions : p[1] > f \/ (p[1] = f /\ p[2] <= k)}
           W == ReplayLines(a, files[f], N)
<1>1. files[f] \in Seq(Line) /\ N \in Nat /\ DOMAIN files[f] = 1 .. N /\ f \in Int /\ N <= Len(files[f])
  BY SMT DEF FileNo
<1>2. ASSUME NEW p \in Positions
      PROVE  p[1] \in Int /\ p[2] \in Int /\ (p[1] = f => p[2] \in 1 .. N)
  <2>1. PICK g \in FileNo : \E i \in DOMAIN files[g] : p = <<g, i>>
    BY PositionPairs
  <2>2. PICK i \in DOMAIN files[g] : p = <<g, i>>
    BY <2>1
  <2>3. p[1] = g /\ p[2] = i
    BY SMT, <2>2
  <2>4. g \in Int /\ i \in Int
    BY SMT, <2>2 DEF FileNo
  <2> HIDE DEF N
  <2> QED BY <1>1, <2>2, <2>3, <2>4
<1>3. a \in Acc
  BY DEF HasRead
<1>4. /\ W[0] = a
      /\ \A k \in 1 .. N : W[k] = VerifyLine(W[k - 1], files[f][k])
  <2> HIDE DEF N
  <2> QED BY <1>1, <1>3, ReplayLinesShape
<1>5. VerifyOneFile(a, files[f]) = W[N]
  <2>1. {i \in DOMAIN files[f] : Malformed(files[f][i])} = {}
    BY DEF Malformed
  <2> QED BY <2>1 DEF VerifyOneFile
<1> HIDE DEF N, W
<1>6. /\ \A k \in 1 .. N : k - 1 \in 0 .. N /\ k \in 0 .. N
      /\ 0 \in 0 .. N /\ N \in 0 .. N
  BY SMT, <1>1
<1>7. D(0) = {p \in Positions : p[1] > f} /\ D(N) = {p \in Positions : p[1] >= f}
  <2>1. ASSUME NEW p \in Positions
        PROVE  /\ (p[1] > f \/ (p[1] = f /\ p[2] <= 0)) <=> p[1] > f
               /\ (p[1] > f \/ (p[1] = f /\ p[2] <= N)) <=> p[1] >= f
    <3>1. p[1] \in Int /\ p[2] \in Int /\ (p[1] = f => p[2] \in 1 .. N)
      BY <1>2
    <3> QED BY SMT, <1>1, <3>1
  <2> QED BY <2>1
<1>8. ASSUME NEW k \in 1 .. N
      PROVE  /\ <<f, k>> \in Positions /\ At(<<f, k>>) = files[f][k]
             /\ Behind(<<f, k>>) = D(k - 1)
             /\ D(k) = D(k - 1) \cup {<<f, k>>}
  <2>1. <<f, k>> \in Positions /\ At(<<f, k>>) = files[f][k]
    BY <1>1, PositionPairs DEF At
  <2>2. ASSUME NEW p \in Positions
        PROVE  /\ Earlier(p, <<f, k>>) <=> (p[1] > f \/ (p[1] = f /\ p[2] <= k - 1))
               /\ (p[1] > f \/ (p[1] = f /\ p[2] <= k)) <=>
                    (p[1] > f \/ (p[1] = f /\ p[2] <= k - 1)) \/ p = <<f, k>>
    <3>1. p[1] \in Int /\ p[2] \in Int
      BY <1>2
    <3>2. k \in Int
      BY SMT, <1>1
    <3>3. p = <<f, k>> <=> p[1] = f /\ p[2] = k
      <4>1. PICK g \in FileNo : \E i \in DOMAIN files[g] : p = <<g, i>>
        BY PositionPairs
      <4>2. PICK i \in DOMAIN files[g] : p = <<g, i>>
        BY <4>1
      <4> QED BY SMT, <4>2
    <3> QED BY SMT, <1>1, <3>1, <3>2, <3>3 DEF Earlier
  <2>3. Behind(<<f, k>>) = D(k - 1)
    BY <2>2 DEF Behind
  <2>4. D(k) = D(k - 1) \cup {<<f, k>>}
    BY <2>1, <2>2
  <2> QED BY <2>1, <2>3, <2>4
<1> HIDE DEF D
<1> DEFINE S == {k \in 0 .. N : HasRead(D(k), W[k])}
<1>9. 0 \in S /\ S \in SUBSET (0 .. N)
  BY <1>4, <1>6, <1>7
<1>10. ASSUME NEW k \in 1 .. N, k - 1 \in S PROVE k \in S
  <2> DEFINE q == <<f, k>>
             b == W[k - 1]
  <2>1. /\ q \in Positions /\ At(q) = files[f][k] /\ Behind(q) = D(k - 1)
        /\ D(k) = D(k - 1) \cup {q} /\ Readable(At(q))
    BY <1>1, <1>8
  <2>2. HasRead(Behind(q), b)
    BY <1>10, <2>1
  <2>3. W[k] = VerifyLine(b, At(q))
    BY <1>4, <2>1
  <2> HIDE DEF q, b
  <2>4. HasRead(Behind(q) \cup {q}, VerifyLine(b, At(q)))
    BY <2>1, <2>2, ReadsLine
  <2> QED BY <1>6, <2>1, <2>3, <2>4
<1> HIDE DEF S
<1>11. \A k \in 0 .. N : k \in S
  BY <1>1, <1>9, <1>10, WalkKeeps
<1>12. HasRead(D(N), W[N])
  BY <1>6, <1>11 DEF S
<1> QED BY <1>5, <1>7, <1>12

\* Before the first line nothing is read.
LEMMA ReadsNothing ==
  ASSUME Counting
  PROVE  HasRead({}, Fresh)
<1>1. LinesOf(Fresh.issues) = {LineNo(q) : q \in {} \cap Faulty}
  BY FreshAcc DEF LinesOf
<1>2. Fresh.line = 0
  BY SMT DEF Fresh
<1>3. Carries({}, Fresh.prevHash)
  BY FreshAcc DEF Carries
<1> QED BY <1>1, <1>2, <1>3, FreshAcc, CountNothing DEF HasRead

LEMMA FlagsTheBreaks ==
  ASSUME Counting
  PROVE  Spec => []VerifyFlagsTheBreaks
<1>1. CountInv => VerifyFlagsTheBreaks
  <2> SUFFICES ASSUME CountInv, ReadablePositions = Positions
               PROVE  LinesOf(Verify.issues) = {LineNo(q) : q \in Faulty}
    BY DEF VerifyFlagsTheBreaks, LinesOf, Faulty
  <2>1. files \in [FileNo -> Seq(Line)] /\ LinesCounted
    BY DEF CountInv, TypeOK
  <2> DEFINE order == RotatedFiles
             N == Len(order)
             W == ReplayFiles(order)
             E(k) == {p \in Positions : \E i \in 1 .. k : p[1] = order[i]}
  <2>2. order \in Seq(FileNo) /\ N \in Nat /\ DOMAIN order = 1 .. N
    BY SMT, RotatedFilesShape
  <2>3. /\ \A f \in FileNo : files[f] # << >> => \E i \in 1 .. N : order[i] = f
        /\ \A i, j \in 1 .. N : i < j => order[i] > order[j]
    BY <2>2, RotatedFilesShape
  <2>4. /\ W[0] = Fresh
        /\ \A k \in 1 .. N : W[k] = VerifyOneFile(W[k - 1], files[order[k]])
    BY <2>1, <2>2, ReplayFilesShape
  <2>5. Verify = W[N]
    BY DEF Verify
  <2> HIDE DEF W, N, order
  <2>6. \A k \in 1 .. N : order[k] \in FileNo /\ order[k] \in Int
    <3>1. \A k \in 1 .. N : order[k] \in FileNo
      BY SMT, <2>2
    <3>2. FileNo \subseteq Int
      BY SMT DEF FileNo
    <3> QED BY <3>1, <3>2
  <2>7. /\ \A k \in 1 .. N : k - 1 \in 0 .. N /\ k \in 0 .. N
        /\ 0 \in 0 .. N /\ N \in 0 .. N
    BY SMT, <2>2
  <2>8. ASSUME NEW p \in Positions PROVE p[1] \in Int /\ \E i \in 1 .. N : p[1] = order[i]
    <3>1. PICK g \in FileNo : \E i \in DOMAIN files[g] : p = <<g, i>>
      BY PositionPairs
    <3>2. PICK i \in DOMAIN files[g] : p = <<g, i>>
      BY <3>1
    <3>3. p[1] = g /\ files[g] # << >> /\ g \in Int
      BY SMT, <3>2 DEF FileNo
    <3> QED BY <2>3, <3>3
  <2>9. ASSUME NEW f \in FileNo, NEW i \in DOMAIN files[f] PROVE Readable(files[f][i])
    <3>1. <<f, i>> \in Positions /\ At(<<f, i>>) = files[f][i]
      BY PositionPairs DEF At
    <3> QED BY <3>1 DEF ReadablePositions
  <2>10. ASSUME NEW k \in 1 .. N
         PROVE  /\ E(k - 1) = {p \in Positions : p[1] > order[k]}
                /\ E(k) = {p \in Positions : p[1] >= order[k]}
    <3>1. ASSUME NEW p \in Positions
          PROVE  /\ (\E i \in 1 .. k - 1 : p[1] = order[i]) <=> p[1] > order[k]
                 /\ (\E i \in 1 .. k : p[1] = order[i]) <=> p[1] >= order[k]
      <4>1. PICK i \in 1 .. N : p[1] = order[i]
        BY <2>8
      <4>2. order[i] \in Int /\ order[k] \in Int /\ i \in Int /\ k \in Int
        BY SMT, <2>2, <2>6
      <4>3. \A j \in 1 .. k : j \in 1 .. N
        BY SMT, <2>2
      <4>4. \A j \in 1 .. k - 1 : j \in 1 .. N /\ j < k /\ j \in 1 .. k
        BY SMT, <2>2
      <4>5. CASE i < k
        <5>1. order[i] > order[k] /\ i \in 1 .. k - 1 /\ i \in 1 .. k
          BY SMT, <2>3, <2>2, <4>5
        <5>2. order[i] >= order[k]
          BY SMT, <4>2, <5>1
        <5> QED BY <4>1, <5>1, <5>2
      <4>6. CASE i = k
        <5>1. ~(order[k] > order[k]) /\ order[k] >= order[k] /\ k \in 1 .. k
          BY SMT, <2>2, <4>2
        <5>2. ASSUME NEW j \in 1 .. k - 1 PROVE p[1] # order[j]
          <6>1. order[j] > order[k]
            BY <2>3, <4>4
          <6> QED BY <4>1, <4>6, <5>1, <6>1
        <5> QED BY <4>1, <4>6, <5>1, <5>2
      <4>7. CASE k < i
        <5>1. order[k] > order[i]
          BY <2>3, <4>7
        <5>2. ~(order[i] > order[k]) /\ ~(order[i] >= order[k])
          BY SMT, <4>2, <5>1
        <5>3. ASSUME NEW j \in 1 .. k PROVE p[1] # order[j]
          <6>1. j \in 1 .. N /\ j < i
            BY SMT, <2>2, <4>3, <4>7
          <6>2. order[j] > order[i] /\ order[j] \in Int
            BY <2>3, <2>6, <6>1
          <6> QED BY SMT, <4>1, <4>2, <6>2
        <5> QED BY <4>1, <4>4, <5>2, <5>3
      <4> QED BY SMT, <4>2, <4>5, <4>6, <4>7
    <3> QED BY <3>1
  <2>11. E(0) = {} /\ E(N) = Positions
    <3>1. ~ \E i \in 1 .. 0 : TRUE
      BY SMT
    <3> QED BY <2>8, <3>1
  <2> HIDE DEF E
  <2> DEFINE S == {k \in 0 .. N : HasRead(E(k), W[k])}
  <2>12. 0 \in S /\ S \in SUBSET (0 .. N)
    BY <2>4, <2>7, <2>11, ReadsNothing
  <2>13. ASSUME NEW k \in 1 .. N, k - 1 \in S PROVE k \in S
    <3> DEFINE f == order[k]
               b == W[k - 1]
    <3>1. f \in FileNo /\ HasRead({p \in Positions : p[1] > f}, b) /\ W[k] = VerifyOneFile(b, files[f])
      BY <2>4, <2>6, <2>10, <2>13
    <3> HIDE DEF f, b
    <3>2. HasRead({p \in Positions : p[1] >= f}, VerifyOneFile(b, files[f]))
      BY <2>1, <2>9, <3>1, ReadsFile
    <3>3. HasRead(E(k), W[k])
      BY <2>10, <3>1, <3>2 DEF f
    <3> QED BY <2>7, <3>3
  <2> HIDE DEF S
  <2>14. \A k \in 0 .. N : k \in S
    BY <2>2, <2>12, <2>13, WalkKeeps
  <2>15. HasRead(Positions, Verify)
    BY <2>5, <2>7, <2>11, <2>14 DEF S
  <2>16. Positions \cap Faulty = Faulty
    <3>1. Faulty \subseteq Positions
      BY DEF Faulty, Breaks, FirstLine, ChainPositions
    <3> QED BY <3>1
  <2> QED BY <2>15, <2>16 DEF HasRead
<1> QED BY <1>1, CountAlways, PTL

-----------------------------------------------------------------------------
(***************************************************************************)
(* A log on which nothing has failed: every line can be decoded, no rename *)
(* overwrites a backup, and from the oldest chain line to the head that is *)
(* on disk no record is missing.                                           *)
(***************************************************************************)
AllReadable == \A a : HasLine(files, a) => Readable(a)

IsChain(fs, a) == HasLine(fs, a) /\ a.kind = "chain"

Dense(fs, h) ==
  \A a : IsChain(fs, a) =>
    \A n \in Nat : Len(a.hash) < n /\ n <= Len(h) => \E c : IsChain(fs, c) /\ Len(c.hash) = n

\* The digest of the newest record that is on disk, if its line still is.
Tip == IF chainOn /\ pc # "idle" THEN raw.prevHash ELSE stateFile.hash

HealthyInv ==
  /\ ChainInv
  /\ SavedInv
  /\ CountInv
  /\ TargetFree
  /\ AllReadable
  /\ Dense(files, Tip)

LEMMA NothingFails ==
  ASSUME TypeOK, faults' = 0
  PROVE  \A k : ~Fault(k)
<1>1. faults \in Nat
  BY SMT DEF TypeOK
<1> QED BY SMT, <1>1 DEF Fault

LEMMA FaultsStay ==
  ASSUME TypeOK, faults' = 0, [Next]_vars
  PROVE  faults = 0
<1>1. \A k : ~Fault(k)
  BY NothingFails
<1> QED BY <1>1 DEF Next, Start, Write, SaveState, SkipRotation, RemoveOldest, ShiftBackup,
                     RotateCurrent, AppendRaw, Stop, LoseState, vars

\* Without a torn line the append adds a line of its own.
LEMMA PlainAppend ==
  ASSUME TypeOK, AllReadable, files' = [files EXCEPT ![0] = AppendLine(files[0], raw)]
  PROVE  /\ files' = [files EXCEPT ![0] = Append(files[0], raw)]
         /\ \A a : HasLine(files', a) <=> HasLine(files, a) \/ a = raw
<1> DEFINE f == files[0]
           g == Append(f, raw)
<1>1. 0 \in FileNo /\ f \in Seq(Line) /\ files \in [FileNo -> Seq(Line)] /\ raw \in Line
  BY SMT, LogAssumption DEF TypeOK, FileNo
<1>2. f = << >> \/ f[Len(f)] # Torn
  <2> SUFFICES ASSUME f # << >> PROVE f[Len(f)] # Torn
    OBVIOUS
  <2>1. Len(f) \in DOMAIN f
    BY SMT, <1>1
  <2>2. Readable(f[Len(f)])
    BY <1>1, <2>1 DEF AllReadable, HasLine
  <2> QED BY <2>2, LineKinds DEF Readable
<1>3. files' = [files EXCEPT ![0] = g]
  BY <1>2 DEF AppendLine
<1>4. /\ \A i \in DOMAIN f : i \in DOMAIN g /\ g[i] = f[i]
      /\ Len(f) + 1 \in DOMAIN g /\ g[Len(f) + 1] = raw
      /\ \A i \in DOMAIN g : i \in DOMAIN f \/ g[i] = raw
  BY SMT, <1>1
<1> HIDE DEF g
<1>5. files'[0] = g /\ \A n \in FileNo : n # 0 => files'[n] = files[n]
  BY <1>1, <1>3
<1>6. ASSUME NEW a, HasLine(files', a) PROVE HasLine(files, a) \/ a = raw
  <2>1. PICK n \in FileNo : \E i \in DOMAIN files'[n] : a = files'[n][i]
    BY <1>6 DEF HasLine
  <2>2. PICK i \in DOMAIN files'[n] : a = files'[n][i]
    BY <2>1
  <2> QED BY <1>4, <1>5, <2>2 DEF HasLine
<1>7. ASSUME NEW a, HasLine(files, a) PROVE HasLine(files', a)
  <2>1. PICK n \in FileNo : \E i \in DOMAIN files[n] : a = files[n][i]
    BY <1>7 DEF HasLine
  <2>2. PICK i \in DOMAIN files[n] : a = files[n][i]
    BY <2>1
  <2>3. CASE n = 0
    BY <1>4, <1>5, <2>2, <2>3 DEF HasLine
  <2>4. CASE n # 0
    BY <1>5, <2>2, <2>4 DEF HasLine
  <2> QED BY <2>3, <2>4
<1>8. HasLine(files', raw)
  BY <1>1, <1>4, <1>5 DEF HasLine
<1> QED BY <1>3, <1>6, <1>7, <1>8 DEF g

LEMMA ChainDigests ==
  ASSUME ChainInv, NEW a, IsChain(files, a)
  PROVE  /\ a.hash \in Digest /\ a.prevHash \in Digest
         /\ Len(a.hash) \in Nat /\ Len(a.prevHash) \in Nat /\ Len(a.hash) = Len(a.prevHash) + 1
<1>1. a \in ChainLine /\ Sealed(a)
  BY LineTypes DEF ChainInv, LinesSealed, IsChain
<1>2. a.hash \in Digest /\ a.prevHash \in Digest
  BY <1>1, ChainLineFields
<1>3. Len(a.hash) \in Nat /\ Len(a.prevHash) \in Nat
  BY SMT, <1>2 DEF Digest
<1> QED BY <1>1, <1>2, <1>3 DEF Sealed

LEMMA HealthyInit == Init => HealthyInv
<1> SUFFICES ASSUME Init PROVE HealthyInv
  OBVIOUS
<1>1. ChainInv /\ CountInv /\ TypeOK
  BY ChainInit, CountInit DEF ChainInv
<1>2. ASSUME NEW a, HasLine(files, a) PROVE a.kind = "legacy"
  <2>1. PICK f \in FileNo : \E i \in DOMAIN files[f] : a = files[f][i]
    BY <1>2 DEF HasLine
  <2>2. PICK i \in DOMAIN files[f] : a = files[f][i]
    BY <2>1
  <2>3. f = 0
    BY SMT, <2>2 DEF Init
  <2>4. files[0] = [k \in 1 .. LegacyLines |-> Legacy(0)]
    BY SMT, LogAssumption DEF Init, FileNo
  <2>5. a = Legacy(0)
    BY <2>2, <2>3, <2>4
  <2> QED BY <2>5 DEF Legacy
<1>3. /\ stateFile = ZeroState /\ state = ZeroState /\ ~up /\ ~chainOn /\ pc = "idle"
  BY DEF Init
<1>4. ZeroState.hash = << >> /\ ZeroState.chain = 0
  BY DEF ZeroState
<1>5. SavedInv
  BY <1>2, <1>3, <1>4 DEF SavedInv, Covers
<1>6. AllReadable /\ Dense(files, Tip) /\ TargetFree
  BY <1>2, <1>3 DEF AllReadable, Readable, Dense, IsChain, TargetFree
<1> QED BY <1>1, <1>5, <1>6 DEF HealthyInv

LEMMA HealthyStep ==
  ASSUME HealthyInv, Next, faults' = 0
  PROVE  HealthyInv'
\* Removing the oldest backup removes the oldest records only.
<1>RemoveKeepsDense.
      ASSUME ChainInv, files' = [files EXCEPT ![MaxBackups] = << >>], NEW h, Dense(files, h)
      PROVE  Dense(files', h)
  <2> USE <1>RemoveKeepsDense
  <2> USE LogAssumption
  <2>1. files \in [FileNo -> Seq(Line)] /\ MaxBackups \in FileNo /\ TypeOK
    BY SMT DEF ChainInv, TypeOK, FileNo
  <2>2. files'[MaxBackups] = << >> /\ \A n \in FileNo : n # MaxBackups => files'[n] = files[n]
    BY <2>1
  <2>3. ~ \E i \in DOMAIN << >> : TRUE
    BY SMT
  <2>4. ASSUME NEW a, NEW c, IsChain(files', a), IsChain(files, c), Len(a.hash) < Len(c.hash)
        PROVE  IsChain(files', c)
    <3>1. PICK n \in FileNo : \E i \in DOMAIN files'[n] : a = files'[n][i]
      BY <2>4 DEF HasLine, IsChain
    <3>2. n # MaxBackups
      BY <2>2, <2>3, <3>1
    <3>3. PICK i \in DOMAIN files[n] : a = files[n][i]
      BY <2>2, <3>1, <3>2
    <3>4. PICK m \in FileNo : \E j \in DOMAIN files[m] : c = files[m][j]
      BY <2>4 DEF HasLine, IsChain
    <3>5. PICK j \in DOMAIN files[m] : c = files[m][j]
      BY <3>4
    <3>6. CASE m # MaxBackups
      <4>1. HasLine(files', c)
        BY <2>2, <3>5, <3>6 DEF HasLine
      <4> QED BY <2>4, <4>1 DEF IsChain
    <3>7. CASE m = MaxBackups
      <4>1. m > n
        BY SMT, <3>2, <3>7 DEF FileNo
      <4>2. HasPair(files, c, a) /\ IsChain(files, a)
        BY <2>4, <3>3, <3>5, <4>1 DEF HasPair, HasLine, IsChain
      <4>3. Commits(a.prevHash, c.hash)
        BY <2>4, <4>2 DEF ChainInv, PairsLinked, IsChain
      <4>4. /\ Len(a.hash) \in Nat /\ Len(a.prevHash) \in Nat /\ Len(a.hash) = Len(a.prevHash) + 1
            /\ Len(c.hash) \in Nat
        BY <2>4, <4>2, ChainDigests
      <4>5. Len(c.hash) <= Len(a.prevHash)
        BY <4>3 DEF Commits
      <4>6. FALSE
        BY SMT, <2>4, <4>4, <4>5
      <4> QED BY <4>6
    <3> QED BY <3>6, <3>7
  <2>5. \A a : IsChain(files', a) => IsChain(files, a)
    <3>1. Shrinks(files, files')
      BY <2>1, ClearShrinks
    <3> QED BY <3>1 DEF Shrinks, IsChain
  <2> SUFFICES ASSUME NEW a, IsChain(files', a), NEW n \in Nat, Len(a.hash) < n, n <= Len(h)
               PROVE  \E c : IsChain(files', c) /\ Len(c.hash) = n
    BY DEF Dense
  <2>6. PICK c : IsChain(files, c) /\ Len(c.hash) = n
    BY <2>5 DEF Dense
  <2> QED BY <2>4, <2>6
\* The record in hand is the one after the tip.
<1>AppendKeepsDense.
      ASSUME HealthyInv, pc = "append", files' = [files EXCEPT ![0] = AppendLine(files[0], raw)]
      PROVE  Dense(files', stateFile.hash)
  <2> USE <1>AppendKeepsDense
  <2>1. TypeOK /\ AllReadable /\ ChainInv /\ Dense(files, Tip) /\ pc # "idle" /\ pc # "save" /\ up
    BY DEF HealthyInv, ChainInv, DownIsIdle
  <2>2. \A a : HasLine(files', a) <=> HasLine(files, a) \/ a = raw
    BY <2>1, PlainAppend
  <2>3. CASE ~chainOn
    <3>1. raw.kind # "chain" /\ Tip = stateFile.hash
      BY <2>1, <2>3 DEF ChainInv, InHand, Tip
    <3>2. \A a : IsChain(files', a) <=> IsChain(files, a)
      BY <2>2, <3>1 DEF IsChain
    <3> QED BY <2>1, <3>1, <3>2 DEF Dense
  <2>4. CASE chainOn
    <3>1. /\ raw.kind = "chain" /\ Sealed(raw) /\ raw.hash = state.hash /\ Tip = raw.prevHash
          /\ stateFile = state
      BY <2>1, <2>4 DEF ChainInv, InHand, Tip, HealthyInv, SavedInv
    <3>2. raw \in ChainLine
      BY <2>1, <3>1, LineKinds DEF TypeOK
    <3>3. Len(raw.hash) \in Nat /\ Len(raw.prevHash) \in Nat /\ Len(raw.hash) = Len(raw.prevHash) + 1
      BY SMT, <3>1, <3>2, ChainLineFields DEF Digest, Sealed
    <3>4. \A a : IsChain(files', a) <=> IsChain(files, a) \/ a = raw
      BY <2>2, <3>1 DEF IsChain
    <3>5. ASSUME NEW a, IsChain(files', a), NEW n \in Nat, Len(a.hash) < n, n <= Len(raw.hash)
          PROVE  \E c : IsChain(files', c) /\ Len(c.hash) = n
      <4>1. CASE n = Len(raw.hash)
        BY <3>4, <4>1
      <4>2. CASE n # Len(raw.hash)
        <5>1. n <= Len(raw.prevHash)
          BY SMT, <3>3, <3>5, <4>2
        <5>2. a # raw
          <6> SUFFICES ASSUME a = raw PROVE FALSE
            OBVIOUS
          <6>1. Len(raw.hash) < n
            BY <3>5
          <6> QED BY SMT, <3>3, <5>1, <6>1
        <5>3. IsChain(files, a)
          BY <3>4, <3>5, <5>2
        <5>4. PICK c : IsChain(files, c) /\ Len(c.hash) = n
          BY <2>1, <3>1, <3>5, <5>1, <5>3 DEF Dense
        <5> QED BY <3>4, <5>4
      <4> QED BY <4>1, <4>2
    <3> QED BY <3>1, <3>5 DEF Dense
  <2> QED BY <2>3, <2>4
\* A rename onto a free name changes no line.
<1>RenameKeepsDense.
      ASSUME TypeOK, NEW n \in FileNo, n + 1 \in FileNo, files[n + 1] = << >>, Rename(n, n + 1)
      PROVE  \A h : Dense(files, h) => Dense(files', h)
  <2> USE <1>RenameKeepsDense
  <2>1. Shrinks(files, files')
    BY RenameShrinks DEF Rename, TypeOK
  <2>2. \A a : HasLine(files', a) <=> HasLine(files, a)
    BY <2>1, RenameKeeps DEF Shrinks
  <2>3. \A a : IsChain(files', a) <=> IsChain(files, a)
    BY <2>2 DEF IsChain
  <2> QED BY <2>3 DEF Dense
<1> USE LogAssumption
<1>1. /\ TypeOK /\ ChainInv /\ SavedInv /\ CountInv /\ TargetFree /\ AllReadable
      /\ Dense(files, Tip) /\ files \in [FileNo -> Seq(Line)]
  BY DEF HealthyInv, ChainInv, TypeOK
<1>2. \A k : ~Fault(k)
  BY <1>1, NothingFails
<1>3. ChainInv' /\ SavedInv' /\ CountInv' /\ TargetFree'
  BY <1>1, <1>2, ChainStep, SavedStep, CountStep, FreeStep
<1>4. CASE AppendRaw
  <2>1. /\ pc = "append" /\ pc' = "idle" /\ UNCHANGED <<stateFile, chainOn>>
        /\ files' = [files EXCEPT ![0] = AppendLine(files[0], raw)]
    BY <1>2, <1>4 DEF AppendRaw, procVars
  <2>2. Readable(raw)
    BY <1>1, <2>1 DEF ChainInv, InHand, Readable
  <2>3. AllReadable'
    BY <1>1, <2>1, <2>2, PlainAppend DEF AllReadable
  <2>4. Dense(files', stateFile.hash)
    BY <2>1, <1>AppendKeepsDense
  <2>5. Dense(files, Tip)'
    BY <2>1, <2>4 DEF Tip
  <2> QED BY <1>3, <2>3, <2>5 DEF HealthyInv
<1>5. CASE ~AppendRaw
  <2>1. Shrinks(files, files')
    BY <1>1, <1>5, FileStep
  <2>2. AllReadable'
    BY <1>1, <2>1 DEF AllReadable, Shrinks
  <2>3. Tip' = Tip
    <3>1. CASE Write
      <4>1. /\ UNCHANGED <<stateFile, chainOn, up>> /\ up /\ pc = "idle"
            /\ chainOn => raw' = SealChain(state, written + 1).line
        BY <3>1 DEF Write
      <4>2. chainOn => stateFile = state
        BY <1>1, <4>1 DEF SavedInv
      <4>3. pc' # "idle"
        BY <3>1 DEF Write
      <4>4. chainOn => raw'.prevHash = state.hash
        <5>1. state \in ChainState /\ written + 1 \in Nat
          BY SMT, <1>1 DEF TypeOK
        <5> DEFINE sl == SealChain(state, written + 1)
        <5>2. sl.line.prevHash = state.hash
          BY <5>1, SealChainType
        <5> HIDE DEF sl
        <5> QED BY <4>1, <5>2 DEF sl
      <4> QED BY <4>1, <4>2, <4>3, <4>4 DEF Tip
    <3>2. CASE SaveState
      <4>1. pc = "save" /\ pc' = "rotate" /\ UNCHANGED <<chainOn, raw>>
        BY <3>2 DEF SaveState, procVars
      <4>2. chainOn /\ pc # "idle" /\ pc' # "idle"
        BY <1>1, <4>1 DEF ChainInv, InHand
      <4> QED BY <4>1, <4>2 DEF Tip
    <3>3. CASE SkipRotation \/ RemoveOldest \/ ShiftBackup \/ RotateCurrent
      <4>1. /\ UNCHANGED <<stateFile, chainOn, raw>>
            /\ pc # "idle" /\ pc' # "idle"
        BY <1>2, <3>3 DEF SkipRotation, RemoveOldest, ShiftBackup, RotateCurrent, procVars
      <4> QED BY <4>1 DEF Tip
    <3>4. CASE Stop \/ \E on \in ChainModes : Start(on)
      <4>1. pc = "idle" /\ pc' = "idle" /\ UNCHANGED stateFile
        BY <1>1, <1>2, <3>4 DEF Stop, Start, ChainInv, DownIsIdle
      <4> QED BY <4>1 DEF Tip
    <3>5. ~LoseState
      BY <1>2 DEF LoseState
    <3> QED BY <1>5, <3>1, <3>2, <3>3, <3>4, <3>5 DEF Next
  <2>4. Dense(files', Tip)
    <3>1. CASE RemoveOldest
      <4>1. files' = [files EXCEPT ![MaxBackups] = << >>]
        BY <1>2, <3>1 DEF RemoveOldest
      <4> QED BY <1>1, <4>1, <1>RemoveKeepsDense
    <3>2. CASE ShiftBackup
      <4>1. shift \in FileNo /\ shift + 1 \in FileNo /\ files[shift + 1] = << >>
        BY SMT, <1>1, <3>2 DEF ShiftBackup, TypeOK, FileNo, TargetFree
      <4>2. Rename(shift, shift + 1) \/ UNCHANGED files
        BY <3>2 DEF ShiftBackup
      <4> QED BY <1>1, <4>1, <4>2, <1>RenameKeepsDense
    <3>3. CASE RotateCurrent
      <4>1. 0 \in FileNo /\ 0 + 1 \in FileNo /\ files[0 + 1] = << >>
        BY SMT, <1>1, <3>3 DEF RotateCurrent, FileNo, TargetFree
      <4>2. Rename(0, 0 + 1) \/ UNCHANGED files
        BY SMT, <3>3 DEF RotateCurrent
      <4> QED BY <1>1, <4>1, <4>2, <1>RenameKeepsDense
    <3>4. ~RemoveOldest /\ ~ShiftBackup /\ ~RotateCurrent => UNCHANGED files
      BY <1>5 DEF Next, Start, Write, SaveState, SkipRotation, Stop, LoseState
    <3> QED BY <1>1, <3>1, <3>2, <3>3, <3>4
  <2>5. Dense(files, Tip)'
    BY <2>3, <2>4
  <2> QED BY <1>3, <2>2, <2>5 DEF HealthyInv
<1> QED BY <1>4, <1>5

LEMMA HealthyNotFaulty ==
  ASSUME HealthyInv, Rooted
  PROVE  Faulty = {}
\* Where nothing has failed the chain is not broken.
<1>HealthyIsWhole.
      ASSUME HealthyInv
      PROVE  Breaks = {}
  <2> USE <1>HealthyIsWhole
  <2>TipCovers.
        ASSUME HealthyInv
        PROVE  Covers(files, Tip)
    BY <2>TipCovers DEF HealthyInv, ChainInv, InHand, SavedInv, Tip
  <2>EarlierTotal.
        ASSUME files \in [FileNo -> Seq(Line)], NEW p \in Positions, NEW q \in Positions, p # q
        PROVE  Earlier(p, q) \/ Earlier(q, p)
    <3> USE <2>EarlierTotal
    <3>1. PICK f \in FileNo : \E i \in DOMAIN files[f] : p = <<f, i>>
      BY PositionPairs
    <3>2. PICK i \in DOMAIN files[f] : p = <<f, i>>
      BY <3>1
    <3>3. PICK g \in FileNo : \E j \in DOMAIN files[g] : q = <<g, j>>
      BY PositionPairs
    <3>4. PICK j \in DOMAIN files[g] : q = <<g, j>>
      BY <3>3
    <3>5. f \in Int /\ g \in Int /\ i \in Int /\ j \in Int
      BY SMT, <3>2, <3>4 DEF FileNo
    <3>6. f # g \/ i # j
      BY <3>2, <3>4
    <3> QED BY SMT, <3>2, <3>4, <3>5, <3>6 DEF Earlier
  <2> SUFFICES ASSUME NEW q \in Breaks PROVE FALSE
    OBVIOUS
  <2>1. PICK p \in ChainPositions :
          /\ q \in ChainPositions /\ Earlier(p, q)
          /\ \A r \in ChainPositions : ~(Earlier(p, r) /\ Earlier(r, q))
          /\ At(q).prevHash # At(p).hash
    BY DEF Breaks
  <2>2. ChainInv /\ files \in [FileNo -> Seq(Line)] /\ Dense(files, Tip)
    BY DEF HealthyInv, ChainInv, TypeOK
  <2>3. \A r \in ChainPositions : r \in Positions /\ IsChain(files, At(r))
    BY PairsArePositions DEF ChainPositions, IsChain
  <2> DEFINE P == At(p).hash
             H == At(q).prevHash
  <2>4. /\ P \in Digest /\ H \in Digest /\ Len(P) \in Nat /\ Len(H) \in Nat
        /\ Len(At(q).hash) \in Nat /\ Len(At(q).hash) = Len(H) + 1
    BY <2>1, <2>2, <2>3, ChainDigests
  <2>5. Commits(H, P)
    BY <2>1, <2>2, ChainAtPositions
  <2>6. Len(P) < Len(H)
    <3>1. Len(P) <= Len(H)
      BY <2>5 DEF Commits
    <3>2. ASSUME Len(P) = Len(H) PROVE FALSE
      <4>1. Commits(H, H)
        BY <2>4, CommitsReflexive
      <4>2. P = H
        BY <2>4, <2>5, <3>2, <4>1, CommitsSame
      <4> QED BY <2>1, <4>2
    <3> HIDE DEF P, H
    <3> QED BY SMT, <2>4, <3>1, <3>2
  <2>7. Len(At(q).hash) <= Len(Tip)
    BY <2>1, <2>3, <2>TipCovers DEF Covers, IsChain, Commits
  <2>8. Len(Tip) \in Nat
    <3>1. Tip \in Digest
      <4>1. chainOn /\ pc # "idle" => raw \in ChainLine
        BY <2>2, LineKinds DEF ChainInv, InHand, TypeOK
      <4> QED BY <2>2, <4>1, ChainLineFields, StateFields DEF Tip, ChainInv, TypeOK
    <3> QED BY SMT, <3>1 DEF Digest
  <2> DEFINE n == Len(P) + 1
  <2>9. n \in Nat /\ Len(P) < n /\ n <= Len(Tip) /\ n < Len(At(q).hash)
    <3> HIDE DEF P, H
    <3> QED BY SMT, <2>4, <2>6, <2>7, <2>8
  <2> HIDE DEF n
  <2>10. PICK c : IsChain(files, c) /\ Len(c.hash) = n
    BY <2>1, <2>2, <2>3, <2>9 DEF Dense
  <2>11. PICK r \in Positions : c = At(r)
    BY <2>10, PairsArePositions DEF IsChain
  <2>12. r \in ChainPositions
    BY <2>10, <2>11 DEF ChainPositions, IsChain
  <2>13. \A s \in ChainPositions : At(s).seq = Len(At(s).hash)
    BY <2>2, <2>3 DEF ChainInv, LinesSealed, IsChain, Sealed
  <2>14. At(p).seq < At(r).seq /\ At(r).seq < At(q).seq
    BY <2>1, <2>9, <2>10, <2>11, <2>12, <2>13
  <2>15. At(p).seq \in Nat /\ At(r).seq \in Nat /\ At(q).seq \in Nat
    BY <2>1, <2>4, <2>9, <2>10, <2>11, <2>12, <2>13
  <2>16. ~(At(r).seq < At(p).seq) /\ ~(At(q).seq < At(r).seq) /\ At(r).seq # At(p).seq /\ At(r).seq # At(q).seq
    BY SMT, <2>14, <2>15
  <2>17. r # p /\ r # q
    BY <2>16
  <2>18. Earlier(p, r) /\ Earlier(r, q)
    BY <2>1, <2>2, <2>3, <2>12, <2>16, <2>17, <2>EarlierTotal, ChainAtPositions
  <2> QED BY <2>1, <2>12, <2>18
<1> QED BY <1>HealthyIsWhole DEF Faulty, Rooted

(***************************************************************************)
(* The walk of a request, as long as no file was moved: what it has read   *)
(* is what stands in the files before the next name, and no name it has    *)
(* listed is gone.  Lines are appended to the current file only, which is  *)
(* the last it reads.                                                      *)
(***************************************************************************)
Before(f) == {p \in Positions : p[1] > f}

Quiet(D, a) ==
  /\ a \in Acc
  /\ IsFiniteSet(D) /\ a.line = Cardinality(D)
  /\ Carries(D, a.prevHash)
  /\ a.issues = {}

Listed(fs, names) ==
  /\ names \in Seq(FileNo)
  /\ \A i \in DOMAIN names : fs[names[i]] # << >>
  /\ \A i, j \in DOMAIN names : i < j => names[i] > names[j]
  /\ \A f \in FileNo : f # 0 /\ fs[f] # << >> /\ (\E i \in DOMAIN names : f <= names[i]) =>
       \E i \in DOMAIN names : names[i] = f

WalkInv ==
  ~moved =>
    /\ req = "walk" => Listed(files, todo)
    /\ Rooted => /\ acc.issues = {}
                 /\ req = "walk" /\ todo # << >> => Quiet(Before(Head(todo)), acc)

CleanInv == TypeOK /\ (faults = 0 => HealthyInv /\ WalkInv)

\* What is read stays what it was when files not read yet grow.
LEMMA QuietKept ==
  ASSUME NEW f \in FileNo, \A g \in FileNo : g > f => files'[g] = files[g], NEW a, Quiet(Before(f), a)
  PROVE  Quiet(Before(f), a)'
<1>1. ASSUME NEW p PROVE /\ p \in Before(f) <=> p \in Before(f)'
                         /\ p \in Before(f) => At(p)' = At(p)
  <2>1. \A g \in FileNo : \A i : p = <<g, i>> => p[1] = g /\ p[2] = i
    BY SMT
  <2>2. p \in Before(f) <=> \E g \in FileNo : \E i \in DOMAIN files[g] : p = <<g, i>> /\ g > f
    <3>1. p \in Positions <=> \E g \in FileNo : \E i \in DOMAIN files[g] : p = <<g, i>>
      BY PositionPairs
    <3> QED BY <2>1, <3>1 DEF Before
  <2>3. p \in Positions' <=> \E g \in FileNo : \E i \in DOMAIN files'[g] : p = <<g, i>>
    BY SMT DEF Positions
  <2>4. p \in Before(f)' <=> \E g \in FileNo : \E i \in DOMAIN files'[g] : p = <<g, i>> /\ g > f
    BY <2>1, <2>3 DEF Before
  <2>5. p \in Before(f) => At(p)' = At(p)
    BY <2>1, <2>2 DEF At
  <2> QED BY <2>2, <2>4, <2>5
<1> DEFINE D == Before(f)
<1>2. D' = D /\ D \subseteq Positions /\ D' \subseteq Positions'
  BY <1>1 DEF Before
<1>3. \A p : p \in D \cap ChainPositions <=> p \in D' \cap ChainPositions'
  BY <1>1, <1>2 DEF ChainPositions
<1>4. \A p \in D : At(p)' = At(p)
  BY <1>1
<1>5. Carries(D, a.prevHash)'
  <2>1. Carries(D, a.prevHash)
    BY DEF Quiet
  <2>2. D' \cap ChainPositions' = D \cap ChainPositions
    BY <1>3
  <2>3. \A p, q : Earlier(p, q)' <=> Earlier(p, q)
    BY DEF Earlier
  <2> HIDE DEF D
  <2> QED BY <1>4, <2>1, <2>2, <2>3 DEF Carries
<1>6. /\ a \in Acc /\ IsFiniteSet(D) /\ a.line = Cardinality(D) /\ a.issues = {}
  BY DEF Quiet
<1>7. Acc' = Acc
  BY DEF Acc, Issue
<1> HIDE DEF D
<1>8. Quiet(D, a)'
  BY <1>2, <1>5, <1>6, <1>7 DEF Quiet
<1> QED BY <1>8 DEF D

\* Steps that leave the files alone or append to the current one.
Grown == files' = files \/ files' = [files EXCEPT ![0] = Append(files[0], raw)]

LEMMA GrownFiles ==
  ASSUME TypeOK, Grown
  PROVE  /\ \A f \in FileNo : f # 0 => files'[f] = files[f]
         /\ \A f \in FileNo : \A i \in DOMAIN files[f] : i \in DOMAIN files'[f] /\ files'[f][i] = files[f][i]
         /\ \A i \in DOMAIN files'[0] : i \in DOMAIN files[0] \/ (\A j \in DOMAIN files[0] : ~(i < j))
<1>1. 0 \in FileNo /\ files \in [FileNo -> Seq(Line)] /\ raw \in Line
  BY SMT, LogAssumption DEF TypeOK, FileNo
<1>2. CASE files' = files
  BY <1>2
<1>3. CASE files' = [files EXCEPT ![0] = Append(files[0], raw)]
  <2> DEFINE f == files[0]
             g == Append(f, raw)
  <2>1. f \in Seq(Line)
    BY <1>1
  <2> HIDE DEF f
  <2>2. /\ \A i \in DOMAIN f : i \in DOMAIN g /\ g[i] = f[i]
        /\ \A i \in DOMAIN g : i \in DOMAIN f \/ \A j \in DOMAIN f : ~(i < j)
    BY SMT, <1>1, <2>1
  <2> HIDE DEF g
  <2>3. files'[0] = g /\ files[0] = f /\ \A n \in FileNo : n # 0 => files'[n] = files[n]
    BY <1>1, <1>3 DEF f, g
  <2>4. ASSUME NEW n \in FileNo, NEW i \in DOMAIN files[n]
        PROVE  i \in DOMAIN files'[n] /\ files'[n][i] = files[n][i]
    <3>1. CASE n = 0
      BY <2>2, <2>3, <3>1
    <3>2. CASE n # 0
      BY <2>3, <3>2
    <3> QED BY <3>1, <3>2
  <2> QED BY <2>2, <2>3, <2>4
<1> QED BY <1>2, <1>3 DEF Grown

LEMMA GrownRooted ==
  ASSUME TypeOK, Grown, Rooted'
  PROVE  Rooted
<1> SUFFICES ASSUME NEW q \in FirstLine PROVE At(q).prevHash = << >>
  BY DEF Rooted
<1>1. q \in ChainPositions /\ \A p \in ChainPositions : ~Earlier(p, q)
  BY DEF FirstLine
<1>2. PICK g \in FileNo : \E j \in DOMAIN files[g] : q = <<g, j>>
  BY <1>1, PositionPairs DEF ChainPositions
<1>3. PICK j \in DOMAIN files[g] : q = <<g, j>>
  BY <1>2
<1>4. ASSUME NEW n \in FileNo, NEW i \in DOMAIN files[n]
      PROVE  At(<<n, i>>)' = At(<<n, i>>) /\ <<n, i>> \in Positions /\ <<n, i>> \in Positions'
  <2>1. i \in DOMAIN files'[n] /\ files'[n][i] = files[n][i]
    BY GrownFiles
  <2>2. <<n, i>> \in Positions
    BY PositionPairs
  <2>3. <<n, i>> \in Positions'
    BY SMT, <2>1 DEF Positions
  <2> QED BY <2>1, <2>2, <2>3 DEF At
<1>5. q \in ChainPositions' /\ At(q)' = At(q)
  BY <1>1, <1>3, <1>4 DEF ChainPositions
<1>6. ASSUME NEW p \in ChainPositions', Earlier(p, q) PROVE FALSE
  <2>1. PICK n \in FileNo : \E i \in DOMAIN files'[n] : p = <<n, i>>
    BY SMT DEF ChainPositions, Positions
  <2>2. PICK i \in DOMAIN files'[n] : p = <<n, i>>
    BY <2>1
  <2>3. CASE i \in DOMAIN files[n]
    <3>1. p \in ChainPositions
      BY <1>4, <2>2, <2>3 DEF ChainPositions
    <3> QED BY <1>1, <1>6, <3>1
  <2>4. CASE i \notin DOMAIN files[n]
    <3>1. n = 0 /\ \A k \in DOMAIN files[0] : ~(i < k)
      BY <2>2, <2>4, GrownFiles
    <3>2. n > g \/ (n = g /\ i < j)
      BY SMT, <1>3, <1>6, <2>2 DEF Earlier
    <3>3. ~(n > g)
      BY SMT, <3>1 DEF FileNo
    <3> QED BY <1>3, <3>1, <3>2, <3>3
  <2> QED BY <2>3, <2>4
<1>7. q \in FirstLine'
  <2>1. \A p \in ChainPositions' : ~Earlier(p, q)
    BY <1>6
  <2> QED BY <1>5, <2>1 DEF FirstLine, Earlier
<1>8. At(q)'.prevHash = << >>
  BY <1>7 DEF Rooted
<1> QED BY <1>5, <1>8

\* The walk does not notice an append.
LEMMA WalkKept ==
  ASSUME TypeOK, WalkInv, Grown, todo' = todo, acc' = acc, moved' \/ ~moved,
         req' = "walk" => req = "walk"
  PROVE  WalkInv'
<1>GrownListed.
      ASSUME TypeOK, Grown, NEW names, Listed(files, names)
      PROVE  Listed(files', names)
  <2> USE <1>GrownListed
  <2>1. /\ names \in Seq(FileNo)
        /\ \A i \in DOMAIN names : files[names[i]] # << >>
        /\ \A i, j \in DOMAIN names : i < j => names[i] > names[j]
        /\ \A f \in FileNo : f # 0 /\ files[f] # << >> /\ (\E i \in DOMAIN names : f <= names[i]) =>
             \E i \in DOMAIN names : names[i] = f
    BY DEF Listed
  <2>2. ASSUME NEW f \in FileNo, files[f] # << >> PROVE files'[f] # << >>
    <3>1. files[f] \in Seq(Line)
      BY DEF TypeOK
    <3>2. 1 \in DOMAIN files[f]
      BY SMT, <2>2, <3>1
    <3>3. 1 \in DOMAIN files'[f]
      BY <3>2, GrownFiles
    <3> QED BY SMT, <3>3
  <2>3. \A i \in DOMAIN names : names[i] \in FileNo
    BY SMT, <2>1
  <2>4. \A i \in DOMAIN names : files'[names[i]] # << >>
    BY <2>1, <2>2, <2>3
  <2>5. \A f \in FileNo : f # 0 => files'[f] = files[f]
    BY GrownFiles
  <2> QED BY <2>1, <2>4, <2>5 DEF Listed
<1> SUFFICES ASSUME ~moved' PROVE WalkInv'
  BY DEF WalkInv
<1>1. ~moved
  OBVIOUS
<1>2. req' = "walk" => Listed(files, todo)'
  <2> SUFFICES ASSUME req' = "walk" PROVE Listed(files', todo)
    BY DEF Listed
  <2>1. Listed(files, todo)
    BY <1>1 DEF WalkInv
  <2> QED BY <2>1, <1>GrownListed
<1>3. ASSUME Rooted' PROVE acc'.issues = {}
  BY <1>1, <1>3, GrownRooted DEF WalkInv
<1>4. ASSUME Rooted', req' = "walk", todo' # << >> PROVE Quiet(Before(Head(todo)), acc)'
  <2>1. PICK f, a : f = Head(todo) /\ a = acc
    OBVIOUS
  <2>2. Quiet(Before(f), a) /\ Listed(files, todo)
    BY <1>1, <1>4, <2>1, GrownRooted DEF WalkInv
  <2>3. f \in FileNo
    BY SMT, <1>4, <2>1, <2>2 DEF Listed
  <2>4. \A g \in FileNo : g > f => g # 0
    BY SMT, <2>3 DEF FileNo
  <2>5. \A g \in FileNo : g > f => files'[g] = files[g]
    BY <2>4, GrownFiles
  <2>6. Quiet(Before(f), a)'
    BY <2>2, <2>3, <2>5, QuietKept
  <2>7. f = Head(todo)' /\ a = acc'
    BY <2>1
  <2> QED BY <2>6, <2>7 DEF Before, Quiet
<1> QED BY <1>1, <1>2, <1>3, <1>4 DEF WalkInv

\* A request begins.
LEMMA BeginsQuiet ==
  ASSUME Counting, TypeOK, BeginVerify
  PROVE  WalkInv'
<1>1. /\ files' = files /\ todo' = RotatedFiles /\ acc' = Fresh
  BY DEF BeginVerify, vars
<1> DEFINE names == RotatedFiles
<1>2. /\ names \in Seq(FileNo)
      /\ \A f \in FileNo : files[f] # << >> => \E i \in DOMAIN names : names[i] = f
      /\ \A i \in DOMAIN names : files[names[i]] # << >>
      /\ \A i, j \in DOMAIN names : i < j => names[i] > names[j]
  BY RotatedFilesShape
<1> HIDE DEF names
<1>3. Listed(files, names)
  BY <1>2 DEF Listed
<1>4. Listed(files, todo)'
  <2>1. PICK s : s = names
    OBVIOUS
  <2> QED BY <1>1, <1>3, <2>1 DEF Listed, names
<1>5. acc'.issues = {}
  BY <1>1, FreshAcc
<1>6. ASSUME todo' # << >> PROVE Quiet(Before(Head(todo)), acc)'
  <2>1. PICK f : f = Head(names)
    OBVIOUS
  <2>2. names # << >> /\ f = Head(todo)'
    BY <1>1, <1>6, <2>1 DEF names
  <2>3. f \in FileNo /\ \A i \in DOMAIN names : ~(names[i] > f)
    <3>1. f \in FileNo /\ 1 \in DOMAIN names /\ f = names[1] /\ \A i \in DOMAIN names : i = 1 \/ 1 < i
      BY SMT, <1>2, <2>1, <2>2
    <3>2. \A i \in DOMAIN names : i = 1 \/ names[1] > names[i]
      BY <1>2, <3>1
    <3>3. \A i \in DOMAIN names : names[i] \in FileNo
      BY SMT, <1>2
    <3>4. \A m, n \in FileNo : n = m \/ m > n => ~(n > m)
      BY SMT DEF FileNo
    <3> QED BY <3>1, <3>2, <3>3, <3>4
  <2>4. Before(f) = {}
    <3> SUFFICES ASSUME NEW p \in Positions, p[1] > f PROVE FALSE
      BY DEF Before
    <3>1. PICK g \in FileNo : \E i \in DOMAIN files[g] : p = <<g, i>>
      BY PositionPairs
    <3>2. p[1] = g /\ files[g] # << >>
      BY SMT, <3>1
    <3> QED BY <1>2, <2>3, <3>2
  <2>5. Quiet({}, Fresh)
    BY ReadsNothing, FreshAcc DEF HasRead, Quiet
  <2>6. Quiet(Before(f), Fresh)'
    BY <1>1, <2>3, <2>4, <2>5, QuietKept
  <2> QED BY <1>1, <2>2, <2>6 DEF Before, Quiet
<1> QED BY <1>4, <1>5, <1>6 DEF WalkInv

\* The next file of a request.
LEMMA ReadsQuiet ==
  ASSUME Counting, HealthyInv, WalkInv, ReadFile
  PROVE  WalkInv'
<1>ListedTail.
      ASSUME NEW fs, NEW names, Listed(fs, names), names # << >>
      PROVE  /\ Listed(fs, Tail(names)) /\ Head(names) \in FileNo /\ fs[Head(names)] # << >>
             /\ \A i \in DOMAIN Tail(names) : Tail(names)[i] < Head(names)
  <2> USE <1>ListedTail
  <2> DEFINE rest == Tail(names)
  <2>1. /\ names \in Seq(FileNo)
        /\ \A i \in DOMAIN names : fs[names[i]] # << >>
        /\ \A i, j \in DOMAIN names : i < j => names[i] > names[j]
        /\ \A f \in FileNo : f # 0 /\ fs[f] # << >> /\ (\E i \in DOMAIN names : f <= names[i]) =>
             \E i \in DOMAIN names : names[i] = f
    BY DEF Listed
  <2>2. /\ rest \in Seq(FileNo)
        /\ \A i \in DOMAIN rest : i + 1 \in DOMAIN names /\ rest[i] = names[i + 1] /\ 1 < i + 1
        /\ \A i \in DOMAIN names : i = 1 \/ (i - 1 \in DOMAIN rest /\ rest[i - 1] = names[i])
        /\ 1 \in DOMAIN names /\ Head(names) = names[1]
        /\ \A i, j \in DOMAIN rest : i < j => i + 1 < j + 1
    BY SMT, <2>1
  <2>3. \A i \in DOMAIN names : names[i] \in FileNo /\ names[i] \in Int
    <3>1. names \in Seq(FileNo)
      BY <2>1
    <3>2. \A i \in DOMAIN names : names[i] \in FileNo
      BY SMT, <3>1
    <3>3. FileNo \subseteq Int
      BY SMT DEF FileNo
    <3> QED BY <3>2, <3>3
  <2> HIDE DEF rest
  <2>4. \A i \in DOMAIN rest : names[1] > rest[i] /\ rest[i] \in Int /\ fs[rest[i]] # << >>
    <3> SUFFICES ASSUME NEW i \in DOMAIN rest
                 PROVE  names[1] > rest[i] /\ rest[i] \in Int /\ fs[rest[i]] # << >>
      OBVIOUS
    <3>1. PICK k \in DOMAIN names : rest[i] = names[k] /\ 1 < k
      BY <2>2
    <3> QED BY <2>1, <2>2, <2>3, <3>1
  <2>5. \A i, j \in DOMAIN rest : i < j => rest[i] > rest[j]
    BY <2>1, <2>2
  <2>6. ASSUME NEW f \in FileNo, f # 0, fs[f] # << >>, NEW i \in DOMAIN rest, f <= rest[i]
        PROVE  \E k \in DOMAIN rest : rest[k] = f
    <3>1. PICK k \in DOMAIN names : names[k] = f
      BY <2>1, <2>2, <2>6
    <3>2. f # names[1]
      <4>1. f \in Int /\ rest[i] \in Int /\ names[1] \in Int /\ names[1] > rest[i]
        BY <2>2, <2>3, <2>4, <3>1
      <4> QED BY SMT, <2>6, <4>1
    <3> QED BY <2>2, <3>1, <3>2
  <2>7. \A i \in DOMAIN rest : rest[i] < names[1]
    BY SMT, <2>2, <2>3, <2>4
  <2>8. Listed(fs, rest)
    BY <2>2, <2>4, <2>5, <2>6 DEF Listed
  <2> QED BY <2>1, <2>2, <2>3, <2>7, <2>8 DEF rest
<1>QuietReads.
      ASSUME Faulty = {}, NEW D, NEW a
      PROVE  Quiet(D, a) <=> HasRead(D, a)
  <2> USE <1>QuietReads
  <2>1. {LineNo(q) : q \in D \cap Faulty} = {}
    OBVIOUS
  <2>2. LinesOf(a.issues) = {} <=> a.issues = {}
    BY DEF LinesOf
  <2> QED BY <2>1, <2>2 DEF Quiet, HasRead
<1>1. /\ files' = files /\ req = "walk" /\ todo # << >> /\ todo' = Tail(todo) /\ moved' = moved
      /\ req' = req
      /\ acc' = IF files[Head(todo)] = << >> THEN Report(acc, acc.line + 1, {"malformed"})
                ELSE VerifyOneFile(acc, files[Head(todo)])
  BY DEF ReadFile, vars
<1>2. TypeOK /\ LinesCounted /\ AllReadable /\ files \in [FileNo -> Seq(Line)] /\ Grown
  BY <1>1 DEF HealthyInv, CountInv, TypeOK, Grown
<1> SUFFICES ASSUME ~moved PROVE WalkInv'
  BY <1>1 DEF WalkInv
<1>3. PICK f, names, rest : f = Head(todo) /\ names = todo /\ rest = Tail(todo)
  OBVIOUS
<1>4. /\ Listed(files, names) /\ names # << >>
      /\ Rooted => Quiet(Before(f), acc)
  BY <1>1, <1>3 DEF WalkInv
<1>5. /\ Listed(files, rest) /\ f \in FileNo /\ files[f] # << >>
      /\ \A i \in DOMAIN rest : rest[i] < f
  BY <1>3, <1>4, <1>ListedTail
<1>6. Listed(files, todo)'
  BY <1>1, <1>3, <1>5 DEF Listed
<1>7. ASSUME Rooted' PROVE Quiet({p \in Positions : p[1] >= f}, acc')
  <2>1. Rooted
    BY <1>2, <1>7, GrownRooted
  <2>2. Faulty = {}
    BY <2>1, HealthyNotFaulty
  <2>3. HasRead(Before(f), acc)
    BY <1>4, <2>1, <2>2, <1>QuietReads
  <2>4. \A i \in DOMAIN files[f] : Readable(files[f][i])
    BY <1>2, <1>5 DEF AllReadable, HasLine
  <2>5. PICK a : a = acc
    OBVIOUS
  <2>6. HasRead({p \in Positions : p[1] > f}, a)
    BY <2>3, <2>5 DEF Before
  <2>7. HasRead({p \in Positions : p[1] >= f}, VerifyOneFile(a, files[f]))
    BY <1>2, <1>5, <2>4, <2>6, ReadsFile
  <2>8. acc' = VerifyOneFile(a, files[f])
    BY <1>1, <1>3, <1>5, <2>5
  <2> QED BY <2>2, <2>7, <2>8, <1>QuietReads
<1>8. ASSUME Rooted' PROVE acc'.issues = {}
  BY <1>7, <1>8 DEF Quiet
<1>9. ASSUME Rooted', todo' # << >> PROVE Quiet(Before(Head(todo)), acc)'
  <2>1. PICK g, b : g = Head(rest) /\ b = acc'
    OBVIOUS
  <2>2. rest # << >> /\ g = Head(todo)'
    BY <1>1, <1>3, <1>9, <2>1
  <2>3. /\ 1 \in DOMAIN rest /\ g = rest[1] /\ g \in FileNo /\ g < f
        /\ \A i \in DOMAIN rest : i = 1 \/ 1 < i
    <3>1. rest \in Seq(FileNo)
      BY <1>5 DEF Listed
    <3>2. /\ 1 \in DOMAIN rest /\ g = rest[1] /\ g \in FileNo
          /\ \A i \in DOMAIN rest : i = 1 \/ 1 < i
      BY SMT, <2>1, <2>2, <3>1
    <3> QED BY <1>5, <3>2
  <2>4. ASSUME NEW n \in FileNo, files[n] # << >> PROVE n > g <=> n >= f
    <3>1. n \in Int /\ g \in Int /\ f \in Int /\ g >= 0
      BY SMT, <1>5, <2>3 DEF FileNo
    <3>2. ASSUME n > g, ~(n >= f) PROVE FALSE
      <4>1. n # 0 /\ n <= f
        BY SMT, <3>1, <3>2
      <4>2. \E i \in DOMAIN names : names[i] = f
        BY SMT, <1>3, <1>4 DEF Listed
      <4>3. PICK k \in DOMAIN names : names[k] = n
        BY <1>4, <2>4, <4>1, <4>2 DEF Listed
      <4>4. n = f \/ \E i \in DOMAIN rest : rest[i] = n
        <5>1. names \in Seq(FileNo) /\ names # << >> /\ f = Head(names) /\ rest = Tail(names)
          BY <1>3, <1>4 DEF Listed
        <5>2. k = 1 \/ (k - 1 \in DOMAIN rest /\ rest[k - 1] = names[k])
          BY SMT, <5>1
        <5>3. f = names[1]
          BY SMT, <5>1
        <5> QED BY <4>3, <5>2, <5>3
      <4>5. PICK i \in DOMAIN rest : rest[i] = n
        BY SMT, <3>1, <3>2, <4>4
      <4>6. i = 1 \/ rest[1] > rest[i]
        BY <1>5, <2>3, <4>5 DEF Listed
      <4> QED BY SMT, <2>3, <3>1, <3>2, <4>5, <4>6
    <3>3. n >= f => n > g
      BY SMT, <2>3, <3>1
    <3> QED BY <3>2, <3>3
  <2>5. Before(g) = {p \in Positions : p[1] >= f}
    <3>1. ASSUME NEW p \in Positions PROVE p[1] > g <=> p[1] >= f
      <4>1. PICK n \in FileNo : \E i \in DOMAIN files[n] : p = <<n, i>>
        BY PositionPairs
      <4>2. p[1] = n /\ files[n] # << >>
        BY SMT, <4>1
      <4> QED BY <2>4, <4>2
    <3> QED BY <3>1 DEF Before
  <2>6. Quiet(Before(g), b)
    BY <1>7, <1>9, <2>1, <2>5
  <2>7. Quiet(Before(g), b)'
    BY <1>1, <2>3, <2>6, QuietKept
  <2>8. b = acc'
    BY <2>1
  <2> QED BY <2>2, <2>7, <2>8 DEF Before, Quiet
<1> QED BY <1>6, <1>8, <1>9 DEF WalkInv

LEMMA HealthySame ==
  ASSUME HealthyInv, UNCHANGED vars
  PROVE  HealthyInv'
<1>1. UNCHANGED <<files, stateFile, up, chainOn, state, pc, raw, shift, written, faults>>
  BY DEF vars
<1>2. TypeOK' /\ CountInv'
  BY CountStep DEF HealthyInv, CountInv
<1>3. ChainInv'
  BY <1>1, <1>2 DEF HealthyInv, ChainInv, LinesSealed, PairsLinked, HeadsCount,
                           StateFileCovers, IdleCovers, InHand, DownIsIdle
<1>4. SavedInv' /\ TargetFree' /\ AllReadable'
  BY <1>1 DEF HealthyInv, SavedInv, TargetFree, AllReadable
<1>5. Dense(files, Tip)'
  <2>1. Tip' = Tip
    BY <1>1 DEF Tip
  <2> QED BY <1>1, <2>1 DEF HealthyInv
<1> QED BY <1>2, <1>3, <1>4, <1>5 DEF HealthyInv

\* A step of the Logger.
LEMMA LogStepQuiet ==
  ASSUME HealthyInv, WalkInv, LogStep, faults' = 0
  PROVE  WalkInv'
<1>1. TypeOK /\ AllReadable /\ \A k : ~Fault(k)
  BY NothingFails DEF HealthyInv, CountInv
<1>2. CASE ~up'
  <2>1. req' = "idle" /\ acc' = Fresh
    BY <1>2 DEF LogStep
  <2>2. acc'.issues = {} /\ req' # "walk"
    BY <2>1, FreshAcc
  <2> QED BY <2>2 DEF WalkInv
<1>3. CASE up'
  <2>1. /\ moved' = (moved \/ (pc \in {"rotate", "shift"} /\ files' # files))
        /\ UNCHANGED <<req, todo, acc>> /\ Next
    BY <1>3 DEF LogStep
  <2>2. CASE moved'
    BY <2>2 DEF WalkInv
  <2>3. CASE ~moved'
    <3>1. ~moved /\ (pc \in {"rotate", "shift"} => files' = files)
      BY <2>1, <2>3
    <3>2. Grown
      <4>1. CASE AppendRaw
        <5>1. files' = [files EXCEPT ![0] = AppendLine(files[0], raw)]
          BY <1>1, <4>1 DEF AppendRaw
        <5> QED BY <1>1, <5>1, PlainAppend DEF Grown
      <4>2. CASE ~AppendRaw
        <5>1. files' = files \/ pc \in {"rotate", "shift"}
          BY <2>1, <4>2 DEF Next, Start, Write, SaveState, SkipRotation, RemoveOldest,
                                   ShiftBackup, RotateCurrent, Stop, LoseState
        <5> QED BY <3>1, <5>1 DEF Grown
      <4> QED BY <4>1, <4>2
    <3> QED BY <1>1, <2>1, <3>1, <3>2, WalkKept
  <2> QED BY <2>2, <2>3
<1> QED BY <1>2, <1>3

LEMMA CleanWalk ==
  ASSUME Counting
  PROVE  MonitorSpec => []CleanWithoutRotation
<1>1. MonitorInit => CleanInv
  <2> SUFFICES ASSUME MonitorInit PROVE CleanInv
    OBVIOUS
  <2>1. Init /\ req = "idle" /\ acc = Fresh
    BY DEF MonitorInit
  <2>2. HealthyInv /\ TypeOK
    BY <2>1, HealthyInit, TypeInit
  <2>3. acc.issues = {} /\ req # "walk"
    BY <2>1, FreshAcc
  <2> QED BY <2>2, <2>3 DEF CleanInv, WalkInv
<1>2. CleanInv /\ [MonitorNext]_allVars => CleanInv'
  <2> SUFFICES ASSUME CleanInv, [MonitorNext]_allVars PROVE CleanInv'
    OBVIOUS
  <2>1. TypeOK /\ [Next]_vars
    BY DEF CleanInv, MonitorNext, Tick, PushTo, BeginVerify, ReadFile, TakeSnapshot, Compare,
                 LogStep, allVars
  <2>2. TypeOK'
    BY <2>1, TypeStep
  <2>3. ASSUME faults' = 0 PROVE HealthyInv' /\ WalkInv'
    <3>1. HealthyInv /\ WalkInv
      BY <2>1, <2>3, FaultsStay DEF CleanInv
    <3>2. HealthyInv'
      BY <2>1, <2>3, <3>1, HealthyStep, HealthySame
    <3>3. CASE Tick \/ (\E b \in Backends : PushTo(b)) \/ TakeSnapshot \/ Compare \/ UNCHANGED allVars
      <4>1. files' = files /\ todo' = todo /\ acc' = acc /\ moved' = moved
            /\ (req' = "walk" => req = "walk")
        BY <3>3 DEF Tick, PushTo, TakeSnapshot, Compare, allVars, vars, reqVars
      <4> QED BY <2>1, <3>1, <3>2, <4>1, WalkKept DEF Grown
    <3> QED BY <2>1, <2>3, <3>1, <3>2, <3>3, BeginsQuiet, ReadsQuiet, LogStepQuiet DEF MonitorNext
  <2> QED BY <2>2, <2>3 DEF CleanInv
<1>3. CleanInv => CleanWithoutRotation
  BY DEF CleanInv, WalkInv, CleanWithoutRotation
<1> QED BY <1>1, <1>2, <1>3, PTL DEF MonitorSpec

-----------------------------------------------------------------------------
\* The hypothesis on finite sets holds, and with it the three results that count.
INSTANCE FiniteSetTheorems

LEMMA SetsAreCounted == Counting
<1>1. IsFiniteSet({}) /\ Cardinality({}) = 0
  BY FS_EmptySet
<1>2. ASSUME NEW S, IsFiniteSet(S) PROVE Cardinality(S) \in Nat
  BY <1>2, FS_CardinalityType
<1>3. ASSUME NEW S, NEW x, IsFiniteSet(S)
      PROVE  /\ IsFiniteSet(S \cup {x})
             /\ Cardinality(S \cup {x}) = IF x \in S THEN Cardinality(S) ELSE Cardinality(S) + 1
  BY <1>3, FS_AddElement
<1>4. ASSUME NEW S, NEW T, IsFiniteSet(S), T \subseteq S
      PROVE  IsFiniteSet(T) /\ Cardinality(T) <= Cardinality(S)
  <2>1. T \in SUBSET S
    BY <1>4
  <2> QED BY <1>4, <2>1, FS_Subset
<1>5. ASSUME NEW S, NEW T, NEW f, IsFiniteSet(S), f \in Surjection(S, T)
      PROVE  IsFiniteSet(T) /\ Cardinality(T) <= Cardinality(S)
  BY <1>5, FS_Surjection
<1> QED BY <1>1, <1>2, <1>3, <1>4, <1>5 DEF Counting

\* Every broken link between two neighbouring chain lines on disk, in the
\* order rotatedFiles reads them, is owed to a failure of its own: a state
\* file not saved or lost, a rename that failed inside rotateIfNeeded, a line
\* not written or cut short, or a process killed inside Logger.Write.
\* However failures, restarts, rotations and changes of
\* integrity.enable_chain follow each other, one failure breaks one link.
THEOREM BreaksArePaidFor == Spec => []OneBreakPerFault
BY PaidFor, SetsAreCounted

(***************************************************************************)
(* Whatever has failed, on a log whose lines can all be decoded: the lines *)
(* Verify reports are exactly those before which a record is missing.  Its *)
(* line counter numbers the lines in the order they were written, and the  *)
(* hash it carries from file to file is that of the last chain line, so    *)
(* one missing record is reported once and not for every line after it.    *)
(***************************************************************************)
THEOREM VerdictFlagsTheBreaks == Spec => []VerifyFlagsTheBreaks
BY FlagsTheBreaks, SetsAreCounted

(***************************************************************************)
(* CleanWithoutRotation: the handler of the verification request walks the *)
(* files while the Logger goes on writing.  When nothing has failed and no *)
(* rotation moved a file during the walk, the report is empty, whatever    *)
(* was appended meanwhile, for every number of backups and file size.      *)
(***************************************************************************)
THEOREM QuietWalkIsClean == MonitorSpec => []CleanWithoutRotation
BY CleanWalk, SetsAreCounted
=============================================================================
