-------------------------- MODULE ResponderProofs --------------------------
(***************************************************************************)
(* What Responder promises, for any number of goroutines, processes, files *)
(* and calls, and for every interleaving of their steps.                   *)
(***************************************************************************)
EXTENDS Responder, TLAPS

\* A leaf that names no prover is left to Zenon.
USE ZenonT(60)

Fields == {"kind", "pc", "pid", "path", "ticks", "target", "checked", "fd", "todo",
           "scanned", "failed", "killed", "file", "entry", "cmd", "undone"}

ProcKinds == KillKinds \cup FreezeKinds

FileKinds == {"quarantine", "quarantine_restore", "fix_permissions"}

FireKinds == {"nft_block", "network_isolate", "nft_rollback"}

ProcPcs == {"scan", "check", "open", "double", "send", "fallback", "table"}

\* A call is where its kind may be.
KindOK(c) ==
  \/ c.kind = "none" /\ c.pc = "idle"
  \/ c.kind \in ProcKinds /\ c.pc \in ProcPcs
  \/ c.kind = "quarantine" /\ c.pc \in {"file_open", "rename", "seal", "meta"}
  \/ c.kind = "quarantine_restore" /\ c.pc \in {"file_open", "chmod", "rename", "unlink"}
  \/ c.kind = "fix_permissions" /\ c.pc \in {"file_open", "chmod"}
  \/ c.kind \in FireKinds /\ c.pc \in {"nft", "dry"}

IsCall(c) == DOMAIN c = Fields

CallOK(c) == IsCall(c) /\ KindOK(c)

CallsOK == DOMAIN call = Workers /\ \A w \in Workers : CallOK(call[w])

----------------------------------------------------------------------------
\* Numbers and sequences.

LEMMA Numbers ==
  ASSUME NEW n \in Nat
  PROVE  /\ 0 \in Nat /\ 0 <= n /\ n <= n /\ ~ (n < n)
         /\ n + 1 \in Nat /\ n + 1 # 0 /\ n < n + 1
         /\ \A i \in Nat : i <= n => i <= n + 1 /\ i # n + 1
         /\ \A i \in Nat : i < n => i < n + 1
         /\ \A i \in 1 .. n : i \in Nat \ {0} /\ i <= n
         /\ \A i \in 1 .. n + 1 : i \in 1 .. n \/ i = n + 1
         /\ \A i \in Nat \ {0} : i <= n => i \in 1 .. n
  BY SMT

LEMMA SequenceLength ==
  ASSUME NEW S, NEW s \in Seq(S)
  PROVE  Len(s) \in Nat /\ DOMAIN s = 1 .. Len(s)
  BY SMT

Inodes == [link : BOOLEAN, mode : {"user", "sealed", "restored", "0600"}]

LEMMA InodeShape ==
  ASSUME NEW link \in BOOLEAN
  PROVE  /\ [link |-> link, mode |-> "user"] \in Inodes
         /\ <<[link |-> link, mode |-> "user"]>> \in Seq(Inodes)
         /\ Len(<<[link |-> link, mode |-> "user"]>>) = 1
  BY SMT DEF Inodes

\* The mode of inode i is m, everything else as it was.
ModeSet(i, m) ==
  /\ inode' \in Seq(Inodes)
  /\ Len(inode') = Len(inode)
  /\ \A j \in 1 .. Len(inode) : inode'[j].mode = IF j = i THEN m ELSE inode[j].mode

\* chmod of inode i.
Chmod(i, m) == inode' = [inode EXCEPT ![i].mode = m]

\* The commands of an isolation before number i have been run: this is there.
Added(i, ch, r) ==
  /\ i \in {3, 4, 5, 6} => "isolate" \in ch
  /\ i \in {4, 5, 6} => "lo" \in r
  /\ i \in {5, 6} => "established" \in r
  /\ i = 6 => "dns_udp" \in r

\* Run, of the chains and rules before and after.
Runs(cmd, ch, r, ch2, r2) ==
  /\ ch2 = IF cmd \in Chains THEN ch \cup {cmd} ELSE ch
  /\ r2 = IF cmd \in Chains \cup {"table"} THEN r ELSE r \cup {cmd}

----------------------------------------------------------------------------
LEMMA IdleShape ==
  /\ IsCall(Idle)
  /\ Idle.kind = "none" /\ Idle.pc = "idle"
  /\ Idle.pid = 0 /\ Idle.path = None /\ Idle.ticks = 0 /\ Idle.target = 0
  /\ Idle.checked = 0 /\ Idle.fd = 0 /\ Idle.todo = <<>> /\ Idle.scanned = {}
  /\ Idle.failed = FALSE /\ Idle.killed = FALSE /\ Idle.file = None
  /\ Idle.entry = <<0, 0>> /\ Idle.cmd = 0 /\ Idle.undone = FALSE
  BY SMT DEF Idle, Fields, IsCall

\* d is a call that differs from c in these fields alone.
SameBut(c, d, S) == IsCall(d) /\ \A x \in Fields \ S : d[x] = c[x]

\* Worker w has gone on to pc, with the call f.
Stepped(w, pc, f) ==
  /\ DOMAIN call' = Workers
  /\ \A v \in Workers \ {w} : call'[v] = call[v]
  /\ call'[w].pc = pc
  /\ SameBut(f, call'[w], {"pc"})
  /\ outcome' = Silent
  /\ UNCHANGED <<host, calls>>

LEMMA StepShape ==
  ASSUME DOMAIN call = Workers, NEW w \in Workers, NEW f, NEW pc, IsCall(f),
         Step(w, pc, f)
  PROVE  Stepped(w, pc, f)
  <1>1. call'[w] = [f EXCEPT !.pc = pc]
    BY DEF Step
  <1>2. call'[w].pc = pc /\ SameBut(f, call'[w], {"pc"})
    <2>1. SameBut(f, [f EXCEPT !.pc = pc], {"pc"}) /\ [f EXCEPT !.pc = pc].pc = pc
      BY DEF Fields, IsCall, SameBut
    <2>2. QED
      BY <1>1, <2>1
  <1>3. QED
    BY <1>2 DEF Step, Stepped

LEMMA ReturnShape ==
  ASSUME DOMAIN call = Workers, NEW w \in Workers, NEW f, NEW ok, NEW hit,
         Return(w, ok, f, hit)
  PROVE  /\ DOMAIN call' = Workers
         /\ \A v \in Workers \ {w} : call'[v] = call[v]
         /\ call'[w] = Idle
         /\ outcome' = Did(hit, TRUE, ok, f)
         /\ UNCHANGED <<host, calls>>
  BY DEF Return

LEMMA BeginShape ==
  ASSUME DOMAIN call = Workers, NEW w \in Workers, NEW c, NEW k, Begin(w, k, c)
  PROVE  /\ DOMAIN call' = Workers
         /\ \A v \in Workers \ {w} : call'[v] = call[v]
         /\ call'[w] = c
         /\ call[w].pc = "idle"
         /\ outcome' = Silent
         /\ UNCHANGED <<host, faults>>
  BY DEF Begin, At

Reports(o, hit, done, ok) == o.hit = hit /\ o.done = done /\ o.ok = ok

LEMMA DidShape ==
  ASSUME NEW c, IsCall(c), NEW hit, NEW done, NEW ok
  PROVE  /\ Reports(Did(hit, done, ok, c), hit, done, ok)
         /\ SameBut(c, Did(hit, done, ok, c).call, {"pc", "fd", "todo"})
  <1> DEFINE d == [c EXCEPT !.pc = "idle", !.fd = 0, !.todo = <<>>]
  <1>1. SameBut(c, d, {"pc", "fd", "todo"})
    BY DEF Fields, IsCall, SameBut
  <1> HIDE DEF d
  <1>2. Did(hit, done, ok, c) = [hit |-> hit, done |-> done, ok |-> ok, call |-> d]
    BY DEF Did, d
  <1>3. /\ Did(hit, done, ok, c).hit = hit
        /\ Did(hit, done, ok, c).done = done
        /\ Did(hit, done, ok, c).ok = ok
        /\ Did(hit, done, ok, c).call = d
    BY SMT, <1>2
  <1>4. QED
    BY <1>1, <1>3 DEF Reports

LEMMA SilentShape ==
  Silent.hit = 0 /\ Silent.done = FALSE /\ Silent.call = Idle
  BY SMT DEF Silent

----------------------------------------------------------------------------
\* A step moves only worker w, within a call of these kinds, into it or out of it.
Moved(w, kinds) ==
  /\ DOMAIN call' = Workers
  /\ \A v \in Workers \ {w} : call'[v] = call[v]
  /\ CallOK(call'[w])
  /\ call[w].kind \in kinds \cup {"none"}
  /\ call'[w].kind \in kinds \cup {"none"}
  /\ outcome'.call.kind \in kinds \cup {"none"}
  /\ UNCHANGED host

LEMMA StepMoves ==
  ASSUME CallsOK, NEW w \in Workers, NEW kinds, NEW pc, NEW f,
         call[w].kind \in kinds, IsCall(f), f.kind = call[w].kind,
         KindOK([f EXCEPT !.pc = pc]), Step(w, pc, f)
  PROVE  Moved(w, kinds)
  <1>1. /\ DOMAIN call' = Workers
        /\ \A v \in Workers \ {w} : call'[v] = call[v]
        /\ SameBut(f, call'[w], {"pc"})
        /\ outcome' = Silent
        /\ UNCHANGED host
    <2>1. DOMAIN call = Workers
      BY DEF CallsOK
    <2>2. Stepped(w, pc, f)
      BY <2>1, StepShape
    <2>3. QED
      BY <2>2 DEF Stepped
  <1>2. call'[w] = [f EXCEPT !.pc = pc]
    BY DEF Step, CallsOK
  <1>3. call'[w].kind = f.kind
    BY <1>1 DEF Fields, SameBut
  <1>4. QED
    BY <1>1, <1>2, <1>3, SilentShape, IdleShape DEF Moved, CallOK, SameBut

LEMMA ReturnMoves ==
  ASSUME CallsOK, NEW w \in Workers, NEW kinds, NEW ok, NEW f, NEW hit,
         call[w].kind \in kinds, IsCall(f), f.kind = call[w].kind,
         Return(w, ok, f, hit)
  PROVE  Moved(w, kinds)
  <1>1. /\ DOMAIN call' = Workers
        /\ \A v \in Workers \ {w} : call'[v] = call[v]
        /\ call'[w] = Idle
        /\ outcome' = Did(hit, TRUE, ok, f)
        /\ UNCHANGED host
    BY ReturnShape DEF CallsOK
  <1>2. outcome'.call.kind = f.kind
    <2>1. SameBut(f, Did(hit, TRUE, ok, f).call, {"pc", "fd", "todo"})
      BY DidShape
    <2>2. QED
      BY <1>1, <2>1 DEF Fields, SameBut
  <1>3. CallOK(call'[w])
    BY <1>1, IdleShape DEF CallOK, KindOK
  <1>4. QED
    BY <1>1, <1>2, <1>3, IdleShape DEF Moved

LEMMA BeginMoves ==
  ASSUME CallsOK, NEW w \in Workers, NEW kinds, NEW k, NEW c,
         c.kind \in kinds, CallOK(c), Begin(w, k, c)
  PROVE  Moved(w, kinds) /\ call[w].kind = "none"
  <1>1. /\ DOMAIN call' = Workers
        /\ \A v \in Workers \ {w} : call'[v] = call[v]
        /\ call'[w] = c
        /\ call[w].pc = "idle"
        /\ outcome' = Silent
        /\ UNCHANGED host
    BY BeginShape DEF CallsOK
  <1>2. call[w].kind = "none"
    BY <1>1 DEF CallsOK, CallOK, KindOK, ProcPcs
  <1>3. QED
    BY <1>1, <1>2, SilentShape, IdleShape DEF Moved

\* A move keeps every call in its shape.
LEMMA MovedOK ==
  ASSUME CallsOK, NEW w \in Workers, NEW kinds, Moved(w, kinds)
  PROVE  CallsOK'
  BY DEF Moved, CallsOK

IsRow(r) == DOMAIN r = {"inst", "prog", "parent", "state"}

States == {"free", "running", "stopped", "zombie"}

\* A row of the table: instances are numbered from 1, and a parent is older than
\* its children.
RowOK(p) ==
  /\ IsRow(proc[p])
  /\ proc[p].inst \in Nat /\ proc[p].inst <= born
  /\ proc[p].state \in States
  /\ proc[p].state = "free" <=> proc[p].inst = 0
  /\ Present(p) /\ proc[p].parent \in Pids =>
       Present(proc[p].parent) /\ proc[proc[p].parent].inst < proc[p].inst

TableOK ==
  /\ born \in Nat
  /\ DOMAIN proc = Pids
  /\ \A p \in Pids : RowOK(p)
  /\ \A p, q \in Pids : proc[p].inst = proc[q].inst /\ p # q => proc[p].inst = 0

\* The pids are an initial segment of the numbers above 1.
LEMMA PidsRange == \E n \in Nat : Pids = 2 .. n
  <1>1. PICK n \in Pids \cup {1} : Pids = 2 .. n
    BY PidsAssumption
  <1>2. n \in Nat
    <2>1. CASE n \in Pids
      BY SMT, <1>1, <2>1
    <2>2. CASE n = 1
      BY SMT, <2>2
    <2>3. QED
      BY <2>1, <2>2
  <1>3. QED
    BY <1>1, <1>2

----------------------------------------------------------------------------
\* Counting.  The walk of KillTree ends because there are finitely many pids.
\* What the proofs use of finite sets and of the natural numbers is a
\* hypothesis, Counting; the library proves it, at the end of the module.

Counting ==
  /\ IsFiniteSet({}) /\ Cardinality({}) = 0
  /\ \A x : Cardinality({x}) = 1
  /\ \A S : IsFiniteSet(S) => Cardinality(S) \in Nat /\ (Cardinality(S) = 0 <=> S = {})
  /\ \A a, b \in Int : /\ IsFiniteSet(a .. b)
                       /\ Cardinality(a .. b) = IF a > b THEN 0 ELSE b - a + 1
  /\ \A S, x : IsFiniteSet(S) /\ x \notin S =>
       IsFiniteSet(S \cup {x}) /\ Cardinality(S \cup {x}) = Cardinality(S) + 1
  /\ \A S, x : IsFiniteSet(S) /\ x \in S =>
       IsFiniteSet(S \ {x}) /\ Cardinality(S \ {x}) = Cardinality(S) - 1
  /\ \A S, T : IsFiniteSet(S) /\ T \subseteq S => IsFiniteSet(T) /\ Cardinality(T) <= Cardinality(S)
  /\ \A S \in SUBSET Nat : S # {} => \E x \in S : \A y \in S : x <= y

LEMMA CountType ==
  ASSUME Counting, NEW S, IsFiniteSet(S)
  PROVE  Cardinality(S) \in Nat /\ (Cardinality(S) = 0 <=> S = {})
  BY DEF Counting

LEMMA CountFewer ==
  ASSUME Counting, NEW S, IsFiniteSet(S), NEW T \in SUBSET S
  PROVE  IsFiniteSet(T) /\ Cardinality(T) <= Cardinality(S)
  BY DEF Counting

LEMMA CountRange ==
  ASSUME Counting, NEW a \in Int, NEW b \in Int
  PROVE  IsFiniteSet(a .. b) /\ Cardinality(a .. b) = IF a > b THEN 0 ELSE b - a + 1
  BY DEF Counting

----------------------------------------------------------------------------
\* KillTree reaches every descendant.

Listing(s, p) == \E i \in DOMAIN s : s[i] = p

LEMMA Smallest ==
  ASSUME Counting, NEW S \in SUBSET Nat, S # {}
  PROVE  \E x \in S : \A y \in S : x <= y
  BY DEF Counting

\* A function defined by iteration exists.
Iterates(h, m, a, F) == h[0] = a /\ \A n \in 1 .. m : h[n] = F[h[n - 1]]

LEMMA IterationExists ==
  ASSUME Counting, NEW S, NEW a \in S, NEW F \in [S -> S], NEW N \in Nat
  PROVE  \E h \in [0 .. N -> S] : Iterates(h, N, a, F)
  <1> DEFINE Good(m) == \E h \in [0 .. m -> S] : Iterates(h, m, a, F)
             bad == {m \in Nat : ~ Good(m)}
  <1>1. SUFFICES ASSUME bad # {} PROVE FALSE
    OBVIOUS
  <1>2. PICK m \in bad : \A k \in bad : m <= k
    <2>1. bad \in SUBSET Nat
      OBVIOUS
    <2> HIDE DEF bad
    <2> QED BY <1>1, <2>1, Smallest
  <1>3. m \in Nat /\ ~ Good(m)
    BY <1>2
  <1>4. CASE m = 0
    <2> DEFINE h == [n \in 0 .. 0 |-> a]
    <2>1. 0 \in 0 .. 0 /\ 1 .. 0 = {}
      BY SMT
    <2>2. h \in [0 .. 0 -> S] /\ h[0] = a
      BY <2>1
    <2> HIDE DEF h
    <2>3. Iterates(h, 0, a, F)
      BY <2>1, <2>2 DEF Iterates
    <2>4. QED
      BY <1>3, <1>4, <2>2, <2>3
  <1>5. CASE m # 0
    <2>1. m - 1 \in Nat /\ ~ (m <= m - 1)
      BY SMT, <1>3, <1>5
    <2>2. PICK h \in [0 .. m - 1 -> S] : Iterates(h, m - 1, a, F)
      BY <1>2, <2>1
    <2> DEFINE g == [n \in 0 .. m |-> IF n = m THEN F[h[m - 1]] ELSE h[n]]
    <2>3. /\ \A n \in 0 .. m : n # m => n \in 0 .. m - 1
          /\ \A n \in 1 .. m : n \in 0 .. m /\ n - 1 \in 0 .. m /\ n - 1 # m /\ (n # m => n \in 1 .. m - 1)
          /\ 0 \in 0 .. m /\ m - 1 \in 0 .. m - 1
      BY SMT, <1>3, <1>5
    <2>4. h[m - 1] \in S /\ F[h[m - 1]] \in S /\ \A n \in 0 .. m - 1 : h[n] \in S
      BY <2>2, <2>3
    <2>5. g \in [0 .. m -> S]
      BY <2>3, <2>4
    <2>6. g[0] = a
      BY <2>2, <2>3, <1>5 DEF Iterates
    <2>7. ASSUME NEW n \in 1 .. m PROVE g[n] = F[g[n - 1]]
      <3>1. g[n - 1] = h[n - 1]
        BY <2>3
      <3>2. CASE n = m
        BY <2>3, <3>1, <3>2
      <3>3. CASE n # m
        <4>1. g[n] = h[n] /\ n \in 1 .. m - 1
          BY <2>3, <3>3
        <4>2. QED
          BY <2>2, <3>1, <4>1 DEF Iterates
      <3>4. QED
        BY <3>2, <3>3
    <2> HIDE DEF g
    <2>8. Iterates(g, m, a, F)
      BY <2>6, <2>7 DEF Iterates
    <2>9. QED
      BY <1>3, <2>5, <2>8
  <1>6. QED
    BY <1>4, <1>5

LEMMA PidsFinite ==
  ASSUME Counting
  PROVE  IsFiniteSet(Pids) /\ Cardinality(Pids) \in Nat
  <1>1. PICK n \in Nat : Pids = 2 .. n
    BY PidsRange
  <1>2. 2 \in Int /\ n \in Int
    BY SMT, <1>1
  <1>3. IsFiniteSet(2 .. n)
    BY <1>2, CountRange
  <1>4. QED
    BY <1>1, <1>3, CountType

\* findDescendants gives the root, its children, their children, and so on.
LEMMA Generations ==
  ASSUME Counting, NEW root \in Pids
  PROVE  LET g == findDescendants(root)
         IN /\ g[0] = {root}
            /\ \A n \in 0 .. Cardinality(Pids) : g[n] \subseteq Pids
            /\ \A n \in 1 .. Cardinality(Pids) : g[n] = Children(g[n - 1])
  <1>1. findDescendants(root) =
          CHOOSE g : g = [n \in 0 .. Cardinality(Pids) |->
                            IF n = 0 THEN {root} ELSE Children(g[n - 1])]
    BY DEF findDescendants
  <1> DEFINE N == Cardinality(Pids)
             F == [X \in SUBSET Pids |-> Children(X)]
             Fix(g) == g = [n \in 0 .. N |-> IF n = 0 THEN {root} ELSE Children(g[n - 1])]
  <1>2. \A X : Children(X) \in SUBSET Pids
    BY DEF Children
  <1>3. F \in [SUBSET Pids -> SUBSET Pids] /\ {root} \in SUBSET Pids
    BY <1>2
  <1>4. N \in Nat
    BY PidsFinite
  <1> HIDE DEF F, N
  <1>5. PICK h \in [0 .. N -> SUBSET Pids] : Iterates(h, N, {root}, F)
    BY <1>3, <1>4, IterationExists
  <1>6. \A n \in 0 .. N : (n # 0 => n \in 1 .. N /\ n - 1 \in 0 .. N)
    BY SMT, <1>4
  <1>7. Fix(h)
    <2>1. ASSUME NEW n \in 0 .. N PROVE h[n] = IF n = 0 THEN {root} ELSE Children(h[n - 1])
      <3>1. CASE n = 0
        BY <1>5, <3>1 DEF Iterates
      <3>2. CASE n # 0
        <4>1. h[n] = F[h[n - 1]] /\ h[n - 1] \in SUBSET Pids
          BY <1>5, <1>6, <3>2 DEF Iterates
        <4>2. QED
          BY <4>1, <3>2 DEF F
      <3>3. QED
        BY <3>1, <3>2
    <2>2. h = [n \in 0 .. N |-> IF n = 0 THEN {root} ELSE Children(h[n - 1])]
      BY <2>1
    <2>3. QED
      BY <2>2
  <1>8. Fix(findDescendants(root))
    <2>1. findDescendants(root) = CHOOSE g : Fix(g)
      BY <1>1 DEF N
    <2> HIDE DEF Fix
    <2> QED BY <2>1, <1>7
  <1> DEFINE g == findDescendants(root)
  <1>9. g = [n \in 0 .. N |-> IF n = 0 THEN {root} ELSE Children(g[n - 1])]
    BY <1>8
  <1> HIDE DEF g
  <1>10. \A n \in 0 .. N : g[n] = IF n = 0 THEN {root} ELSE Children(g[n - 1])
    BY <1>9
  <1>11. 0 \in 0 .. N /\ \A n \in 1 .. N : n \in 0 .. N /\ n # 0
    BY SMT, <1>4
  <1>12. g[0] = {root} /\ \A n \in 1 .. N : g[n] = Children(g[n - 1])
    BY <1>10, <1>11
  <1>13. ASSUME NEW n \in 0 .. N PROVE g[n] \subseteq Pids
    <2>1. CASE n = 0
      BY <1>12, <2>1
    <2>2. CASE n # 0
      BY <1>2, <1>10, <2>2
    <2>3. QED
      BY <2>1, <2>2
  <1>14. QED
    BY <1>12, <1>13 DEF g, N

\* The processes older than p.
Older(p) == {q \in Pids : Present(q) /\ proc[q].inst < proc[p].inst}

LEMMA OlderGrows ==
  ASSUME Counting, TableOK, NEW p \in Pids, NEW q \in Pids, Present(p), proc[p].parent = q
  PROVE  Cardinality(Older(q)) \in Nat /\ Cardinality(Older(p)) >= Cardinality(Older(q)) + 1
  <1>1. Present(q) /\ proc[q].inst < proc[p].inst
    BY DEF TableOK, RowOK
  <1>2. \A r \in Pids : proc[r].inst \in Nat
    BY DEF TableOK, RowOK
  <1>3. \A i, j, k \in Nat : i < j /\ j < k => i < k
    BY SMT
  <1>4. \A i \in Nat : ~ (i < i)
    BY SMT
  <1>5. Older(q) \cup {q} \subseteq Older(p) /\ q \notin Older(q)
    BY <1>1, <1>2, <1>3, <1>4 DEF Older
  <1>6. Older(p) \subseteq Pids /\ Older(q) \subseteq Pids
    BY DEF Older
  <1>7. IsFiniteSet(Older(p)) /\ IsFiniteSet(Older(q))
    BY <1>6, PidsFinite, CountFewer
  <1>8. IsFiniteSet(Older(q) \cup {q}) /\ Cardinality(Older(q) \cup {q}) = Cardinality(Older(q)) + 1
    BY <1>5, <1>7 DEF Counting
  <1>9. Cardinality(Older(q) \cup {q}) <= Cardinality(Older(p))
    BY <1>5, <1>7, CountFewer
  <1>10. Cardinality(Older(p)) \in Nat /\ Cardinality(Older(q)) \in Nat
    BY <1>7, CountType
  <1>11. QED
    BY SMT, <1>8, <1>9, <1>10

\* Whoever is n generations below the root has n older processes, so that there
\* is nobody as many generations below it as there are pids.
LEMMA GenerationsEnd ==
  ASSUME Counting, TableOK, NEW root \in Pids
  PROVE  findDescendants(root)[Cardinality(Pids)] = {}
  <1> DEFINE N == Cardinality(Pids)
             g == findDescendants(root)
             Good(n) == \A p \in g[n] : Cardinality(Older(p)) >= n
             bad == {n \in Nat : n <= N /\ ~ Good(n)}
  <1>1. N \in Nat
    BY PidsFinite
  <1>2. /\ g[0] = {root}
        /\ \A n \in 0 .. N : g[n] \subseteq Pids
        /\ \A n \in 1 .. N : g[n] = Children(g[n - 1])
    BY Generations
  <1> HIDE DEF g
  <1>3. \A p \in Pids : Cardinality(Older(p)) \in Nat /\ Cardinality(Older(p)) < N
    <2> SUFFICES ASSUME NEW p \in Pids PROVE Cardinality(Older(p)) \in Nat /\ Cardinality(Older(p)) < N
      OBVIOUS
    <2>1. proc[p].inst \in Nat
      BY DEF TableOK, RowOK
    <2>2. ~ (proc[p].inst < proc[p].inst)
      BY SMT, <2>1
    <2>3. Older(p) \subseteq Pids \ {p}
      BY <2>2 DEF Older
    <2>4. IsFiniteSet(Pids \ {p}) /\ Cardinality(Pids \ {p}) = N - 1
      BY PidsFinite DEF Counting
    <2>5. IsFiniteSet(Older(p)) /\ Cardinality(Older(p)) <= N - 1
      <3>1. IsFiniteSet(Older(p)) /\ Cardinality(Older(p)) <= Cardinality(Pids \ {p})
        BY <2>3, <2>4, CountFewer
      <3>2. QED
        BY <3>1, <2>4
    <2>6. Cardinality(Older(p)) \in Nat
      BY <2>5, CountType
    <2>7. QED
      BY SMT, <1>1, <2>5, <2>6
  <1>4. bad = {}
    <2>1. SUFFICES ASSUME bad # {} PROVE FALSE
      OBVIOUS
    <2>2. PICK n \in bad : \A k \in bad : n <= k
      <3>1. bad \in SUBSET Nat
        OBVIOUS
      <3> HIDE DEF bad
      <3> QED BY <2>1, <3>1, Smallest
    <2>3. n \in Nat /\ n <= N /\ ~ Good(n)
      BY <2>2
    <2>4. PICK p \in g[n] : ~ (Cardinality(Older(p)) >= n)
      BY <2>3
    <2>5. n \in 0 .. N
      BY SMT, <2>3, <1>1
    <2>6. p \in Pids
      BY <1>2, <2>4, <2>5
    <2>7. n # 0
      <3>1. Cardinality(Older(p)) >= 0
        BY SMT, <1>3, <2>6
      <3>2. QED
        BY <2>4, <3>1
    <2>8. n \in 1 .. N /\ n - 1 \in Nat /\ n - 1 <= N /\ ~ (n <= n - 1) /\ n - 1 \in 0 .. N
      BY SMT, <2>3, <2>7, <1>1
    <2>9. Present(p) /\ proc[p].parent \in g[n - 1]
      BY <1>2, <2>4, <2>8 DEF Children
    <2>10. PICK q \in Pids : q = proc[p].parent
      BY <2>9, <2>8, <1>2
    <2>11. Good(n - 1)
      BY <2>2, <2>8
    <2>12. Cardinality(Older(q)) >= n - 1
      BY <2>9, <2>10, <2>11
    <2>13. Cardinality(Older(q)) \in Nat /\ Cardinality(Older(p)) >= Cardinality(Older(q)) + 1
      BY <2>6, <2>9, <2>10, OlderGrows
    <2>14. Cardinality(Older(p)) \in Nat
      BY <1>3, <2>6
    <2>15. PICK a \in Nat, b \in Nat : a = Cardinality(Older(p)) /\ b = Cardinality(Older(q))
      BY <2>13, <2>14
    <2>16. a >= b + 1 /\ b >= n - 1 /\ ~ (a >= n)
      BY <2>4, <2>12, <2>13, <2>15
    <2>17. QED
      BY SMT, <2>16, <2>15, <2>3
  <1>5. Good(N)
    <2>1. N <= N
      BY SMT, <1>1
    <2>2. QED
      BY <1>1, <1>4, <2>1
  <1>6. ASSUME NEW p \in g[N] PROVE FALSE
    <2>1. N \in 0 .. N
      BY SMT, <1>1
    <2>2. p \in Pids
      BY <2>1, <1>2
    <2>3. Cardinality(Older(p)) >= N /\ Cardinality(Older(p)) \in Nat /\ Cardinality(Older(p)) < N
      BY <2>2, <1>3, <1>5
    <2>4. PICK a \in Nat : a = Cardinality(Older(p))
      BY <2>3
    <2>5. a >= N /\ a < N
      BY <2>3, <2>4
    <2>6. QED
      BY SMT, <2>5, <2>4, <1>1
  <1>7. QED
    BY <1>6 DEF g

LEMMA OrderComplete ==
  ASSUME Counting, TableOK, NEW root \in Pids, NEW order \in KillOrders(root)
  PROVE  /\ order \in Seq(Pids) /\ order # <<>>
         /\ \A p \in Descendants(root) : Listing(order, p)
  <1> DEFINE N == Cardinality(Pids)
             g == findDescendants(root)
             below == UNION {g[n] : n \in 1 .. N}
             S == below \cup {root}
  <1>1. N \in Nat /\ N # 0 /\ IsFiniteSet(Pids)
    <2>1. Cardinality(Pids) = 0 <=> Pids = {}
      BY PidsFinite, CountType
    <2>2. QED
      BY <2>1, PidsFinite
  <1>2. /\ g[0] = {root}
        /\ \A n \in 0 .. N : g[n] \subseteq Pids
        /\ \A n \in 1 .. N : g[n] = Children(g[n - 1])
    BY Generations
  <1>3. g[N] = {}
    BY GenerationsEnd
  <1>4. PICK s \in Bijection(1 .. Cardinality(below), below) : order = Append(s, root)
    BY DEF KillOrders
  <1> HIDE DEF g
  <1>5. \A n \in 1 .. N : n \in 0 .. N /\ (n # N => n + 1 \in 1 .. N) /\ (n + 1) - 1 = n
    BY SMT, <1>1
  <1>6. 1 \in 1 .. N /\ 1 - 1 = 0
    BY SMT, <1>1
  <1>7. below \subseteq Pids
    BY <1>2, <1>5
  <1>8. ASSUME NEW p \in Children(S) PROVE p \in S
    <2>1. p \in Pids /\ Present(p) /\ proc[p].parent \in S
      BY <1>8 DEF Children
    <2>2. CASE proc[p].parent = root
      <3>1. p \in Children(g[0])
        BY <2>1, <2>2, <1>2 DEF Children
      <3>2. p \in g[1]
        BY <3>1, <1>2, <1>6
      <3>3. QED
        BY <3>2, <1>6
    <2>3. CASE proc[p].parent \in below
      <3>1. PICK n \in 1 .. N : proc[p].parent \in g[n]
        BY <2>3
      <3>2. n # N
        BY <3>1, <1>3
      <3>3. n + 1 \in 1 .. N /\ (n + 1) - 1 = n
        BY <1>5, <3>2
      <3>4. p \in Children(g[n])
        BY <2>1, <3>1 DEF Children
      <3>5. p \in g[n + 1]
        BY <3>3, <3>4, <1>2
      <3>6. QED
        BY <3>3, <3>5
    <2>4. QED
      BY <2>1, <2>2, <2>3
  <1> HIDE DEF below
  <1>9. Descendants(root) \subseteq S
    <2>1. S \in SUBSET Pids /\ root \in S /\ Children(S) \subseteq S
      BY <1>7, <1>8
    <2> HIDE DEF S
    <2>2. QED
      BY <2>1 DEF Descendants
  <1>10. Cardinality(below) \in Nat
    BY <1>1, <1>7, CountFewer, CountType
  <1>11. PICK k \in Nat : k = Cardinality(below)
    BY <1>10
  <1>12. s \in [1 .. k -> below] /\ \A p \in below : \E i \in 1 .. k : s[i] = p
    BY <1>4, <1>11 DEF Bijection, Injection, Surjection
  <1>13. s \in [1 .. k -> Pids]
    BY <1>7, <1>12
  <1>14. s \in Seq(Pids) /\ Len(s) = k
    BY SMT, <1>13, <1>11
  <1>15. /\ order \in Seq(Pids) /\ Len(order) = k + 1
         /\ \A i \in 1 .. k : order[i] = s[i]
         /\ order[k + 1] = root
         /\ DOMAIN order = 1 .. k + 1
    BY SMT, <1>4, <1>14, <1>11
  <1>16. order # <<>>
    <2>1. Len(<<>>) = 0 /\ k + 1 # 0
      BY SMT, <1>11
    <2>2. QED
      BY <2>1, <1>15
  <1>17. k + 1 \in 1 .. k + 1 /\ \A i \in 1 .. k : i \in 1 .. k + 1
    BY SMT, <1>11
  <1>18. \A p \in S : Listing(order, p)
    BY <1>12, <1>15, <1>17 DEF Listing
  <1>19. QED
    BY <1>9, <1>15, <1>16, <1>18

\* A step in which no call of these kinds takes part.
Frame(kinds) ==
  \A v \in Workers : \/ call'[v] = call[v]
                     \/ call[v].kind \notin kinds /\ call'[v].kind \notin kinds

----------------------------------------------------------------------------
\* The firewall: the inductive invariant.

Isolates(c) == c.kind = "network_isolate" /\ c.pc = "nft"

\* A call c on the firewall, with the configuration h, the chains ch, the rules r
\* and the ghost b: an isolation that no rollback has crossed has added what its
\* commands so far add, one that a rollback has crossed has left a broken
\* isolation, or a whole one that another call has made since.
FireOK(c, h, ch, r, b) ==
  /\ c.kind \in FireKinds /\ c.pc = "dry" => ~ h.nft
  /\ c.kind = "nft_block" => c.cmd \in 1 .. 3
  /\ c.kind = "network_isolate" => c.cmd \in 1 .. 6
  /\ Isolates(c) /\ ~ c.undone => Added(c.cmd, ch, r)
  /\ Isolates(c) /\ c.undone => b \/ Exceptions \subseteq r

\* A chain that drops everything has its exceptions, or a call that adds them.
Whole(c, ch, r, b) ==
  "isolate" \in ch /\ ~ b =>
    Exceptions \subseteq r \/ \E w \in Workers : Isolates(c[w]) /\ ~ c[w].undone

FireInv ==
  /\ \A w \in Workers : FireOK(call[w], host, chains, rules, broken)
  /\ Whole(call, chains, rules, broken)

\* An isolation reported as applied is whole.
IsolationReported ==
  outcome.done /\ outcome.ok /\ outcome.call.kind = "network_isolate"
    /\ host.nft /\ ~ outcome.call.undone =>
    "isolate" \in chains /\ Exceptions \subseteq rules

LEMMA IsolatingShape == \A w : Isolating(w) <=> Isolates(call[w])
  BY DEF Isolating, Isolates, InCall, At

LEMMA FireImplies ==
  ASSUME FireInv, IsolationReported
  PROVE  IsolationIsWhole
  <1>1. "isolate" \in chains /\ ~ broken /\ (\A w \in Workers : ~ Isolating(w)) =>
          Exceptions \subseteq rules
    BY IsolatingShape DEF FireInv, Whole
  <1>2. QED
    BY <1>1 DEF IsolationReported, IsolationIsWhole

LEMMA IdleFires ==
  \A h, ch, r, b : FireOK(Idle, h, ch, r, b) /\ ~ Isolates(Idle)
  <1>1. Idle.kind \notin FireKinds \cup {"nft_block", "network_isolate"}
    BY IdleShape DEF FireKinds
  <1>2. QED
    BY <1>1 DEF FireOK, Isolates

\* Chains and rules only grow.
FireGrows ==
  /\ chains \subseteq chains' /\ rules \subseteq rules'
  /\ broken => broken' \/ Exceptions \subseteq rules'
  /\ UNCHANGED host

\* A step of another component.
LEMMA FireFrame ==
  ASSUME FireInv, Frame(FireKinds), UNCHANGED <<firewallVars, host>>,
         outcome'.call.kind # "network_isolate"
  PROVE  FireInv' /\ IsolationReported'
  <1>1. UNCHANGED <<chains, rules, broken, host>>
    BY DEF firewallVars
  <1>2. ASSUME NEW v \in Workers PROVE FireOK(call'[v], host', chains', rules', broken')
    <2>1. CASE call'[v] = call[v]
      BY <1>1, <2>1 DEF FireInv
    <2>2. CASE call'[v].kind \notin FireKinds
      BY <2>2 DEF FireOK, FireKinds, Isolates
    <2>3. QED
      BY <2>1, <2>2 DEF Frame
  <1>3. Whole(call', chains', rules', broken')
    <2>1. \A v \in Workers : Isolates(call[v]) => call'[v] = call[v]
      BY DEF Frame, FireKinds, Isolates
    <2>2. QED
      BY <1>1, <2>1 DEF FireInv, Whole
  <1>4. QED
    BY <1>2, <1>3 DEF FireInv, IsolationReported

LEMMA FireRestarts ==
  ASSUME FireInv, Restart
  PROVE  FireInv' /\ IsolationReported'
  <1>1. /\ \A v \in Workers : call'[v] = Idle
        /\ outcome' = Silent /\ UNCHANGED <<host, chains, rules>>
        /\ broken' = (broken \/ \E w \in Workers : Isolating(w))
    BY DEF Restart
  <1>2. Whole(call', chains', rules', broken')
    BY <1>1, IsolatingShape DEF FireInv, Whole
  <1>3. QED
    BY <1>1, <1>2, IdleFires, SilentShape DEF FireInv, IsolationReported

LEMMA FireBegins ==
  ASSUME CallsInit, FirewallInit
  PROVE  FireInv /\ IsolationReported
  BY IdleFires, SilentShape DEF CallsInit, FirewallInit, FireInv, Whole, IsolationReported

----------------------------------------------------------------------------
\* The firewall: every step keeps the invariant.

\* What a step on the firewall leaves alone.
FireMoves ==
  /\ CallsOK'
  /\ Frame(ProcKinds) /\ Frame(FileKinds)
  /\ outcome'.hit = 0 /\ outcome'.call.kind \in FireKinds \cup {"none"}
  /\ UNCHANGED host

LEMMA MovedFrame ==
  ASSUME NEW w \in Workers, NEW kinds, Moved(w, kinds), NEW others,
         others \cap (kinds \cup {"none"}) = {}
  PROVE  Frame(others)
  BY DEF Moved, Frame

LEMMA KindsDisjoint ==
  /\ ProcKinds \cap (FileKinds \cup {"none"}) = {}
  /\ ProcKinds \cap (FireKinds \cup {"none"}) = {}
  /\ FileKinds \cap (ProcKinds \cup {"none"}) = {}
  /\ FileKinds \cap (FireKinds \cup {"none"}) = {}
  /\ FireKinds \cap (ProcKinds \cup {"none"}) = {}
  /\ FireKinds \cap (FileKinds \cup {"none"}) = {}
  BY DEF ProcKinds, KillKinds, FreezeKinds, FileKinds, FireKinds

\* The call of w is over, with Success = ok.
FireEnd(w, ok) ==
  /\ \A v \in Workers \ {w} : call'[v] = call[v]
  /\ call'[w] = Idle
  /\ outcome'.ok = ok
  /\ outcome'.call.kind = call[w].kind /\ outcome'.call.undone = call[w].undone

\* The call of w goes on to its next command.
FireGoes(w) ==
  LET d == call'[w]
  IN /\ \A v \in Workers \ {w} : call'[v] = call[v]
     /\ d.kind = call[w].kind /\ d.pc = "nft" /\ d.undone = call[w].undone
     /\ d.cmd = call[w].cmd + 1
     /\ outcome' = Silent

\* What every step on the firewall is shown to do.
FireKept == FireInv' /\ IsolationReported' /\ FireMoves

LEMMA FireKeeps ==
  ASSUME FireInv, CallsOK, FirewallNext
  PROVE  FireKept
<1>CommandShape.
      /\ DOMAIN Commands = {"nft_block", "network_isolate"}
      /\ Len(Commands["nft_block"]) = 3 /\ Len(Commands["network_isolate"]) = 6
      /\ \A i \in 1 .. 3 : /\ Commands["nft_block"][i] # "isolate"
                           /\ i # 3 => i + 1 \in 1 .. 3
      /\ \A i \in 1 .. 6 : i # 6 => i + 1 \in 1 .. 6
      /\ 1 \in 1 .. 3 /\ 1 \in 1 .. 6 /\ \A ch, r : Added(1, ch, r)
  BY SMT DEF Commands, Added
<1>RunsShape.
      ASSUME NEW cmd, NEW ch, NEW r, NEW ch2, NEW r2, Runs(cmd, ch, r, ch2, r2)
      PROVE  /\ ch \subseteq ch2 /\ r \subseteq r2
             /\ "isolate" \in ch2 => "isolate" \in ch \/ cmd = "isolate"
  BY <1>RunsShape DEF Runs
<1>AddedShape.
      ASSUME NEW i \in 1 .. 6, NEW ch, NEW r, NEW ch2, NEW r2, Added(i, ch, r),
             Runs(Commands["network_isolate"][i], ch, r, ch2, r2)
      PROVE  /\ i # 6 => Added(i + 1, ch2, r2)
             /\ i = 6 => "isolate" \in ch2 /\ Exceptions \subseteq r2
  <2> USE <1>AddedShape
  <2> DEFINE cmd == Commands["network_isolate"][i]
  <2>1. /\ i = 2 => cmd = "isolate"
        /\ i = 3 => cmd = "lo"
        /\ i = 4 => cmd = "established"
        /\ i = 5 => cmd = "dns_udp"
        /\ i = 6 => cmd = "dns_tcp"
    BY SMT DEF Commands
  <2>2. ch \subseteq ch2 /\ r \subseteq r2
    BY <1>RunsShape
  <2>3. cmd = "isolate" => "isolate" \in ch2
    BY DEF Runs, Chains
  <2>4. cmd \in Exceptions => cmd \in r2
    BY DEF Runs, Chains, Exceptions
  <2> HIDE DEF cmd
  <2>5. \/ i = 1 \/ i = 2 \/ i = 3 \/ i = 4 \/ i = 5 \/ i = 6
    BY SMT
  <2>6. QED
    BY SMT, <2>1, <2>2, <2>3, <2>4, <2>5 DEF Added, Exceptions
<1>SilentReports.
      ASSUME NEW c
      PROVE  /\ [Silent EXCEPT !.done = TRUE, !.ok = TRUE, !.call = c].hit = 0
             /\ [Silent EXCEPT !.done = TRUE, !.ok = TRUE, !.call = c].call = c
  BY SMT, <1>SilentReports DEF Silent
<1>FireGrown.
      ASSUME FireGrows, NEW c, FireOK(c, host, chains, rules, broken)
      PROVE  FireOK(c, host', chains', rules', broken')
  BY <1>FireGrown DEF FireOK, FireGrows, Added
<1>FireMoved.
      ASSUME CallsOK, NEW w \in Workers, Moved(w, FireKinds), outcome'.hit = 0
      PROVE  FireMoves
  <2> USE <1>FireMoved
  <2>1. CallsOK' /\ Frame(ProcKinds) /\ Frame(FileKinds)
    BY MovedOK, MovedFrame, KindsDisjoint
  <2>2. QED
    BY <2>1 DEF FireMoves, Moved
<1>FireEndShape.
      ASSUME CallsOK, NEW w \in Workers, NEW ok, call[w].kind \in FireKinds,
             Return(w, ok, call[w], 0)
      PROVE  FireEnd(w, ok) /\ FireMoves
  <2> USE <1>FireEndShape
  <2>1. IsCall(call[w]) /\ DOMAIN call = Workers
    BY DEF CallsOK, CallOK
  <2>2. /\ call'[w] = Idle /\ \A v \in Workers \ {w} : call'[v] = call[v]
        /\ outcome' = Did(0, TRUE, ok, call[w])
    BY <2>1, ReturnShape
  <2>3. /\ Reports(Did(0, TRUE, ok, call[w]), 0, TRUE, ok)
        /\ SameBut(call[w], Did(0, TRUE, ok, call[w]).call, {"pc", "fd", "todo"})
    BY <2>1, DidShape
  <2>4. Moved(w, FireKinds)
    BY <2>1, ReturnMoves
  <2>5. /\ outcome'.hit = 0 /\ outcome'.ok = ok
        /\ outcome'.call.kind = call[w].kind /\ outcome'.call.undone = call[w].undone
    BY <2>2, <2>3 DEF Reports, SameBut, Fields
  <2>6. QED
    BY <2>2, <2>4, <2>5, <1>FireMoved DEF FireEnd
<1>FireGoesShape.
      ASSUME CallsOK, NEW w \in Workers, call[w].kind \in FireKinds,
             Step(w, "nft", [call[w] EXCEPT !.cmd = @ + 1])
      PROVE  FireGoes(w) /\ FireMoves
  <2> USE <1>FireGoesShape
  <2> DEFINE f == [call[w] EXCEPT !.cmd = @ + 1]
  <2>1. IsCall(call[w]) /\ DOMAIN call = Workers
    BY DEF CallsOK, CallOK
  <2>2. SameBut(call[w], f, {"cmd"}) /\ f.cmd = call[w].cmd + 1
    BY <2>1 DEF SameBut, IsCall, Fields
  <2>3. Step(w, "nft", f)
    OBVIOUS
  <2> HIDE DEF f
  <2>4. /\ IsCall(f) /\ f.kind = call[w].kind /\ f.undone = call[w].undone
    BY <2>2 DEF SameBut, Fields
  <2>5. Stepped(w, "nft", f)
    BY <2>1, <2>3, <2>4, StepShape
  <2>6. KindOK([f EXCEPT !.pc = "nft"])
    <3>1. [f EXCEPT !.pc = "nft"].kind = f.kind /\ [f EXCEPT !.pc = "nft"].pc = "nft"
      BY <2>4 DEF IsCall, Fields
    <3>2. QED
      BY <2>4, <3>1 DEF KindOK
  <2>7. Moved(w, FireKinds)
    BY <2>3, <2>4, <2>6, StepMoves
  <2>8. FireGoes(w)
    BY <2>2, <2>4, <2>5 DEF Stepped, SameBut, Fields, FireGoes
  <2>9. QED
    BY <2>7, <2>8, SilentShape, <1>FireMoved DEF FireGoes
<1>FireCallKeeps.
      ASSUME FireInv, CallsOK, NEW w \in Workers, NEW kind \in FireKinds, FirewallCall(w, kind)
      PROVE  FireKept
  <2> USE <1>FireCallKeeps
  <2> DEFINE c == [Idle EXCEPT !.kind = kind, !.cmd = 1,
                               !.pc = IF host.nft THEN "nft" ELSE "dry"]
  <2>1. /\ IsCall(c) /\ c.kind = kind /\ c.cmd = 1 /\ c.undone = FALSE
        /\ c.pc = IF host.nft THEN "nft" ELSE "dry"
    BY IdleShape DEF IsCall, Fields
  <2>2. Begin(w, "firewall", c) /\ UNCHANGED <<chains, rules, broken>>
    BY DEF FirewallCall, firewallVars
  <2> HIDE DEF c
  <2>3. KindOK(c)
    BY <2>1 DEF KindOK
  <2>4. Moved(w, FireKinds) /\ call[w].kind = "none"
    BY <2>1, <2>2, <2>3, BeginMoves DEF CallOK
  <2>5. /\ \A v \in Workers \ {w} : call'[v] = call[v]
        /\ call'[w] = c /\ outcome' = Silent /\ UNCHANGED host
    BY <2>2, BeginShape DEF CallsOK
  <2>6. FireOK(c, host, chains, rules, broken)
    BY <2>1, <1>CommandShape DEF FireOK
  <2>7. \A v \in Workers : Isolates(call[v]) => call'[v] = call[v]
    BY <2>4, <2>5 DEF Isolates
  <2>8. FireInv'
    BY <2>2, <2>5, <2>6, <2>7 DEF FireInv, Whole
  <2>9. QED
    BY <2>4, <2>5, <2>8, SilentShape, <1>FireMoved DEF FireKept, IsolationReported
<1>DryRunKeeps.
      ASSUME FireInv, CallsOK, NEW w \in Workers, DryRun(w)
      PROVE  FireKept
  <2> USE <1>DryRunKeeps
  <2>1. call[w].pc = "dry" /\ Return(w, TRUE, call[w], 0) /\ UNCHANGED <<chains, rules, broken>>
    BY DEF DryRun, At, firewallVars
  <2>2. call[w].kind \in FireKinds
    BY <2>1 DEF CallsOK, CallOK, KindOK, ProcPcs
  <2>3. FireEnd(w, TRUE) /\ FireMoves /\ UNCHANGED host
    BY <2>1, <2>2, <1>FireEndShape DEF FireMoves
  <2>4. ~ host.nft
    BY <2>1, <2>2 DEF FireInv, FireOK
  <2>5. /\ \A v \in Workers : FireOK(call'[v], host, chains, rules, broken)
        /\ \A v \in Workers : Isolates(call[v]) => call'[v] = call[v]
    BY <2>1, <2>3, IdleFires DEF FireEnd, FireInv, Isolates
  <2>6. FireInv'
    BY <2>1, <2>3, <2>5 DEF FireInv, Whole
  <2>7. QED
    BY <2>3, <2>4, <2>6 DEF FireKept, IsolationReported
\* The next command of a block or an isolation.
<1>RunCommandKeeps.
      ASSUME FireInv, CallsOK, NEW w \in Workers, RunCommand(w)
      PROVE  FireKept
  <2> USE <1>RunCommandKeeps
  <2> DEFINE c == call[w]
             last == c.cmd = Len(Commands[c.kind])
             cmd == Commands[c.kind][c.cmd]
  <2>1. c.pc = "nft" /\ c.kind \in {"nft_block", "network_isolate"} /\ c.kind \in FireKinds
    BY <1>CommandShape DEF RunCommand, At, FireKinds
  <2>2. FireOK(c, host, chains, rules, broken)
    BY DEF FireInv
  <2>3. \/ /\ Runs(cmd, chains, rules, chains', rules')
           /\ IF last THEN Return(w, TRUE, c, 0) ELSE Step(w, "nft", [c EXCEPT !.cmd = @ + 1])
           /\ broken' = (broken /\ ~ (last /\ Isolates(c) /\ ~ c.undone))
        \/ /\ Return(w, FALSE, c, 0)
           /\ broken' = (broken \/ Isolates(c))
           /\ UNCHANGED <<chains, rules>>
    BY IsolatingShape DEF RunCommand, Run, Runs
  <2> HIDE DEF last, cmd
  <2>4. CASE Return(w, FALSE, c, 0) /\ broken' = (broken \/ Isolates(c)) /\ UNCHANGED <<chains, rules>>
    <3>1. FireEnd(w, FALSE) /\ FireMoves /\ UNCHANGED host
      BY <2>1, <2>4, <1>FireEndShape DEF FireMoves
    <3>2. FireGrows
      BY <2>4, <3>1 DEF FireGrows
    <3>3. \A v \in Workers : FireOK(call'[v], host', chains', rules', broken')
      BY <3>1, <3>2, <1>FireGrown, IdleFires DEF FireInv, FireEnd
    <3>4. Whole(call', chains', rules', broken')
      <4>1. SUFFICES ASSUME "isolate" \in chains, ~ broken, ~ Isolates(c), ~ Exceptions \subseteq rules
                     PROVE  \E v \in Workers : Isolates(call'[v]) /\ ~ call'[v].undone
        BY <2>4 DEF Whole
      <4>2. PICK v \in Workers : Isolates(call[v]) /\ ~ call[v].undone
        BY <4>1 DEF FireInv, Whole
      <4>3. call'[v] = call[v]
        BY <3>1, <4>1, <4>2 DEF FireEnd
      <4>4. QED
        BY <4>2, <4>3
    <3>5. QED
      BY <3>1, <3>3, <3>4 DEF FireKept, FireInv, IsolationReported, FireEnd
  <2>5. CASE /\ Runs(cmd, chains, rules, chains', rules') /\ ~ last
             /\ Step(w, "nft", [c EXCEPT !.cmd = @ + 1])
             /\ broken' <=> broken
    <3>1. FireGoes(w) /\ FireMoves /\ UNCHANGED host
      BY <2>1, <2>5, <1>FireGoesShape DEF FireMoves
    <3>2. /\ chains \subseteq chains' /\ rules \subseteq rules'
          /\ "isolate" \in chains' => "isolate" \in chains \/ cmd = "isolate"
      BY <2>5, <1>RunsShape
    <3>3. FireGrows
      BY <2>5, <3>1, <3>2 DEF FireGrows
    <3>4. /\ call'[w].kind = c.kind /\ call'[w].pc = "nft" /\ call'[w].undone = c.undone
          /\ call'[w].cmd = c.cmd + 1 /\ \A v \in Workers \ {w} : call'[v] = call[v]
      BY <3>1 DEF FireGoes
    <3>5. /\ c.kind = "nft_block" => c.cmd + 1 \in 1 .. 3 /\ cmd # "isolate"
          /\ c.kind = "network_isolate" => c.cmd + 1 \in 1 .. 6
      BY <2>2, <2>5, <1>CommandShape DEF FireOK, last, cmd
    <3>6. Isolates(c) /\ ~ c.undone => Added(c.cmd + 1, chains', rules')
      <4>1. ASSUME Isolates(c), ~ c.undone PROVE Added(c.cmd + 1, chains', rules')
        <5>1. c.kind = "network_isolate" /\ c.cmd \in 1 .. 6 /\ Added(c.cmd, chains, rules)
          BY <2>2, <4>1 DEF FireOK, Isolates
        <5>2. PICK i \in 1 .. 6 : i = c.cmd
          BY <5>1
        <5>3. i # 6 /\ Runs(Commands["network_isolate"][i], chains, rules, chains', rules')
          BY <2>5, <5>1, <5>2, <1>CommandShape DEF last, cmd
        <5>4. QED
          BY <5>1, <5>2, <5>3, <1>AddedShape
      <4>2. QED
        BY <4>1
    <3>7. Isolates(call'[w]) <=> Isolates(c)
      BY <2>1, <3>4 DEF Isolates
    <3>8. FireOK(call'[w], host', chains', rules', broken')
      <4>1. call'[w].pc # "dry"
        BY <3>4
      <4>2. Isolates(c) /\ c.undone => broken' \/ Exceptions \subseteq rules'
        BY <2>2, <2>5, <3>2 DEF FireOK
      <4>3. QED
        BY <3>4, <3>5, <3>6, <3>7, <4>1, <4>2 DEF FireOK
    <3>9. \A v \in Workers : FireOK(call'[v], host', chains', rules', broken')
      BY <3>3, <3>4, <3>8, <1>FireGrown DEF FireInv
    <3>10. Whole(call', chains', rules', broken')
      <4>1. SUFFICES ASSUME "isolate" \in chains', ~ broken, ~ Exceptions \subseteq rules'
                     PROVE  \E v \in Workers : Isolates(call'[v]) /\ ~ call'[v].undone
        BY <2>5 DEF Whole
      <4>2. PICK v \in Workers : Isolates(call[v]) /\ ~ call[v].undone
        <5>1. CASE "isolate" \in chains
          BY <3>2, <4>1, <5>1 DEF FireInv, Whole
        <5>2. CASE cmd = "isolate"
          <6>1. Isolates(c)
            BY <2>1, <3>5, <5>2 DEF Isolates
          <6>2. ~ c.undone
            BY <2>2, <3>2, <4>1, <6>1 DEF FireOK
          <6>3. QED
            BY <6>1, <6>2
        <5>3. QED
          BY <3>2, <4>1, <5>1, <5>2
      <4>3. Isolates(call'[v]) /\ ~ call'[v].undone
        BY <3>4, <3>7, <4>2
      <4>4. QED
        BY <4>3
    <3>11. QED
      BY <3>1, <3>9, <3>10, SilentShape DEF FireKept, FireInv, IsolationReported, FireGoes
  <2>6. CASE /\ Runs(cmd, chains, rules, chains', rules') /\ last
             /\ Return(w, TRUE, c, 0)
             /\ broken' <=> (broken /\ ~ (Isolates(c) /\ ~ c.undone))
    <3>1. FireEnd(w, TRUE) /\ FireMoves /\ UNCHANGED host
      BY <2>1, <2>6, <1>FireEndShape DEF FireMoves
    <3>2. /\ chains \subseteq chains' /\ rules \subseteq rules'
          /\ "isolate" \in chains' => "isolate" \in chains \/ cmd = "isolate"
      BY <2>6, <1>RunsShape
    <3>3. Isolates(c) /\ ~ c.undone => "isolate" \in chains' /\ Exceptions \subseteq rules'
      <4>1. ASSUME Isolates(c), ~ c.undone PROVE "isolate" \in chains' /\ Exceptions \subseteq rules'
        <5>1. c.kind = "network_isolate" /\ c.cmd \in 1 .. 6 /\ Added(c.cmd, chains, rules)
          BY <2>2, <4>1 DEF FireOK, Isolates
        <5>2. PICK i \in 1 .. 6 : i = c.cmd
          BY <5>1
        <5>3. i = 6 /\ Runs(Commands["network_isolate"][i], chains, rules, chains', rules')
          BY <2>6, <5>1, <5>2, <1>CommandShape DEF last, cmd
        <5>4. QED
          BY <5>1, <5>2, <5>3, <1>AddedShape
      <4>2. QED
        BY <4>1
    <3>4. FireGrows
      BY <2>6, <3>1, <3>2, <3>3 DEF FireGrows
    <3>5. \A v \in Workers : FireOK(call'[v], host', chains', rules', broken')
      BY <3>1, <3>4, <1>FireGrown, IdleFires DEF FireInv, FireEnd
    <3>6. Whole(call', chains', rules', broken')
      <4>1. SUFFICES ASSUME "isolate" \in chains', ~ broken', ~ Exceptions \subseteq rules'
                     PROVE  \E v \in Workers : Isolates(call'[v]) /\ ~ call'[v].undone
        BY DEF Whole
      <4>2. ~ (Isolates(c) /\ ~ c.undone) /\ ~ broken
        BY <2>6, <3>3, <4>1
      <4>3. ~ Isolates(c)
        BY <2>2, <3>2, <4>1, <4>2 DEF FireOK
      <4>4. cmd # "isolate"
        BY <2>1, <2>2, <4>3, <1>CommandShape DEF FireOK, Isolates, cmd
      <4>5. PICK v \in Workers : Isolates(call[v]) /\ ~ call[v].undone
        BY <3>2, <4>1, <4>2, <4>4 DEF FireInv, Whole
      <4>6. call'[v] = call[v]
        BY <3>1, <4>3, <4>5 DEF FireEnd
      <4>7. QED
        BY <4>5, <4>6
    <3>7. IsolationReported'
      <4>1. SUFFICES ASSUME outcome'.call.kind = "network_isolate", ~ outcome'.call.undone
                     PROVE  "isolate" \in chains' /\ Exceptions \subseteq rules'
        BY DEF IsolationReported
      <4>2. Isolates(c) /\ ~ c.undone
        BY <2>1, <3>1, <4>1 DEF FireEnd, Isolates
      <4>3. QED
        BY <3>3, <4>2
    <3>8. QED
      BY <3>1, <3>5, <3>6, <3>7 DEF FireKept, FireInv
  <2>7. QED
    BY <2>3, <2>4, <2>5, <2>6
\* nft delete table: every isolation under way is crossed.
<1>RollbackKeeps.
      ASSUME FireInv, CallsOK, NEW w \in Workers, Rollback(w)
      PROVE  FireKept
  <2> USE <1>RollbackKeeps
  <2>1. call[w].kind = "nft_rollback" /\ call[w].kind \in FireKinds /\ ~ Isolates(call[w])
    BY DEF Rollback, InCall, FireKinds, Isolates
  <2>2. CASE Return(w, FALSE, call[w], 0) /\ UNCHANGED <<chains, rules, broken>>
    <3>1. FireEnd(w, FALSE) /\ FireMoves /\ UNCHANGED host
      BY <2>1, <2>2, <1>FireEndShape DEF FireMoves
    <3>2. /\ \A v \in Workers : FireOK(call'[v], host, chains, rules, broken)
          /\ \A v \in Workers : Isolates(call[v]) => call'[v] = call[v]
      BY <2>1, <3>1, IdleFires DEF FireEnd, FireInv
    <3>3. FireInv'
      BY <2>2, <3>1, <3>2 DEF FireInv, Whole
    <3>4. QED
      BY <3>1, <3>3 DEF FireKept, IsolationReported, FireEnd
  <2>3. CASE /\ chains' = {} /\ broken' = \E v \in Workers : Isolating(v)
             /\ call' = [v \in Workers |->
                           IF v = w THEN Idle
                           ELSE IF Isolating(v) THEN [call[v] EXCEPT !.undone = TRUE] ELSE call[v]]
             /\ outcome' = [Silent EXCEPT !.done = TRUE, !.ok = TRUE, !.call = call[w]]
             /\ UNCHANGED host
    <3>1. outcome'.hit = 0 /\ outcome'.call.kind = "nft_rollback"
      BY <2>1, <2>3, <1>SilentReports
    <3>2. ASSUME NEW v \in Workers, v # w, Isolates(call[v])
          PROVE  SameBut(call[v], call'[v], {"undone"}) /\ call'[v].undone
      <4>1. call'[v] = [call[v] EXCEPT !.undone = TRUE] /\ IsCall(call[v])
        BY <2>3, <3>2, IsolatingShape DEF CallsOK, CallOK
      <4>2. QED
        BY <4>1 DEF SameBut, IsCall, Fields
    <3>3. ASSUME NEW v \in Workers
          PROVE  \/ v = w /\ call'[v] = Idle
                 \/ v # w /\ ~ Isolates(call[v]) /\ call'[v] = call[v]
                 \/ /\ Isolates(call[v]) /\ broken' /\ IsCall(call'[v])
                    /\ call'[v].kind = call[v].kind /\ call'[v].pc = call[v].pc
                    /\ call'[v].cmd = call[v].cmd /\ call'[v].undone
      <4>1. CASE v = w
        BY <2>3, <4>1
      <4>2. CASE v # w /\ ~ Isolates(call[v])
        BY <2>3, <4>2, IsolatingShape
      <4>3. CASE v # w /\ Isolates(call[v])
        <5>1. SameBut(call[v], call'[v], {"undone"}) /\ call'[v].undone
          BY <3>2, <4>3
        <5>2. broken'
          BY <2>3, <4>3, IsolatingShape
        <5>3. QED
          BY <4>3, <5>1, <5>2 DEF SameBut, Fields
      <4>4. QED
        BY <4>1, <4>2, <4>3
    <3>4. CallsOK'
      <4>1. DOMAIN call' = Workers
        BY <2>3
      <4>2. ASSUME NEW v \in Workers PROVE CallOK(call'[v])
        <5>1. CallOK(call[v]) /\ CallOK(Idle)
          BY IdleShape DEF CallsOK, CallOK, KindOK
        <5>2. CASE IsCall(call'[v]) /\ call'[v].kind = call[v].kind /\ call'[v].pc = call[v].pc
          BY <5>1, <5>2 DEF CallOK, KindOK
        <5>3. QED
          BY <3>3, <5>1, <5>2
      <4>3. QED
        BY <4>1, <4>2 DEF CallsOK
    <3>5. Frame(ProcKinds) /\ Frame(FileKinds)
      <4>1. \A v \in Workers : \/ call'[v] = call[v]
                               \/ /\ call[v].kind \in FireKinds \cup {"none"}
                                  /\ call'[v].kind \in FireKinds \cup {"none"}
        BY <2>1, <3>3, IdleShape DEF Isolates, FireKinds
      <4>2. QED
        BY <4>1, KindsDisjoint DEF Frame
    <3>6. ASSUME NEW v \in Workers PROVE FireOK(call'[v], host', chains', rules', broken')
      <4>1. FireOK(call[v], host, chains, rules, broken)
        BY DEF FireInv
      <4>2. CASE v # w /\ ~ Isolates(call[v]) /\ call'[v] = call[v]
        BY <2>3, <4>1, <4>2 DEF FireOK
      <4>3. CASE /\ Isolates(call[v]) /\ broken'
                 /\ call'[v].kind = call[v].kind /\ call'[v].pc = call[v].pc
                 /\ call'[v].cmd = call[v].cmd /\ call'[v].undone
        BY <2>3, <4>1, <4>3 DEF FireOK
      <4>4. QED
        BY <3>3, <4>2, <4>3, IdleFires
    <3>7. FireInv'
      BY <2>3, <3>6 DEF FireInv, Whole
    <3>8. QED
      BY <2>1, <2>3, <3>1, <3>4, <3>5, <3>7 DEF FireKept, FireMoves, IsolationReported
  <2>4. QED
    BY <2>2, <2>3 DEF Rollback, firewallVars
<1>1. ASSUME NEW w \in Workers, NEW kind \in DOMAIN Commands, ApplyToNetwork(w, kind)
      PROVE  FireKept
  <2>1. kind \in FireKinds /\ FirewallCall(w, kind)
    BY <1>1, <1>CommandShape DEF ApplyToNetwork, FireKinds
  <2>2. QED
    BY <2>1, <1>FireCallKeeps
<1>2. ASSUME NEW w \in Workers, IsolateHandler(w) \/ RestoreNetworkHandler(w)
      PROVE  FireKept
  <2>1. \E kind \in FireKinds : FirewallCall(w, kind)
    BY <1>2 DEF IsolateHandler, RestoreNetworkHandler, FireKinds
  <2>2. QED
    BY <2>1, <1>FireCallKeeps
<1>3. QED
  BY <1>1, <1>2, <1>DryRunKeeps, <1>RunCommandKeeps, <1>RollbackKeeps DEF FirewallNext

----------------------------------------------------------------------------
\* The steps of a call on files.

\* A step moves worker w in a call on files, and signals nobody.
FilesMove(w) == Moved(w, FileKinds) /\ outcome'.hit = 0

\* The call goes on at pc, with what S names changed.
FilesGo(w, pc, S) ==
  /\ FilesMove(w)
  /\ SameBut(call[w], call'[w], S \cup {"pc"})
  /\ call'[w].pc = pc
  /\ UNCHANGED calls

\* The call is over.
FilesEnd(w) == FilesMove(w) /\ call'[w] = Idle /\ UNCHANGED calls

\* Where a call on files may be.
FilePcs(kind) ==
  CASE kind = "quarantine" -> {"file_open", "rename", "seal", "meta"}
    [] kind = "quarantine_restore" -> {"file_open", "chmod", "rename", "unlink"}
    [] kind = "fix_permissions" -> {"file_open", "chmod"}

\* A new call on file f.
FileCalled(w, kind, f) ==
  LET d == call'[w]
  IN /\ FilesMove(w)
     /\ call[w].kind = "none"
     /\ d.kind = kind /\ d.pc = "file_open" /\ d.file = f
     /\ calls' = [calls EXCEPT !["files"] = @ + 1]

----------------------------------------------------------------------------
\* Where the files are: the inductive invariant.

\* An inode is at one path, or in the directory under one name, or unlinked.
PlacesInv ==
  /\ inode \in Seq(Inodes)
  /\ DOMAIN at = Files
  /\ \A f \in Files : at[f] \in Nat /\ at[f] <= Len(inode)
  /\ \A e \in dir : e.inode \in Nat \ {0} /\ e.inode <= Len(inode)
  /\ \A f, g \in Files : at[f] = at[g] /\ at[f] # 0 => f = g
  /\ \A d, e \in dir : d.inode = e.inode \/ d.name = e.name => d = e
  /\ \A f \in Files, e \in dir : at[f] # e.inode
  /\ \A i \in 1 .. Len(inode) :
       i \in unlinked \/ (\E f \in Files : at[f] = i) \/ (\E e \in dir : e.inode = i)

\* Calls on files name a file, and only the polling goroutine changes one
\* that is not in quarantine.
FileCallsInv ==
  \A w \in Workers :
    /\ call[w].kind \in FileKinds => call[w].file \in Files
    /\ call[w].kind \in {"quarantine", "fix_permissions"} => w = Poll

\* A step that changes modes alone.
LEMMA PlacesStay ==
  ASSUME PlacesInv, UNCHANGED <<at, dir, unlinked>>, inode' \in Seq(Inodes),
         Len(inode') = Len(inode)
  PROVE  PlacesInv'
  BY DEF PlacesInv

----------------------------------------------------------------------------
\* Names in quarantine: the inductive invariant.

\* The name n was made before call k of the component.
Named(n, k) == n[2] \in Nat /\ n[2] < k

\* So was every name in the directory d, in a sidecar of m or found by a Restore of c.
UsedBelow(d, m, c, k) ==
  /\ \A e \in d : Named(e.name, k)
  /\ \A s \in m : Named(s.name, k)
  /\ \A v \in Workers : c[v].kind = "quarantine_restore" /\ c[v].pc # "file_open" =>
                          Named(c[v].entry, k)

\* The name a Quarantine makes is newer than every name in use until its rename:
\* no name is used twice.
NamesInv ==
  /\ DOMAIN calls = Components /\ calls["files"] \in Nat
  /\ UsedBelow(dir, meta, call, calls["files"] + 1)
  /\ \A w \in Workers : call[w].kind = "quarantine" =>
       /\ call[w].pc = "file_open" => UsedBelow(dir, meta, call, calls["files"])
       /\ call[w].pc = "rename" => UsedBelow(dir, meta, call, call[w].entry[2])
       /\ call[w].pc # "file_open" => Named(call[w].entry, calls["files"] + 1)

\* A step that makes no name: what call v has found is its own, or in a sidecar.
NoNames ==
  /\ dir' \subseteq dir /\ meta' \subseteq meta
  /\ \A v \in Workers : call'[v].kind = "quarantine_restore" /\ call'[v].pc # "file_open" =>
       \/ /\ call[v].kind = "quarantine_restore" /\ call[v].pc # "file_open"
          /\ call'[v].entry = call[v].entry
       \/ \E m \in meta : call'[v].entry = m.name

LEMMA UsedStays ==
  ASSUME NoNames, NEW k, UsedBelow(dir, meta, call, k)
  PROVE  UsedBelow(dir', meta', call', k)
  <1>1. /\ \A e \in dir' : Named(e.name, k)
        /\ \A s \in meta' : Named(s.name, k)
    BY DEF UsedBelow, NoNames
  <1>2. ASSUME NEW v \in Workers, call'[v].kind = "quarantine_restore", call'[v].pc # "file_open"
        PROVE  Named(call'[v].entry, k)
    BY <1>2 DEF UsedBelow, NoNames
  <1>3. QED
    BY <1>1, <1>2 DEF UsedBelow

\* Such a step keeps the invariant, unless it begins a call, when every
\* Quarantine is where it was or is over.
LEMMA NamesStay ==
  ASSUME NamesInv, NoNames, DOMAIN calls' = Components, calls'["files"] = calls["files"],
         \A v \in Workers : call'[v].kind = "quarantine" =>
           \/ call'[v] = call[v]
           \/ /\ call[v].kind = "quarantine" /\ call[v].pc # "file_open"
              /\ call'[v].pc \notin {"file_open", "rename"} /\ call'[v].entry = call[v].entry
  PROVE  NamesInv'
  <1>1. DOMAIN calls' = Components /\ calls'["files"] \in Nat
    BY DEF NamesInv
  <1>2. UsedBelow(dir', meta', call', calls'["files"] + 1)
    BY UsedStays DEF NamesInv
  <1>3. ASSUME NEW v \in Workers, call'[v].kind = "quarantine"
        PROVE  /\ call'[v].pc = "file_open" => UsedBelow(dir', meta', call', calls'["files"])
               /\ call'[v].pc = "rename" => UsedBelow(dir', meta', call', call'[v].entry[2])
               /\ call'[v].pc # "file_open" => Named(call'[v].entry, calls'["files"] + 1)
    <2>1. CASE call'[v] = call[v]
      <3>1. call[v].kind = "quarantine"
        BY <1>3, <2>1
      <3>2. /\ call[v].pc = "file_open" => UsedBelow(dir, meta, call, calls["files"])
            /\ call[v].pc = "rename" => UsedBelow(dir, meta, call, call[v].entry[2])
            /\ call[v].pc # "file_open" => Named(call[v].entry, calls["files"] + 1)
        BY <3>1 DEF NamesInv
      <3>3. /\ call[v].pc = "file_open" => UsedBelow(dir', meta', call', calls["files"])
            /\ call[v].pc = "rename" => UsedBelow(dir', meta', call', call[v].entry[2])
        BY <3>2, UsedStays
      <3>4. QED
        BY <2>1, <3>2, <3>3
    <2>2. CASE call'[v] # call[v]
      <3>1. /\ call[v].kind = "quarantine" /\ call[v].pc # "file_open"
            /\ call'[v].pc \notin {"file_open", "rename"} /\ call'[v].entry = call[v].entry
        BY <1>3, <2>2
      <3>2. Named(call[v].entry, calls["files"] + 1)
        BY <3>1 DEF NamesInv
      <3>3. QED
        BY <3>1, <3>2
    <2>3. QED
      BY <2>1, <2>2
  <1>4. QED
    BY <1>1, <1>2, <1>3 DEF NamesInv

----------------------------------------------------------------------------
\* Modes and sidecars: the inductive invariant.

Sealed(ino, e) == ino[e.inode].mode \in {"sealed", "restored"}

\* A call c against the directory d and the inodes ino: fix_permissions never
\* has a descriptor of a file in quarantine; a Quarantine that has its sidecar
\* left to write has sealed the file; a Restore that has its sidecar left to
\* remove has taken the file out.
CallSealed(c, d, ino) ==
  /\ c.kind = "fix_permissions" /\ c.pc = "chmod" =>
       /\ c.fd \in Nat \ {0} /\ c.fd <= Len(ino)
       /\ \A e \in d : e.inode # c.fd
  /\ c.kind = "quarantine" /\ c.pc = "meta" =>
       \A e \in d : e.name = c.entry => Sealed(ino, e)
  /\ c.kind = "quarantine_restore" /\ c.pc = "unlink" => \A e \in d : e.name # c.entry

\* The call c has n in the directory, and its sidecar left to write.
Keeps(c, n) == c.kind = "quarantine" /\ c.pc \in {"seal", "meta"} /\ c.entry = n

HasMeta(m, n) == \E s \in m : s.name = n

SealInv ==
  /\ \A w \in Workers : CallSealed(call[w], dir, inode)
  /\ \A e \in dir : \/ \E w \in Workers : Keeps(call[w], e.name)
                    \/ e.name \in stranded
                    \/ HasMeta(meta, e.name) /\ Sealed(inode, e)

\* A step that leaves what is in quarantine sealed, adds nothing to it, and
\* removes no sidecar of it.
QuarantineStays ==
  /\ dir' \subseteq dir
  /\ \A i \in Nat : i <= Len(inode) => i <= Len(inode')
  /\ \A e \in dir' : Sealed(inode, e) => Sealed(inode', e)
  /\ \A e \in dir' : HasMeta(meta, e.name) => HasMeta(meta', e.name)
  /\ stranded \subseteq stranded'

LEMMA CallSealedStays ==
  ASSUME QuarantineStays, NEW c, CallSealed(c, dir, inode)
  PROVE  CallSealed(c, dir', inode')
  BY DEF CallSealed, QuarantineStays

\* Such a step keeps the invariant if it keeps what is said of the calls it moves,
\* and no call gives up a name that is not sealed and listed, or stranded.
LEMMA SealStays ==
  ASSUME SealInv, QuarantineStays,
         \A v \in Workers : \/ call'[v] = call[v]
                            \/ /\ CallSealed(call'[v], dir', inode')
                               /\ \A e \in dir' : Keeps(call[v], e.name) =>
                                    \/ Keeps(call'[v], e.name)
                                    \/ e.name \in stranded'
                                    \/ HasMeta(meta', e.name) /\ Sealed(inode', e)
  PROVE  SealInv'
  <1>1. ASSUME NEW v \in Workers PROVE CallSealed(call'[v], dir', inode')
    <2>1. CallSealed(call[v], dir', inode')
      BY CallSealedStays DEF SealInv
    <2>2. QED
      BY <2>1
  <1>2. ASSUME NEW e \in dir'
        PROVE  \/ \E w \in Workers : Keeps(call'[w], e.name)
               \/ e.name \in stranded'
               \/ HasMeta(meta', e.name) /\ Sealed(inode', e)
    <2>1. e \in dir
      BY DEF QuarantineStays
    <2>2. \/ \E w \in Workers : Keeps(call[w], e.name)
          \/ e.name \in stranded
          \/ HasMeta(meta, e.name) /\ Sealed(inode, e)
      BY <2>1 DEF SealInv
    <2>3. CASE \E w \in Workers : Keeps(call[w], e.name)
      <3>1. PICK w \in Workers : Keeps(call[w], e.name)
        BY SMT, <2>3
      <3>2. CASE call'[w] = call[w]
        <4>1. Keeps(call'[w], e.name)
          BY <3>1, <3>2
        <4>2. QED
          BY <4>1
      <3>3. CASE call'[w] # call[w]
        BY <3>1, <3>3
      <3>4. QED
        BY <3>2, <3>3
    <2>4. CASE e.name \in stranded
      BY <2>4 DEF QuarantineStays
    <2>5. CASE HasMeta(meta, e.name) /\ Sealed(inode, e)
      BY <2>5 DEF QuarantineStays
    <2>6. QED
      BY <2>2, <2>3, <2>4, <2>5
  <1>3. QED
    BY <1>1, <1>2 DEF SealInv

----------------------------------------------------------------------------
\* Files: every step keeps the invariant.

FileInv == PlacesInv /\ FileCallsInv /\ NamesInv /\ SealInv

LEMMA IdleKeeps ==
  \A d, ino, n : CallSealed(Idle, d, ino) /\ ~ Keeps(Idle, n)
  BY IdleShape DEF CallSealed, Keeps

LEMMA QuarantineUnchanged ==
  ASSUME dir' \subseteq dir, UNCHANGED <<inode, meta>>, stranded \subseteq stranded'
  PROVE  QuarantineStays
  BY DEF QuarantineStays

\* What a step of another component, or of nobody, leaves of the calls on files.
CountsStay == DOMAIN calls' = Components /\ calls'["files"] = calls["files"]

LEMMA FileStays ==
  ASSUME FileInv, Frame(FileKinds), PlacesInv', QuarantineStays, meta' \subseteq meta, CountsStay
  PROVE  FileInv'
  <1>1. \A v \in Workers : call'[v] = call[v] \/ call'[v].kind \notin FileKinds
    BY DEF Frame
  <1>2. FileCallsInv'
    <2>1. {"quarantine", "fix_permissions"} \subseteq FileKinds
      BY DEF FileKinds
    <2>2. QED
      BY <1>1, <2>1 DEF FileInv, FileCallsInv
  <1>3. NamesInv'
    <2>1. "quarantine" \in FileKinds /\ "quarantine_restore" \in FileKinds
      BY DEF FileKinds
    <2>2. NoNames
      BY <1>1, <2>1 DEF NoNames, QuarantineStays
    <2>3. \A v \in Workers : call'[v].kind = "quarantine" => call'[v] = call[v]
      BY <1>1, <2>1
    <2>4. QED
      BY <2>2, <2>3, NamesStay DEF FileInv, CountsStay
  <1>4. SealInv'
    <2>1. ASSUME NEW v \in Workers, call'[v] # call[v]
          PROVE  CallSealed(call'[v], dir', inode') /\ \A n : ~ Keeps(call[v], n)
      <3>1. call'[v].kind \notin FileKinds /\ call[v].kind \notin FileKinds
        BY <2>1 DEF Frame
      <3>2. QED
        BY <3>1 DEF CallSealed, Keeps, FileKinds
    <2>2. QED
      BY <2>1, SealStays DEF FileInv
  <1>5. QED
    BY <1>2, <1>3, <1>4 DEF FileInv

LEMMA FileFrame ==
  ASSUME FileInv, Frame(FileKinds), UNCHANGED fileVars, CountsStay
  PROVE  FileInv'
  <1>1. PlacesInv' /\ QuarantineStays
    BY PlacesStay, QuarantineUnchanged DEF FileInv, PlacesInv, fileVars
  <1>2. QED
    BY <1>1, FileStays DEF fileVars

\* The steps of a call on files.
FileSteps(w) ==
  \/ QuarantineOpen(w) \/ QuarantineRename(w) \/ QuarantineSeal(w) \/ QuarantineMeta(w)
  \/ RestoreFind(w) \/ RestoreChmod(w) \/ RestoreRename(w) \/ RestoreUnlink(w)
  \/ FixOpen(w) \/ FixChmod(w)

LEMMA FileKeeps ==
  ASSUME FileInv, CallsOK, FileNext
  PROVE  /\ FileInv'
         /\ \/ UNCHANGED <<call, host>> /\ outcome' = Silent
            \/ \E w \in Workers : FilesMove(w)
<1>Sequence.
      ASSUME NEW S, NEW s \in Seq(S), NEW x \in S
      PROVE  /\ Len(s) \in Nat
             /\ Append(s, x) \in Seq(S) /\ Len(Append(s, x)) = Len(s) + 1
             /\ \A i \in 1 .. Len(s) : Append(s, x)[i] = s[i]
  BY SMT, <1>Sequence
<1>ModeShape.
      ASSUME inode \in Seq(Inodes), NEW i \in Nat \ {0}, i <= Len(inode),
             NEW m \in {"user", "sealed", "restored", "0600"}, Chmod(i, m)
      PROVE  ModeSet(i, m)
  <2> USE <1>ModeShape
  <2>1. i \in 1 .. Len(inode)
    BY SMT
  <2>2. inode \in [1 .. Len(inode) -> Inodes]
    BY SMT
  <2>3. [inode[i] EXCEPT !.mode = m] \in Inodes /\ [inode[i] EXCEPT !.mode = m].mode = m
    BY SMT, <2>1, <2>2 DEF Inodes
  <2>4. /\ inode' \in [1 .. Len(inode) -> Inodes]
        /\ inode'[i] = [inode[i] EXCEPT !.mode = m]
        /\ \A j \in 1 .. Len(inode) : j # i => inode'[j] = inode[j]
    BY <2>1, <2>2, <2>3 DEF Chmod
  <2>5. inode' \in Seq(Inodes) /\ Len(inode') = Len(inode)
    BY SMT, <2>4
  <2>6. QED
    BY <2>3, <2>4, <2>5 DEF ModeSet
<1>FilesEndShape.
      ASSUME CallsOK, NEW w \in Workers, NEW ok, call[w].kind \in FileKinds,
             Return(w, ok, call[w], 0)
      PROVE  FilesEnd(w)
  <2> USE <1>FilesEndShape
  <2>1. IsCall(call[w])
    BY DEF CallsOK, CallOK
  <2>2. /\ call'[w] = Idle /\ UNCHANGED calls
        /\ outcome' = Did(0, TRUE, ok, call[w])
    BY ReturnShape DEF CallsOK
  <2>6. Reports(Did(0, TRUE, ok, call[w]), 0, TRUE, ok)
    BY <2>1, DidShape
  <2>3. outcome'.hit = 0
    BY <2>2, <2>6 DEF Reports
  <2>4. Moved(w, FileKinds)
    BY <2>1, ReturnMoves
  <2>5. QED
    BY <2>2, <2>3, <2>4 DEF FilesEnd, FilesMove
<1>FilesGoShape.
      ASSUME CallsOK, NEW w \in Workers, NEW f, NEW pc, NEW S, call[w].kind \in FileKinds,
             SameBut(call[w], f, S), "kind" \notin S, pc \in FilePcs(call[w].kind), Step(w, pc, f)
      PROVE  /\ FilesGo(w, pc, S)
             /\ SameBut(f, call'[w], {"pc"})
  <2> USE <1>FilesGoShape
  <2>0. DOMAIN call = Workers
    BY DEF CallsOK
  <2>1. IsCall(f) /\ f.kind = call[w].kind
    BY DEF SameBut, Fields
  <2>2. [f EXCEPT !.pc = pc].kind = f.kind /\ [f EXCEPT !.pc = pc].pc = pc
    BY <2>1 DEF IsCall, Fields
  <2>3. KindOK([f EXCEPT !.pc = pc])
    <3>1. CASE call[w].kind = "quarantine"
      BY <2>1, <2>2, <3>1 DEF KindOK, FilePcs
    <3>2. CASE call[w].kind = "quarantine_restore"
      BY <2>1, <2>2, <3>2 DEF KindOK, FilePcs
    <3>3. CASE call[w].kind = "fix_permissions"
      BY <2>1, <2>2, <3>3 DEF KindOK, FilePcs
    <3>4. QED
      BY <3>1, <3>2, <3>3 DEF FileKinds
  <2>4. Moved(w, FileKinds)
    BY <2>1, <2>3, StepMoves
  <2>5. /\ call'[w].pc = pc /\ SameBut(f, call'[w], {"pc"})
        /\ outcome' = Silent /\ UNCHANGED calls
    <3>1. Stepped(w, pc, f)
      BY <2>0, <2>1, StepShape
    <3>2. QED
      BY <3>1 DEF Stepped
  <2>6. outcome'.hit = 0
    BY <2>5, SilentShape
  <2>7. SameBut(call[w], call'[w], S \cup {"pc"})
    BY <2>5 DEF SameBut
  <2>8. QED
    BY <2>4, <2>5, <2>6, <2>7 DEF FilesGo, FilesMove
\* A worker at a pc of its own in a call on files is in that call.
<1>AtFile.
      ASSUME CallsOK, NEW w \in Workers
      PROVE  /\ SameBut(call[w], call[w], {})
             /\ call[w].pc \in {"seal", "meta"} => call[w].kind = "quarantine"
             /\ call[w].pc = "unlink" => call[w].kind = "quarantine_restore"
  <2> USE <1>AtFile
  <2>1. IsCall(call[w]) /\ KindOK(call[w])
    BY DEF CallsOK, CallOK
  <2>2. QED
    BY <2>1 DEF SameBut, KindOK, ProcPcs
\* A call with another entry, or another descriptor.
<1>FileField.
      ASSUME NEW c, IsCall(c), NEW x
      PROVE  /\ SameBut(c, [c EXCEPT !.entry = x], {"entry"})
             /\ [c EXCEPT !.entry = x].entry = x
             /\ SameBut(c, [c EXCEPT !.fd = x], {"fd"})
             /\ [c EXCEPT !.fd = x].fd = x
  BY <1>FileField DEF SameBut, IsCall, Fields
<1>FileCallShape.
      ASSUME CallsOK, NEW w \in Workers, NEW kind \in FileKinds, NEW f, FileCall(w, kind, f)
      PROVE  FileCalled(w, kind, f) /\ UNCHANGED fileVars
  <2> USE <1>FileCallShape
  <2> DEFINE c == [Idle EXCEPT !.kind = kind, !.pc = "file_open", !.file = f]
  <2>1. /\ IsCall(c) /\ c.kind = kind /\ c.pc = "file_open" /\ c.file = f
    BY IdleShape DEF IsCall, Fields
  <2>2. Begin(w, "files", c) /\ UNCHANGED fileVars
    BY DEF FileCall
  <2> HIDE DEF c
  <2>3. KindOK(c)
    BY <2>1 DEF KindOK, FileKinds
  <2>4. Moved(w, FileKinds) /\ call[w].kind = "none"
    BY <2>1, <2>2, <2>3, BeginMoves DEF CallOK
  <2>5. call'[w] = c /\ outcome' = Silent
    BY <2>2, BeginShape DEF CallsOK
  <2>6. calls' = [calls EXCEPT !["files"] = @ + 1]
    BY <2>2 DEF Begin
  <2>7. QED
    BY <2>1, <2>2, <2>4, <2>5, <2>6, SilentShape DEF FileCalled, FilesMove
<1>FileCallShapes.
      ASSUME CallsOK, NEW w \in Workers, call[w].kind \in FileKinds
      PROVE  /\ IsCall(call[w]) /\ SameBut(call[w], call[w], {})
             /\ \A ok \in BOOLEAN : Return(w, ok, call[w], 0) => FilesEnd(w)
             /\ \A pc \in FilePcs(call[w].kind) : Step(w, pc, call[w]) => FilesGo(w, pc, {})
  <2> USE <1>FileCallShapes
  <2>1. IsCall(call[w]) /\ SameBut(call[w], call[w], {})
    BY <1>AtFile DEF SameBut
  <2>2. ASSUME NEW ok \in BOOLEAN, Return(w, ok, call[w], 0) PROVE FilesEnd(w)
    BY <2>2, <1>FilesEndShape
  <2>3. ASSUME NEW pc \in FilePcs(call[w].kind), Step(w, pc, call[w]) PROVE FilesGo(w, pc, {})
    BY <2>1, <2>3, <1>FilesGoShape
  <2>4. QED
    BY <2>1, <2>2, <2>3
<1>EntryShape.
      ASSUME NEW n, InDir(n)
      PROVE  Entry(n) \in dir /\ Entry(n).name = n
  BY <1>EntryShape DEF Entry, InDir
<1>WritesPlaces.
      ASSUME PlacesInv, NEW f \in Files, NEW link \in BOOLEAN, UserWrites(f, link)
      PROVE  /\ PlacesInv'
             /\ \A i \in Nat : i <= Len(inode) => i <= Len(inode')
             /\ \A e \in dir : inode'[e.inode] = inode[e.inode]
  <2> USE <1>WritesPlaces
  <2>1. PICK n \in Nat : n = Len(inode)
    BY SequenceLength DEF PlacesInv
  <2>2. /\ inode' \in Seq(Inodes) /\ Len(inode') = n + 1
        /\ \A i \in 1 .. n : inode'[i] = inode[i]
    <3> DEFINE x == [link |-> link, mode |-> "user"]
    <3>1. x \in Inodes /\ inode' = Append(inode, x) /\ inode \in Seq(Inodes)
      BY InodeShape DEF UserWrites, PlacesInv
    <3> HIDE DEF x
    <3>2. QED
      BY <2>1, <3>1, <1>Sequence
  <2>3. /\ DOMAIN at' = Files
        /\ at'[f] = n + 1 /\ \A g \in Files \ {f} : at'[g] = at[g]
        /\ unlinked' = unlinked \cup ({at[f]} \ {0})
        /\ UNCHANGED dir
    BY <2>1 DEF UserWrites, PlacesInv
  <2>4. n + 1 \in Nat /\ n + 1 # 0 /\ \A i \in Nat : i <= n => i <= n + 1 /\ i # n + 1
    BY Numbers
  <2>5. n + 1 <= n + 1 /\ \A i \in 1 .. n + 1 : i \in 1 .. n \/ i = n + 1
    BY <2>4, Numbers
  <2>6. /\ \A g \in Files : at[g] \in Nat /\ at[g] <= n
        /\ \A e \in dir : e.inode \in Nat \ {0} /\ e.inode <= n
    BY <2>1 DEF PlacesInv
  <2>7. /\ \A g \in Files : at'[g] \in Nat /\ at'[g] <= n + 1
        /\ \A e \in dir' : e.inode \in Nat \ {0} /\ e.inode <= n + 1
    BY <2>3, <2>4, <2>5, <2>6
  <2>8. \A g \in Files \ {f} : at'[g] # n + 1
    BY <2>3, <2>4, <2>6
  <2>9. \A g, h \in Files : at'[g] = at'[h] /\ at'[g] # 0 => g = h
    <3>1. \A g, h \in Files : at[g] = at[h] /\ at[g] # 0 => g = h
      BY DEF PlacesInv
    <3>2. SUFFICES ASSUME NEW g \in Files, NEW h \in Files, at'[g] = at'[h], at'[g] # 0
                   PROVE  g = h
      BY SMT
    <3>3. CASE g # f /\ h # f
      BY <2>3, <3>1, <3>2, <3>3
    <3>4. CASE g = f \/ h = f
      BY <2>3, <2>8, <3>2, <3>4
    <3>5. QED
      BY <3>3, <3>4
  <2>10. \A d, e \in dir' : d.inode = e.inode \/ d.name = e.name => d = e
    BY <2>3 DEF PlacesInv
  <2>11. \A g \in Files, e \in dir' : at'[g] # e.inode
    <3>1. \A g \in Files, e \in dir : at[g] # e.inode
      BY DEF PlacesInv
    <3>2. \A e \in dir : e.inode # n + 1
      BY <2>4, <2>6
    <3>3. QED
      BY <2>3, <3>1, <3>2
  <2>12. \A i \in 1 .. n + 1 :
           i \in unlinked' \/ (\E g \in Files : at'[g] = i) \/ (\E e \in dir' : e.inode = i)
    <3>1. SUFFICES ASSUME NEW i \in 1 .. n
                   PROVE  i \in unlinked' \/ (\E g \in Files : at'[g] = i) \/ (\E e \in dir : e.inode = i)
      BY <2>3, <2>5
    <3>2. i \in unlinked \/ (\E g \in Files : at[g] = i) \/ (\E e \in dir : e.inode = i)
      BY <2>1 DEF PlacesInv
    <3>3. i # 0
      BY Numbers
    <3>4. QED
      BY <2>3, <3>2, <3>3
  <2>13. /\ \A g \in Files : at'[g] \in Nat /\ at'[g] <= Len(inode')
         /\ \A e \in dir' : e.inode \in Nat \ {0} /\ e.inode <= Len(inode')
         /\ \A i \in 1 .. Len(inode') :
              i \in unlinked' \/ (\E g \in Files : at'[g] = i) \/ (\E e \in dir' : e.inode = i)
    BY <2>2, <2>7, <2>12
  <2>14. PlacesInv'
    BY <2>2, <2>3, <2>9, <2>10, <2>11, <2>13 DEF PlacesInv
  <2>15. \A i \in Nat : i <= Len(inode) => i <= Len(inode')
    BY <2>1, <2>2, <2>4
  <2>16. \A e \in dir : e.inode \in 1 .. n
    BY <2>6, Numbers
  <2>17. QED
    BY <2>2, <2>14, <2>15, <2>16
\* rename(path, qPath) under a new name.
<1>RenamePlaces.
      ASSUME PlacesInv, NEW f \in Files, NEW x, at[f] # 0, \A e \in dir : e.name # x.name,
             x.inode = at[f], at' = [at EXCEPT ![f] = 0], dir' = dir \cup {x},
             UNCHANGED <<inode, unlinked>>
      PROVE  PlacesInv'
  <2> USE <1>RenamePlaces
  <2>1. DOMAIN at' = Files /\ at'[f] = 0 /\ \A g \in Files \ {f} : at'[g] = at[g]
    BY DEF PlacesInv
  <2>2. /\ \A g \in Files : at[g] \in Nat /\ at[g] <= Len(inode)
        /\ \A e \in dir : e.inode \in Nat \ {0} /\ e.inode <= Len(inode)
    BY DEF PlacesInv
  <2>3. 0 \in Nat /\ 0 <= Len(inode)
    BY SequenceLength, Numbers DEF PlacesInv
  <2>4. \A g, h \in Files : at[g] = at[h] /\ at[g] # 0 => g = h
    BY DEF PlacesInv
  <2>5. \A g \in Files, e \in dir : at[g] # e.inode
    BY DEF PlacesInv
  <2>6. \A d, e \in dir : d.inode = e.inode \/ d.name = e.name => d = e
    BY DEF PlacesInv
  <2>7. \A g \in Files : at'[g] \in Nat /\ at'[g] <= Len(inode')
    BY <2>1, <2>2, <2>3
  <2>8. \A e \in dir' : e.inode \in Nat \ {0} /\ e.inode <= Len(inode')
    BY <2>2
  <2>9. \A g, h \in Files : at'[g] = at'[h] /\ at'[g] # 0 => g = h
    BY <2>1, <2>4
  <2>10. \A d, e \in dir' : d.inode = e.inode \/ d.name = e.name => d = e
    <3>1. \A e \in dir : e.inode # x.inode /\ e.name # x.name
      BY <2>5
    <3>2. QED
      BY <2>6, <3>1
  <2>11. \A g \in Files, e \in dir' : at'[g] # e.inode
    <3>1. SUFFICES ASSUME NEW g \in Files, NEW e \in dir', at'[g] = e.inode PROVE FALSE
      OBVIOUS
    <3>2. CASE g = f
      BY <2>1, <2>8, <3>1, <3>2
    <3>3. CASE g # f /\ e \in dir
      BY <2>1, <2>5, <3>1, <3>3
    <3>4. CASE g # f /\ e = x
      <4>1. at[g] = at[f]
        BY <2>1, <3>1, <3>4
      <4>2. QED
        BY <2>4, <3>4, <4>1
    <3>5. QED
      BY <3>2, <3>3, <3>4
  <2>12. ASSUME NEW i \in 1 .. Len(inode')
         PROVE  i \in unlinked' \/ (\E g \in Files : at'[g] = i) \/ (\E e \in dir' : e.inode = i)
    <3>1. i \in unlinked \/ (\E g \in Files : at[g] = i) \/ (\E e \in dir : e.inode = i)
      BY DEF PlacesInv
    <3>2. CASE \E g \in Files : at[g] = i
      <4>1. PICK g \in Files : at[g] = i
        BY SMT, <3>2
      <4>2. CASE g = f
        <5>1. x \in dir' /\ x.inode = i
          BY <4>1, <4>2
        <5>2. QED
          BY <5>1
      <4>3. QED
        BY <2>1, <4>1, <4>2
    <3>3. QED
      BY <3>1, <3>2
  <2>13. QED
    BY <2>1, <2>7, <2>8, <2>9, <2>10, <2>11, <2>12 DEF PlacesInv
\* rename(qPath, path) over whatever is there.
<1>RestorePlaces.
      ASSUME PlacesInv, NEW f \in Files, NEW x \in dir,
             at' = [at EXCEPT ![f] = x.inode], dir' = dir \ {x},
             unlinked' = unlinked \cup ({at[f]} \ {0}), UNCHANGED inode
      PROVE  PlacesInv'
  <2> USE <1>RestorePlaces
  <2>1. DOMAIN at' = Files /\ at'[f] = x.inode /\ \A g \in Files \ {f} : at'[g] = at[g]
    BY DEF PlacesInv
  <2>2. /\ \A g \in Files : at[g] \in Nat /\ at[g] <= Len(inode)
        /\ \A e \in dir : e.inode \in Nat \ {0} /\ e.inode <= Len(inode)
    BY DEF PlacesInv
  <2>4. \A g, h \in Files : at[g] = at[h] /\ at[g] # 0 => g = h
    BY DEF PlacesInv
  <2>5. \A g \in Files, e \in dir : at[g] # e.inode
    BY DEF PlacesInv
  <2>6. \A d, e \in dir : d.inode = e.inode \/ d.name = e.name => d = e
    BY DEF PlacesInv
  <2>7. \A g \in Files : at'[g] \in Nat /\ at'[g] <= Len(inode')
    BY <2>1, <2>2
  <2>8. \A e \in dir' : e.inode \in Nat \ {0} /\ e.inode <= Len(inode')
    BY <2>2
  <2>9. \A g, h \in Files : at'[g] = at'[h] /\ at'[g] # 0 => g = h
    <3>1. SUFFICES ASSUME NEW g \in Files, NEW h \in Files, at'[g] = at'[h], at'[g] # 0
                   PROVE  g = h
      BY SMT
    <3>2. CASE g # f /\ h # f
      BY <2>1, <2>4, <3>1, <3>2
    <3>3. CASE g = f \/ h = f
      BY <2>1, <2>5, <3>1, <3>3
    <3>4. QED
      BY <3>2, <3>3
  <2>10. \A d, e \in dir' : d.inode = e.inode \/ d.name = e.name => d = e
    BY <2>6
  <2>11. \A g \in Files, e \in dir' : at'[g] # e.inode
    <3>1. \A e \in dir' : e \in dir /\ e # x
      OBVIOUS
    <3>2. \A e \in dir' : e.inode # x.inode
      BY <2>6, <3>1
    <3>3. QED
      BY <2>1, <2>5, <3>1, <3>2
  <2>12. ASSUME NEW i \in 1 .. Len(inode')
         PROVE  i \in unlinked' \/ (\E g \in Files : at'[g] = i) \/ (\E e \in dir' : e.inode = i)
    <3>1. i \in unlinked \/ (\E g \in Files : at[g] = i) \/ (\E e \in dir : e.inode = i)
      BY DEF PlacesInv
    <3>2. i # 0
      BY SequenceLength, Numbers DEF PlacesInv
    <3>3. CASE \E g \in Files : at[g] = i
      BY <2>1, <3>2, <3>3
    <3>4. CASE \E e \in dir : e.inode = i
      BY <2>1, <3>4
    <3>5. QED
      BY <3>1, <3>3, <3>4
  <2>13. QED
    BY <2>1, <2>7, <2>8, <2>9, <2>10, <2>11, <2>12 DEF PlacesInv
<1>NotNamed.
      ASSUME NEW n
      PROVE  ~ Named(n, n[2])
  BY <1>NotNamed, Numbers DEF Named
<1>UsedLater.
      ASSUME NEW d, NEW m, NEW c, NEW k \in Nat, UsedBelow(d, m, c, k)
      PROVE  UsedBelow(d, m, c, k + 1)
  <2> USE <1>UsedLater
  <2>1. \A i \in Nat : i < k => i < k + 1
    BY Numbers
  <2>2. \A n : Named(n, k) => Named(n, k + 1)
    BY <2>1 DEF Named
  <2>3. QED
    BY <2>2 DEF UsedBelow
\* A call on files begins.
<1>NamesBegin.
      ASSUME NamesInv, NEW w \in Workers, NEW kind \in FileKinds, NEW f, FileCalled(w, kind, f),
             UNCHANGED fileVars
      PROVE  NamesInv'
  <2> USE <1>NamesBegin
  <2>1. PICK k \in Nat : k = calls["files"]
    BY DEF NamesInv
  <2>2. DOMAIN calls' = Components /\ calls'["files"] = k + 1
    BY <2>1 DEF NamesInv, FileCalled, Components
  <2>3. k + 1 \in Nat
    BY Numbers
  <2>4. /\ \A v \in Workers \ {w} : call'[v] = call[v]
        /\ call'[w].kind = kind /\ call'[w].pc = "file_open"
    BY DEF FileCalled, FilesMove, Moved
  <2>5. NoNames
    BY <2>4 DEF NoNames, fileVars
  <2>6. UsedBelow(dir', meta', call', k + 1)
    BY <2>1, <2>5, UsedStays DEF NamesInv
  <2>7. UsedBelow(dir', meta', call', (k + 1) + 1)
    BY <2>3, <2>6, <1>UsedLater
  <2>8. ASSUME NEW v \in Workers, v # w, call'[v].kind = "quarantine", call'[v].pc # "file_open"
        PROVE  /\ call'[v].pc = "rename" => UsedBelow(dir', meta', call', call'[v].entry[2])
               /\ Named(call'[v].entry, (k + 1) + 1)
    <3>1. call'[v] = call[v]
      BY <2>4, <2>8
    <3>2. /\ call[v].pc = "rename" => UsedBelow(dir, meta, call, call[v].entry[2])
          /\ Named(call[v].entry, k + 1)
      BY <2>1, <2>8, <3>1 DEF NamesInv
    <3>3. \A i \in Nat : i < k + 1 => i < (k + 1) + 1
      BY <2>3, Numbers
    <3>4. Named(call[v].entry, (k + 1) + 1)
      BY <3>2, <3>3 DEF Named
    <3>5. call[v].pc = "rename" => UsedBelow(dir', meta', call', call[v].entry[2])
      BY <2>5, <3>2, UsedStays
    <3>6. QED
      BY <3>1, <3>4, <3>5
  <2>9. QED
    BY <2>2, <2>3, <2>4, <2>6, <2>7, <2>8 DEF NamesInv
\* open and fstat: the name is made.
<1>NamesOpen.
      ASSUME NamesInv, FileCallsInv, NEW w \in Workers, call[w].kind = "quarantine",
             call[w].pc = "file_open", FilesGo(w, "rename", {"entry"}), UNCHANGED fileVars,
             call'[w].entry = <<at[call[w].file], calls.files>>
      PROVE  NamesInv'
  <2> USE <1>NamesOpen
  <2>1. PICK k \in Nat : k = calls["files"]
    BY DEF NamesInv
  <2>2. /\ \A v \in Workers \ {w} : call'[v] = call[v]
        /\ call'[w].pc = "rename" /\ call'[w].kind = "quarantine" /\ UNCHANGED calls
    BY DEF FilesGo, FilesMove, Moved, SameBut, Fields
  <2>3. call'[w].entry[2] = k
    <3>1. PICK a : a = at[call[w].file]
      BY SMT
    <3>2. call'[w].entry = <<a, k>>
      BY <2>1, <3>1
    <3>3. QED
      BY SMT, <3>2
  <2>4. NoNames
    BY <2>2 DEF NoNames, fileVars
  <2>5. UsedBelow(dir', meta', call', k + 1) /\ UsedBelow(dir', meta', call', k)
    BY <2>1, <2>4, UsedStays DEF NamesInv
  <2>6. Named(call'[w].entry, k + 1)
    <3>1. k < k + 1
      BY Numbers
    <3>2. QED
      BY <2>3, <3>1 DEF Named
  <2>7. \A v \in Workers : call'[v].kind = "quarantine" => v = w
    BY <2>2 DEF FileCallsInv
  <2>8. DOMAIN calls' = Components /\ calls'["files"] = k
    BY <2>1, <2>2 DEF NamesInv
  <2>9. QED
    BY <2>2, <2>3, <2>5, <2>6, <2>7, <2>8 DEF NamesInv
\* The name of a Quarantine goes into the directory or into a sidecar.
<1>NamesUse.
      ASSUME NamesInv, FileCallsInv, NEW w \in Workers, call[w].kind = "quarantine",
             call[w].pc # "file_open", FilesMove(w), UNCHANGED calls,
             \/ call'[w].kind = "none"
             \/ call'[w].pc \notin {"file_open", "rename"} /\ call'[w].entry = call[w].entry
                /\ call'[w].kind = "quarantine",
             \A e \in dir' : e \in dir \/ e.name = call[w].entry,
             \A m \in meta' : m \in meta \/ m.name = call[w].entry
      PROVE  NamesInv'
  <2> USE <1>NamesUse
  <2>1. PICK k \in Nat : k = calls["files"]
    BY DEF NamesInv
  <2>2. Named(call[w].entry, k + 1) /\ UsedBelow(dir, meta, call, k + 1)
    BY <2>1 DEF NamesInv
  <2>3. \A v \in Workers \ {w} : call'[v] = call[v]
    BY DEF FilesMove, Moved
  <2>4. UsedBelow(dir', meta', call', k + 1)
    <3>1. /\ \A e \in dir' : Named(e.name, k + 1)
          /\ \A m \in meta' : Named(m.name, k + 1)
      BY <2>2 DEF UsedBelow
    <3>2. ASSUME NEW v \in Workers, call'[v].kind = "quarantine_restore", call'[v].pc # "file_open"
          PROVE  Named(call'[v].entry, k + 1)
      <4>1. v # w
        BY <3>2
      <4>2. QED
        BY <2>2, <2>3, <3>2, <4>1 DEF UsedBelow
    <3>3. QED
      BY <3>1, <3>2 DEF UsedBelow
  <2>5. \A v \in Workers : call'[v].kind = "quarantine" => v = w
    BY <2>3 DEF FileCallsInv
  <2>6. DOMAIN calls' = Components /\ calls'["files"] = k
    BY <2>1 DEF NamesInv
  <2>7. QED
    BY <2>2, <2>4, <2>5, <2>6 DEF NamesInv
\* rename(path, qPath): a new name, which the call keeps.
<1>SealRename.
      ASSUME SealInv, FileCallsInv, NamesInv, NEW w \in Workers, NEW x,
             call[w].kind = "quarantine", call[w].pc = "rename", FilesGo(w, "seal", {}),
             x.name = call[w].entry, dir' = dir \cup {x}, UNCHANGED <<inode, meta, stranded>>
      PROVE  SealInv'
  <2> USE <1>SealRename
  <2>1. /\ \A v \in Workers \ {w} : call'[v] = call[v]
        /\ call'[w].kind = "quarantine" /\ call'[w].pc = "seal" /\ call'[w].entry = call[w].entry
    BY DEF FilesGo, FilesMove, Moved, SameBut, Fields
  <2>2. UsedBelow(dir, meta, call, x.name[2])
    BY DEF NamesInv
  <2>3. ASSUME NEW v \in Workers PROVE CallSealed(call'[v], dir', inode')
    <3>1. CASE v = w
      BY <2>1, <3>1 DEF CallSealed
    <3>2. CASE v # w
      <4>1. call'[v] = call[v] /\ v # Poll /\ call[v].kind \notin {"quarantine", "fix_permissions"}
        BY <2>1, <3>2 DEF FileCallsInv
      <4>2. CallSealed(call[v], dir, inode)
        BY DEF SealInv
      <4>3. ASSUME call[v].kind = "quarantine_restore", call[v].pc = "unlink"
            PROVE  x.name # call[v].entry
        <5>1. Named(call[v].entry, x.name[2])
          BY <2>2, <4>3 DEF UsedBelow
        <5>2. QED
          BY <5>1, <1>NotNamed
      <4>4. CallSealed(call[v], dir', inode')
        BY <4>1, <4>2, <4>3 DEF CallSealed
      <4>5. QED
        BY <4>1, <4>4
    <3>3. QED
      BY <3>1, <3>2
  <2>4. ASSUME NEW e \in dir'
        PROVE  \/ \E v \in Workers : Keeps(call'[v], e.name)
               \/ e.name \in stranded'
               \/ HasMeta(meta', e.name) /\ Sealed(inode', e)
    <3>1. CASE e = x
      <4>1. Keeps(call'[w], e.name)
        BY <2>1, <3>1 DEF Keeps
      <4>2. QED
        BY <4>1
    <3>2. CASE e \in dir
      <4>1. \/ \E v \in Workers : Keeps(call[v], e.name)
            \/ e.name \in stranded
            \/ HasMeta(meta, e.name) /\ Sealed(inode, e)
        BY <3>2 DEF SealInv
      <4>2. \A v \in Workers : Keeps(call[v], e.name) => v # w
        BY DEF Keeps
      <4>3. \A v \in Workers : Keeps(call[v], e.name) => Keeps(call'[v], e.name)
        BY <2>1, <4>2
      <4>4. QED
        BY <4>1, <4>3
    <3>3. QED
      BY <3>1, <3>2
  <2>5. QED
    BY <2>3, <2>4 DEF SealInv
<1>FileCallsEnd.
      ASSUME FileCallsInv, NEW w \in Workers, FilesEnd(w)
      PROVE  FileCallsInv'
  <2> USE <1>FileCallsEnd
  <2>1. call'[w].kind = "none" /\ \A v \in Workers \ {w} : call'[v] = call[v]
    BY IdleShape DEF FilesEnd, FilesMove, Moved
  <2>2. "none" \notin FileKinds
    BY DEF FileKinds
  <2>3. QED
    BY <2>1, <2>2 DEF FileCallsInv
<1>FileCallsGo.
      ASSUME FileCallsInv, NEW w \in Workers, NEW pc, NEW S \in SUBSET {"entry", "fd"}, FilesGo(w, pc, S)
      PROVE  /\ FileCallsInv'
             /\ call'[w].kind = call[w].kind
             /\ "entry" \notin S => call'[w].entry = call[w].entry
             /\ \A v \in Workers \ {w} : call'[v] = call[v]
  <2> USE <1>FileCallsGo
  <2>1. /\ call'[w].kind = call[w].kind /\ call'[w].file = call[w].file
        /\ "entry" \notin S => call'[w].entry = call[w].entry
    BY DEF FilesGo, SameBut, Fields
  <2>2. \A v \in Workers \ {w} : call'[v] = call[v]
    BY DEF FilesGo, FilesMove, Moved
  <2>3. QED
    BY <2>1, <2>2 DEF FileCallsInv
<1>FileCallsStep.
      ASSUME FileCallsInv, NEW w \in Workers, NEW pc, FilesGo(w, pc, {})
      PROVE  FileCallsInv' /\ call'[w].kind = call[w].kind /\ call'[w].entry = call[w].entry
  <2> USE <1>FileCallsStep
  <2>1. {} \in SUBSET {"entry", "fd"} /\ "entry" \notin {}
    OBVIOUS
  <2>2. QED
    BY <2>1, <1>FileCallsGo
<1>NamesEnd.
      ASSUME NamesInv, NEW w \in Workers, FilesEnd(w), dir' \subseteq dir, meta' \subseteq meta
      PROVE  NamesInv'
  <2> USE <1>NamesEnd
  <2>1. /\ call'[w].kind = "none" /\ UNCHANGED calls
        /\ \A v \in Workers \ {w} : call'[v] = call[v]
    BY IdleShape DEF FilesEnd, FilesMove, Moved
  <2>2. NoNames
    BY <2>1 DEF NoNames
  <2>3. DOMAIN calls' = Components /\ calls'["files"] = calls["files"]
    BY <2>1 DEF NamesInv
  <2>4. \A v \in Workers : call'[v].kind = "quarantine" => call'[v] = call[v]
    BY <2>1
  <2>5. QED
    BY <2>2, <2>3, <2>4, NamesStay
\* A step of a Restore or of fix_permissions.
<1>NamesGo.
      ASSUME NamesInv, FileCallsInv, NEW w \in Workers, NEW pc, NEW S \in SUBSET {"entry", "fd"},
             FilesGo(w, pc, S), call[w].kind # "quarantine", dir' \subseteq dir, meta' \subseteq meta,
             \/ call[w].kind = "fix_permissions"
             \/ call[w].pc # "file_open" /\ S = {}
             \/ \E m \in meta : call'[w].entry = m.name
      PROVE  NamesInv'
  <2> USE <1>NamesGo
  <2>1. /\ call'[w].kind = call[w].kind
        /\ "entry" \notin S => call'[w].entry = call[w].entry
        /\ \A v \in Workers \ {w} : call'[v] = call[v]
    BY <1>FileCallsGo
  <2>2. NoNames
    <3>1. SUFFICES ASSUME call'[w].kind = "quarantine_restore"
                   PROVE  \/ /\ call[w].kind = "quarantine_restore" /\ call[w].pc # "file_open"
                             /\ call'[w].entry = call[w].entry
                          \/ \E m \in meta : call'[w].entry = m.name
      BY <2>1 DEF NoNames
    <3>2. QED
      BY <2>1, <3>1
  <2>3. DOMAIN calls' = Components /\ calls'["files"] = calls["files"]
    BY DEF NamesInv, FilesGo
  <2>4. \A v \in Workers : call'[v].kind = "quarantine" => call'[v] = call[v]
    BY <2>1
  <2>5. QED
    BY <2>2, <2>3, <2>4, NamesStay
\* A step of w that adds nothing to the quarantine keeps what is said of modes
\* and sidecars if it keeps what is said of w.
<1>SealMoved.
      ASSUME SealInv, QuarantineStays, NEW w \in Workers, FilesMove(w),
             CallSealed(call'[w], dir', inode'),
             \A e \in dir' : Keeps(call[w], e.name) => \/ Keeps(call'[w], e.name)
                                                       \/ e.name \in stranded'
                                                       \/ HasMeta(meta', e.name) /\ Sealed(inode', e)
      PROVE  SealInv'
  <2> USE <1>SealMoved
  <2>1. \A v \in Workers \ {w} : call'[v] = call[v]
    BY DEF FilesMove, Moved
  <2>2. QED
    BY <2>1, SealStays
\* A call ends, with nothing in the directory to answer for.
<1>FileEnds.
      ASSUME FileInv, NEW w \in Workers, FilesEnd(w), UNCHANGED fileVars,
             call[w].pc \notin {"seal", "meta"}
      PROVE  FileInv' /\ FilesMove(w)
  <2> USE <1>FileEnds
  <2>1. PlacesInv' /\ QuarantineStays
    BY PlacesStay, QuarantineUnchanged DEF FileInv, PlacesInv, fileVars
  <2>2. FileCallsInv' /\ NamesInv'
    BY <1>FileCallsEnd, <1>NamesEnd DEF FileInv, fileVars
  <2>3. FilesMove(w) /\ call'[w] = Idle
    BY DEF FilesEnd
  <2>4. CallSealed(call'[w], dir', inode') /\ \A n : ~ Keeps(call[w], n)
    BY <2>3, IdleKeeps DEF Keeps
  <2>5. QED
    BY <2>1, <2>2, <2>3, <2>4, <1>SealMoved DEF FileInv
<1>FileOpenKeeps.
      ASSUME FileInv, CallsOK, NEW w \in Workers, QuarantineOpen(w)
      PROVE  FileInv' /\ FilesMove(w)
  <2> USE <1>FileOpenKeeps
  <2>1. /\ call[w].kind = "quarantine" /\ call[w].pc = "file_open" /\ UNCHANGED fileVars
        /\ \/ FilesEnd(w)
           \/ /\ FilesGo(w, "rename", {"entry"})
              /\ call'[w].entry = <<at[call[w].file], calls.files>>
    <3>1. call[w].kind = "quarantine" /\ call[w].pc = "file_open" /\ UNCHANGED fileVars
      BY DEF QuarantineOpen, At, InCall
    <3>2. call[w].kind \in FileKinds
      BY <3>1 DEF FileKinds
    <3> DEFINE n == <<at[call[w].file], calls.files>>
               f == [call[w] EXCEPT !.entry = n]
    <3>3. Step(w, "rename", f) \/ Return(w, FALSE, call[w], 0)
      BY DEF QuarantineOpen
    <3>4. SameBut(call[w], f, {"entry"}) /\ f.entry = n
      BY <3>2, <1>FileCallShapes, <1>FileField
    <3> HIDE DEF f, n
    <3>5. ASSUME Step(w, "rename", f)
          PROVE  FilesGo(w, "rename", {"entry"}) /\ call'[w].entry = n
      <4>1. "rename" \in FilePcs(call[w].kind)
        BY <3>1 DEF FilePcs
      <4>2. FilesGo(w, "rename", {"entry"}) /\ SameBut(f, call'[w], {"pc"})
        BY <3>2, <3>4, <3>5, <4>1, <1>FilesGoShape
      <4>3. QED
        BY <3>4, <4>2 DEF SameBut, Fields
    <3>6. QED
      BY <3>1, <3>2, <3>3, <3>5, <1>FileCallShapes DEF n
  <2>2. CASE FilesEnd(w)
    BY <2>1, <2>2, <1>FileEnds
  <2>3. CASE /\ FilesGo(w, "rename", {"entry"})
             /\ call'[w].entry = <<at[call[w].file], calls.files>>
    <3>1. PlacesInv' /\ QuarantineStays
      BY <2>1, PlacesStay, QuarantineUnchanged DEF FileInv, PlacesInv, fileVars
    <3>2. FileCallsInv' /\ call'[w].kind = "quarantine"
      BY <2>1, <2>3, <1>FileCallsGo DEF FileInv
    <3>3. NamesInv'
      BY <2>1, <2>3, <1>NamesOpen DEF FileInv
    <3>4. FilesMove(w) /\ call'[w].pc = "rename"
      BY <2>3 DEF FilesGo
    <3>5. CallSealed(call'[w], dir', inode') /\ \A n : ~ Keeps(call[w], n)
      BY <2>1, <3>2, <3>4 DEF CallSealed, Keeps
    <3>6. QED
      BY <3>1, <3>2, <3>3, <3>4, <3>5, <1>SealMoved DEF FileInv
  <2>4. QED
    BY <2>1, <2>2, <2>3
<1>FileRenameKeeps.
      ASSUME FileInv, CallsOK, NEW w \in Workers, QuarantineRename(w)
      PROVE  FileInv' /\ FilesMove(w)
  <2> USE <1>FileRenameKeeps
  <2> DEFINE x == [name |-> call[w].entry, inode |-> at[call[w].file]]
  <2>1. /\ call[w].kind = "quarantine" /\ call[w].pc = "rename"
        /\ UNCHANGED <<inode, meta, stranded, unlinked>>
        /\ \/ FilesEnd(w) /\ UNCHANGED <<at, dir>>
           \/ /\ FilesGo(w, "seal", {})
              /\ at[call[w].file] # 0
              /\ at' = [at EXCEPT ![call[w].file] = 0]
              /\ dir' = {e \in dir : e.name # call[w].entry} \cup {x}
    <3>1. call[w].kind = "quarantine" /\ call[w].pc = "rename"
      BY DEF QuarantineRename, At, InCall
    <3>2. call[w].kind \in FileKinds /\ "seal" \in FilePcs(call[w].kind)
      BY <3>1 DEF FileKinds, FilePcs
    <3>3. Step(w, "seal", call[w]) => FilesGo(w, "seal", {})
      BY <3>2, <1>FileCallShapes
    <3>4. Return(w, FALSE, call[w], 0) => FilesEnd(w)
      BY <3>2, <1>FileCallShapes
    <3>5. QED
      BY <3>1, <3>3, <3>4 DEF QuarantineRename
  <2>2. CASE FilesEnd(w) /\ UNCHANGED <<at, dir>>
    BY <2>1, <2>2, <1>FileEnds DEF fileVars
  <2>3. CASE /\ FilesGo(w, "seal", {})
             /\ at[call[w].file] # 0
             /\ at' = [at EXCEPT ![call[w].file] = 0]
             /\ dir' = {e \in dir : e.name # call[w].entry} \cup {x}
    <3>1. x.name = call[w].entry /\ x.inode = at[call[w].file]
      OBVIOUS
    <3>2. call[w].file \in Files
      BY <2>1 DEF FileInv, FileCallsInv, FileKinds
    <3> HIDE DEF x
    <3>3. \A e \in dir : e.name # call[w].entry
      <4>1. UsedBelow(dir, meta, call, call[w].entry[2])
        BY <2>1 DEF FileInv, NamesInv
      <4>2. SUFFICES ASSUME NEW e \in dir, e.name = call[w].entry PROVE FALSE
        OBVIOUS
      <4>3. Named(e.name, e.name[2])
        BY <4>1, <4>2 DEF UsedBelow
      <4>4. QED
        BY <4>3, <1>NotNamed
    <3>4. dir' = dir \cup {x}
      BY <2>3, <3>3
    <3>5. PlacesInv'
      BY <2>1, <2>3, <3>1, <3>2, <3>3, <3>4, <1>RenamePlaces DEF FileInv
    <3>6. SealInv'
      BY <2>1, <2>3, <3>1, <3>4, <1>SealRename DEF FileInv
    <3>7. /\ FileCallsInv' /\ call'[w].kind = "quarantine" /\ call'[w].entry = call[w].entry
      BY <2>1, <2>3, <1>FileCallsStep DEF FileInv
    <3>8. FilesMove(w) /\ call'[w].pc = "seal" /\ UNCHANGED calls
      BY <2>3 DEF FilesGo
    <3>9. /\ \A e \in dir' : e \in dir \/ e.name = call[w].entry
          /\ \A m \in meta' : m \in meta \/ m.name = call[w].entry
      BY <2>1, <3>1, <3>4
    <3>10. NamesInv'
      BY <2>1, <3>7, <3>8, <3>9, <1>NamesUse DEF FileInv
    <3>11. QED
      BY <3>5, <3>6, <3>7, <3>8, <3>10 DEF FileInv
  <2>4. QED
    BY <2>1, <2>2, <2>3
\* fchmod of what is in quarantine under the name n.
<1>EntryMode.
      ASSUME PlacesInv, NEW n, InDir(n), NEW m \in {"sealed", "restored"},
             inode' = [inode EXCEPT ![Entry(n).inode].mode = m],
             UNCHANGED <<at, dir, meta, stranded, unlinked>>
      PROVE  /\ PlacesInv' /\ QuarantineStays
             /\ \A e \in dir' : e.name = n => Sealed(inode', e)
  <2> USE <1>EntryMode
  <2>1. PICK x \in dir : x = Entry(n) /\ x.name = n
    BY <1>EntryShape
  <2>2. PICK i \in Nat \ {0} : i = x.inode /\ i <= Len(inode)
    BY DEF PlacesInv
  <2>3. inode \in Seq(Inodes) /\ Chmod(i, m)
    BY <2>1, <2>2 DEF PlacesInv, Chmod
  <2>4. /\ inode' \in Seq(Inodes) /\ Len(inode') = Len(inode)
        /\ \A j \in 1 .. Len(inode) : inode'[j].mode = IF j = i THEN m ELSE inode[j].mode
    <3>1. m \in {"user", "sealed", "restored", "0600"}
      OBVIOUS
    <3>2. ModeSet(i, m)
      BY <2>2, <2>3, <3>1, <1>ModeShape
    <3>3. QED
      BY <3>2 DEF ModeSet
  <2>5. PlacesInv'
    BY <2>4, PlacesStay
  <2>6. \A e \in dir : e.inode \in 1 .. Len(inode)
    <3>1. \A k \in Nat \ {0} : k <= Len(inode) => k \in 1 .. Len(inode)
      BY <2>3, SequenceLength, Numbers
    <3>2. QED
      BY <3>1 DEF PlacesInv
  <2>7. \A e \in dir' : Sealed(inode, e) => Sealed(inode', e)
    <3>1. SUFFICES ASSUME NEW e \in dir, inode[e.inode].mode \in {"sealed", "restored"}
                   PROVE  inode'[e.inode].mode \in {"sealed", "restored"}
      BY DEF Sealed
    <3>2. inode'[e.inode].mode = m \/ inode'[e.inode].mode = inode[e.inode].mode
      BY <2>4, <2>6
    <3>3. QED
      BY <3>1, <3>2
  <2>8. \A e \in dir' : e.name = n => Sealed(inode', e)
    <3>1. SUFFICES ASSUME NEW e \in dir, e.name = n PROVE Sealed(inode', e)
      OBVIOUS
    <3>2. e = x
      BY <2>1, <3>1 DEF PlacesInv
    <3>3. inode'[e.inode].mode = m
      BY <2>2, <2>4, <2>6, <3>2
    <3>4. QED
      BY <3>3 DEF Sealed
  <2>9. QED
    BY <2>4, <2>5, <2>7, <2>8 DEF QuarantineStays
<1>FileSealKeeps.
      ASSUME FileInv, CallsOK, NEW w \in Workers, QuarantineSeal(w)
      PROVE  FileInv' /\ FilesMove(w)
  <2> USE <1>FileSealKeeps
  <2>1. /\ call[w].kind = "quarantine" /\ call[w].pc = "seal"
        /\ UNCHANGED <<at, dir, meta, unlinked>>
        /\ \/ /\ FilesEnd(w) /\ UNCHANGED inode
              /\ stranded' = stranded \cup {call[w].entry}
           \/ /\ FilesGo(w, "meta", {}) /\ UNCHANGED stranded
              /\ InDir(call[w].entry)
              /\ inode' = [inode EXCEPT ![Entry(call[w].entry).inode].mode = "sealed"]
    <3>1. call[w].kind = "quarantine" /\ call[w].pc = "seal"
      BY <1>AtFile DEF QuarantineSeal, At
    <3>2. call[w].kind \in FileKinds /\ "meta" \in FilePcs(call[w].kind)
      BY <3>1 DEF FileKinds, FilePcs
    <3>3. Step(w, "meta", call[w]) => FilesGo(w, "meta", {})
      BY <3>2, <1>FileCallShapes
    <3>4. Return(w, FALSE, call[w], 0) => FilesEnd(w)
      BY <3>2, <1>FileCallShapes
    <3>5. QED
      BY <3>1, <3>3, <3>4 DEF QuarantineSeal
  <2>2. CASE /\ FilesEnd(w) /\ UNCHANGED inode
             /\ stranded' = stranded \cup {call[w].entry}
    <3>1. PlacesInv' /\ QuarantineStays
      BY <2>1, <2>2, PlacesStay, QuarantineUnchanged DEF FileInv, PlacesInv
    <3>2. FileCallsInv' /\ NamesInv'
      BY <2>1, <2>2, <1>FileCallsEnd, <1>NamesEnd DEF FileInv
    <3>3. FilesMove(w) /\ call'[w] = Idle
      BY <2>2 DEF FilesEnd
    <3>4. CallSealed(call'[w], dir', inode') /\ \A n : Keeps(call[w], n) => n \in stranded'
      BY <2>2, <3>3, IdleKeeps DEF Keeps
    <3>5. QED
      BY <3>1, <3>2, <3>3, <3>4, <1>SealMoved DEF FileInv
  <2>3. CASE /\ FilesGo(w, "meta", {}) /\ UNCHANGED stranded
             /\ InDir(call[w].entry)
             /\ inode' = [inode EXCEPT ![Entry(call[w].entry).inode].mode = "sealed"]
    <3>1. /\ PlacesInv' /\ QuarantineStays
          /\ \A e \in dir' : e.name = call[w].entry => Sealed(inode', e)
      BY <2>1, <2>3, <1>EntryMode DEF FileInv
    <3>2. FileCallsInv' /\ call'[w].kind = "quarantine" /\ call'[w].entry = call[w].entry
      BY <2>1, <2>3, <1>FileCallsStep DEF FileInv
    <3>3. FilesMove(w) /\ call'[w].pc = "meta" /\ UNCHANGED calls
      BY <2>3 DEF FilesGo
    <3>4. NamesInv'
      BY <2>1, <3>2, <3>3, <1>NamesUse DEF FileInv
    <3>5. /\ CallSealed(call'[w], dir', inode')
          /\ \A n : Keeps(call[w], n) => Keeps(call'[w], n)
      BY <3>1, <3>2, <3>3 DEF CallSealed, Keeps
    <3>6. QED
      BY <3>1, <3>2, <3>3, <3>4, <3>5, <1>SealMoved DEF FileInv
  <2>4. QED
    BY <2>1, <2>2, <2>3
<1>FileMetaKeeps.
      ASSUME FileInv, CallsOK, NEW w \in Workers, QuarantineMeta(w)
      PROVE  FileInv' /\ FilesMove(w)
  <2> USE <1>FileMetaKeeps
  <2> DEFINE x == [name |-> call[w].entry, path |-> call[w].file]
  <2>1. /\ call[w].kind = "quarantine" /\ call[w].pc = "meta"
        /\ FilesEnd(w)
        /\ UNCHANGED <<at, inode, dir, unlinked>>
        /\ \/ meta' = meta \cup {x} /\ UNCHANGED stranded
           \/ stranded' = stranded \cup {call[w].entry} /\ UNCHANGED meta
    <3>1. call[w].kind = "quarantine" /\ call[w].pc = "meta"
      BY <1>AtFile DEF QuarantineMeta, At
    <3>2. call[w].kind \in FileKinds
      BY <3>1 DEF FileKinds
    <3>3. Return(w, TRUE, call[w], 0) => FilesEnd(w)
      BY <3>2, <1>FileCallShapes
    <3>4. QED
      BY <3>1, <3>3 DEF QuarantineMeta
  <2>2. x.name = call[w].entry
    OBVIOUS
  <2> HIDE DEF x
  <2>3. PlacesInv'
    BY <2>1, PlacesStay DEF FileInv, PlacesInv
  <2>4. FilesMove(w) /\ call'[w] = Idle /\ call'[w].kind = "none" /\ UNCHANGED calls
    BY <2>1, IdleShape DEF FilesEnd
  <2>5. \A m \in meta' : m \in meta \/ m.name = call[w].entry
    BY <2>1, <2>2
  <2>6. FileCallsInv' /\ NamesInv'
    BY <2>1, <2>4, <2>5, <1>FileCallsEnd, <1>NamesUse DEF FileInv
  <2>7. QuarantineStays
    <3>1. \A n : HasMeta(meta, n) => HasMeta(meta', n)
      BY <2>1 DEF HasMeta
    <3>2. QED
      BY <2>1, <3>1 DEF QuarantineStays
  <2>8. \A e \in dir' : Keeps(call[w], e.name) =>
          e.name \in stranded' \/ (HasMeta(meta', e.name) /\ Sealed(inode', e))
    <3>1. SUFFICES ASSUME NEW e \in dir, e.name = call[w].entry, UNCHANGED stranded,
                          meta' = meta \cup {x}
                   PROVE  HasMeta(meta', e.name) /\ Sealed(inode, e)
      BY <2>1 DEF Keeps
    <3>2. CallSealed(call[w], dir, inode)
      BY DEF FileInv, SealInv
    <3>3. Sealed(inode, e)
      BY <2>1, <3>1, <3>2 DEF CallSealed
    <3>4. HasMeta(meta', e.name)
      BY <2>2, <3>1 DEF HasMeta
    <3>5. QED
      BY <3>3, <3>4
  <2>9. QED
    BY <2>3, <2>4, <2>6, <2>7, <2>8, IdleKeeps, <1>SealMoved DEF FileInv
<1>RestoreFindKeeps.
      ASSUME FileInv, CallsOK, NEW w \in Workers, RestoreFind(w)
      PROVE  FileInv' /\ FilesMove(w)
  <2> USE <1>RestoreFindKeeps
  <2>1. /\ call[w].kind = "quarantine_restore" /\ call[w].pc = "file_open" /\ UNCHANGED fileVars
        /\ \/ FilesEnd(w)
           \/ FilesGo(w, "chmod", {"entry"}) /\ \E m \in meta : call'[w].entry = m.name
    <3>1. call[w].kind = "quarantine_restore" /\ call[w].pc = "file_open" /\ UNCHANGED fileVars
      BY DEF RestoreFind, At, InCall
    <3>2. call[w].kind \in FileKinds /\ "chmod" \in FilePcs(call[w].kind)
      BY <3>1 DEF FileKinds, FilePcs
    <3>3. \/ Return(w, FALSE, call[w], 0)
          \/ \E m \in meta : Step(w, "chmod", [call[w] EXCEPT !.entry = m.name])
      BY DEF RestoreFind, Listed
    <3>4. ASSUME NEW m \in meta, Step(w, "chmod", [call[w] EXCEPT !.entry = m.name])
          PROVE  FilesGo(w, "chmod", {"entry"}) /\ call'[w].entry = m.name
      <4> DEFINE f == [call[w] EXCEPT !.entry = m.name]
      <4>1. SameBut(call[w], f, {"entry"}) /\ f.entry = m.name
        BY <3>2, <1>FileCallShapes, <1>FileField
      <4>2. Step(w, "chmod", f)
        BY SMT, <3>4
      <4> HIDE DEF f
      <4>3. FilesGo(w, "chmod", {"entry"}) /\ SameBut(f, call'[w], {"pc"})
        BY <3>2, <4>1, <4>2, <1>FilesGoShape
      <4>4. QED
        BY <4>1, <4>3 DEF SameBut, Fields
    <3>5. QED
      BY <3>1, <3>2, <3>3, <3>4, <1>FileCallShapes
  <2>2. CASE FilesEnd(w)
    BY <2>1, <2>2, <1>FileEnds
  <2>3. CASE FilesGo(w, "chmod", {"entry"}) /\ \E m \in meta : call'[w].entry = m.name
    <3>1. PlacesInv' /\ QuarantineStays
      BY <2>1, PlacesStay, QuarantineUnchanged DEF FileInv, PlacesInv, fileVars
    <3>2. FileCallsInv' /\ call'[w].kind = "quarantine_restore"
      BY <2>1, <2>3, <1>FileCallsGo DEF FileInv
    <3>3. {"entry"} \in SUBSET {"entry", "fd"} /\ dir' \subseteq dir /\ meta' \subseteq meta
      BY <2>1 DEF fileVars
    <3>4. NamesInv'
      BY <2>1, <2>3, <3>3, <1>NamesGo DEF FileInv
    <3>5. FilesMove(w) /\ call'[w].pc = "chmod"
      BY <2>3 DEF FilesGo
    <3>6. CallSealed(call'[w], dir', inode') /\ \A n : ~ Keeps(call[w], n)
      BY <2>1, <3>2, <3>5 DEF CallSealed, Keeps
    <3>7. QED
      BY <3>1, <3>2, <3>4, <3>5, <3>6, <1>SealMoved DEF FileInv
  <2>4. QED
    BY <2>1, <2>2, <2>3
<1>RestoreChmodKeeps.
      ASSUME FileInv, CallsOK, NEW w \in Workers, RestoreChmod(w)
      PROVE  FileInv' /\ FilesMove(w)
  <2> USE <1>RestoreChmodKeeps
  <2>1. /\ call[w].kind = "quarantine_restore" /\ call[w].pc = "chmod"
        /\ UNCHANGED <<at, dir, meta, stranded, unlinked>>
        /\ \/ FilesEnd(w) /\ UNCHANGED inode
           \/ /\ FilesGo(w, "rename", {})
              /\ InDir(call[w].entry)
              /\ inode' = [inode EXCEPT ![Entry(call[w].entry).inode].mode = "restored"]
    <3>1. call[w].kind = "quarantine_restore" /\ call[w].pc = "chmod"
      BY DEF RestoreChmod, At, InCall
    <3>2. call[w].kind \in FileKinds /\ "rename" \in FilePcs(call[w].kind)
      BY <3>1 DEF FileKinds, FilePcs
    <3>3. Step(w, "rename", call[w]) => FilesGo(w, "rename", {})
      BY <3>2, <1>FileCallShapes
    <3>4. Return(w, FALSE, call[w], 0) => FilesEnd(w)
      BY <3>2, <1>FileCallShapes
    <3>5. QED
      BY <3>1, <3>3, <3>4 DEF RestoreChmod
  <2>2. CASE FilesEnd(w) /\ UNCHANGED inode
    BY <2>1, <2>2, <1>FileEnds DEF fileVars
  <2>3. CASE /\ FilesGo(w, "rename", {})
             /\ InDir(call[w].entry)
             /\ inode' = [inode EXCEPT ![Entry(call[w].entry).inode].mode = "restored"]
    <3>1. PlacesInv' /\ QuarantineStays
      BY <2>1, <2>3, <1>EntryMode DEF FileInv
    <3>2. FileCallsInv' /\ call'[w].kind = "quarantine_restore"
      BY <2>1, <2>3, <1>FileCallsStep DEF FileInv
    <3>3. {} \in SUBSET {"entry", "fd"} /\ dir' \subseteq dir /\ meta' \subseteq meta
      BY <2>1
    <3>4. NamesInv'
      BY <2>1, <2>3, <3>3, <1>NamesGo DEF FileInv
    <3>5. FilesMove(w) /\ call'[w].pc = "rename"
      BY <2>3 DEF FilesGo
    <3>6. CallSealed(call'[w], dir', inode') /\ \A n : ~ Keeps(call[w], n)
      BY <2>1, <3>2, <3>5 DEF CallSealed, Keeps
    <3>7. QED
      BY <3>1, <3>2, <3>4, <3>5, <3>6, <1>SealMoved DEF FileInv
  <2>4. QED
    BY <2>1, <2>2, <2>3
<1>RestoreRenameKeeps.
      ASSUME FileInv, CallsOK, NEW w \in Workers, RestoreRename(w)
      PROVE  FileInv' /\ FilesMove(w)
  <2> USE <1>RestoreRenameKeeps
  <2>1. /\ call[w].kind = "quarantine_restore" /\ call[w].pc = "rename"
        /\ UNCHANGED <<inode, meta, stranded>>
        /\ \/ FilesEnd(w) /\ UNCHANGED <<at, dir, unlinked>>
           \/ /\ FilesGo(w, "unlink", {})
              /\ InDir(call[w].entry)
              /\ at' = [at EXCEPT ![call[w].file] = Entry(call[w].entry).inode]
              /\ unlinked' = unlinked \cup ({at[call[w].file]} \ {0})
              /\ dir' = dir \ {Entry(call[w].entry)}
    <3>1. call[w].kind = "quarantine_restore" /\ call[w].pc = "rename"
      BY DEF RestoreRename, At, InCall
    <3>2. call[w].kind \in FileKinds /\ "unlink" \in FilePcs(call[w].kind)
      BY <3>1 DEF FileKinds, FilePcs
    <3>3. Step(w, "unlink", call[w]) => FilesGo(w, "unlink", {})
      BY <3>2, <1>FileCallShapes
    <3>4. Return(w, FALSE, call[w], 0) => FilesEnd(w)
      BY <3>2, <1>FileCallShapes
    <3>5. QED
      BY <3>1, <3>3, <3>4 DEF RestoreRename
  <2>2. CASE FilesEnd(w) /\ UNCHANGED <<at, dir, unlinked>>
    BY <2>1, <2>2, <1>FileEnds DEF fileVars
  <2>3. CASE /\ FilesGo(w, "unlink", {})
             /\ InDir(call[w].entry)
             /\ at' = [at EXCEPT ![call[w].file] = Entry(call[w].entry).inode]
             /\ unlinked' = unlinked \cup ({at[call[w].file]} \ {0})
             /\ dir' = dir \ {Entry(call[w].entry)}
    <3>1. PICK x \in dir : x = Entry(call[w].entry) /\ x.name = call[w].entry
      BY <2>3, <1>EntryShape
    <3>2. PICK f \in Files : f = call[w].file
      BY <2>1 DEF FileInv, FileCallsInv, FileKinds
    <3>3. /\ at' = [at EXCEPT ![f] = x.inode] /\ dir' = dir \ {x}
          /\ unlinked' = unlinked \cup ({at[f]} \ {0})
      BY <2>3, <3>1, <3>2
    <3>4. PlacesInv'
      BY <2>1, <3>3, <1>RestorePlaces DEF FileInv
    <3>5. /\ FileCallsInv' /\ call'[w].kind = "quarantine_restore"
          /\ call'[w].entry = call[w].entry
      BY <2>1, <2>3, <1>FileCallsStep DEF FileInv
    <3>6. {} \in SUBSET {"entry", "fd"} /\ dir' \subseteq dir /\ meta' \subseteq meta
      BY <2>1, <3>3
    <3>7. FilesGo(w, "unlink", {}) /\ FilesMove(w) /\ call'[w].pc = "unlink"
      BY <2>3 DEF FilesGo
    <3>8. NamesInv'
      BY <2>1, <3>6, <3>7, <1>NamesGo DEF FileInv
    <3>9. QuarantineStays
      BY <2>1, <3>6, QuarantineUnchanged DEF FileInv
    <3>10. \A e \in dir' : e.name # call[w].entry
      <4>1. \A d, e \in dir : d.name = e.name => d = e
        BY DEF FileInv, PlacesInv
      <4>2. QED
        BY <3>1, <3>3, <4>1
    <3>11. CallSealed(call'[w], dir', inode') /\ \A n : ~ Keeps(call[w], n)
      BY <2>1, <3>5, <3>7, <3>10 DEF CallSealed, Keeps
    <3>12. QED
      BY <3>4, <3>5, <3>7, <3>8, <3>9, <3>11, <1>SealMoved DEF FileInv
  <2>4. QED
    BY <2>1, <2>2, <2>3
<1>RestoreUnlinkKeeps.
      ASSUME FileInv, CallsOK, NEW w \in Workers, RestoreUnlink(w)
      PROVE  FileInv' /\ FilesMove(w)
  <2> USE <1>RestoreUnlinkKeeps
  <2>1. /\ call[w].kind = "quarantine_restore" /\ call[w].pc = "unlink"
        /\ FilesEnd(w)
        /\ UNCHANGED <<at, inode, dir, stranded, unlinked>>
        /\ meta' = {m \in meta : m.name # call[w].entry} \/ UNCHANGED meta
    <3>1. call[w].kind = "quarantine_restore" /\ call[w].pc = "unlink"
      BY <1>AtFile DEF RestoreUnlink, At
    <3>2. call[w].kind \in FileKinds
      BY <3>1 DEF FileKinds
    <3>3. Return(w, TRUE, call[w], 0) => FilesEnd(w)
      BY <3>2, <1>FileCallShapes
    <3>4. QED
      BY <3>1, <3>3 DEF RestoreUnlink
  <2>2. PlacesInv'
    BY <2>1, PlacesStay DEF FileInv, PlacesInv
  <2>3. dir' \subseteq dir /\ meta' \subseteq meta
    BY <2>1
  <2>4. FileCallsInv' /\ NamesInv'
    BY <2>1, <2>3, <1>FileCallsEnd, <1>NamesEnd DEF FileInv
  <2>5. QuarantineStays
    <3>1. CallSealed(call[w], dir, inode)
      BY DEF FileInv, SealInv
    <3>2. \A e \in dir : e.name # call[w].entry
      BY <2>1, <3>1 DEF CallSealed
    <3>3. \A e \in dir : HasMeta(meta, e.name) => HasMeta(meta', e.name)
      BY <2>1, <3>2 DEF HasMeta
    <3>4. QED
      BY <2>1, <3>3 DEF QuarantineStays
  <2>6. FilesMove(w) /\ call'[w] = Idle
    BY <2>1 DEF FilesEnd
  <2>7. CallSealed(call'[w], dir', inode') /\ \A n : ~ Keeps(call[w], n)
    BY <2>1, <2>6, IdleKeeps DEF Keeps
  <2>8. QED
    BY <2>2, <2>4, <2>5, <2>6, <2>7, <1>SealMoved DEF FileInv
<1>FixOpenKeeps.
      ASSUME FileInv, CallsOK, NEW w \in Workers, FixOpen(w)
      PROVE  FileInv' /\ FilesMove(w)
  <2> USE <1>FixOpenKeeps
  <2>1. /\ call[w].kind = "fix_permissions" /\ call[w].pc = "file_open" /\ UNCHANGED fileVars
        /\ \/ FilesEnd(w)
           \/ /\ FilesGo(w, "chmod", {"fd"})
              /\ call'[w].fd = at[call[w].file] /\ at[call[w].file] # 0
    <3>1. call[w].kind = "fix_permissions" /\ call[w].pc = "file_open" /\ UNCHANGED fileVars
      BY DEF FixOpen, At, InCall
    <3>2. call[w].kind \in FileKinds /\ "chmod" \in FilePcs(call[w].kind)
      BY <3>1 DEF FileKinds, FilePcs
    <3> DEFINE i == at[call[w].file]
               f == [call[w] EXCEPT !.fd = i]
    <3>3. (Step(w, "chmod", f) /\ i # 0) \/ Return(w, FALSE, call[w], 0)
      BY DEF FixOpen
    <3>4. SameBut(call[w], f, {"fd"}) /\ f.fd = i
      BY <3>2, <1>FileCallShapes, <1>FileField
    <3> HIDE DEF f, i
    <3>5. ASSUME Step(w, "chmod", f)
          PROVE  FilesGo(w, "chmod", {"fd"}) /\ call'[w].fd = i
      <4>1. FilesGo(w, "chmod", {"fd"}) /\ SameBut(f, call'[w], {"pc"})
        BY <3>2, <3>4, <3>5, <1>FilesGoShape
      <4>2. QED
        BY <3>4, <4>1 DEF SameBut, Fields
    <3>6. QED
      BY <3>1, <3>2, <3>3, <3>5, <1>FileCallShapes DEF i
  <2>2. CASE FilesEnd(w)
    BY <2>1, <2>2, <1>FileEnds
  <2>3. CASE /\ FilesGo(w, "chmod", {"fd"})
             /\ call'[w].fd = at[call[w].file] /\ at[call[w].file] # 0
    <3>1. PlacesInv' /\ QuarantineStays
      BY <2>1, PlacesStay, QuarantineUnchanged DEF FileInv, PlacesInv, fileVars
    <3>2. FileCallsInv' /\ call'[w].kind = "fix_permissions"
      BY <2>1, <2>3, <1>FileCallsGo DEF FileInv
    <3>3. {"fd"} \in SUBSET {"entry", "fd"} /\ dir' \subseteq dir /\ meta' \subseteq meta
      BY <2>1 DEF fileVars
    <3>4. NamesInv'
      BY <2>1, <2>3, <3>3, <1>NamesGo DEF FileInv
    <3>5. FilesMove(w) /\ call'[w].pc = "chmod"
      BY <2>3 DEF FilesGo
    <3>6. PICK f \in Files : f = call[w].file
      BY <2>1 DEF FileInv, FileCallsInv, FileKinds
    <3>7. /\ at[f] \in Nat \ {0} /\ at[f] <= Len(inode)
          /\ \A e \in dir : e.inode # at[f]
      BY <2>3, <3>6 DEF FileInv, PlacesInv
    <3>8. /\ call'[w].fd \in Nat \ {0} /\ call'[w].fd <= Len(inode')
          /\ \A e \in dir' : e.inode # call'[w].fd
      BY <2>1, <2>3, <3>6, <3>7 DEF fileVars
    <3>9. CallSealed(call'[w], dir', inode') /\ \A n : ~ Keeps(call[w], n)
      BY <2>1, <3>2, <3>8 DEF CallSealed, Keeps
    <3>10. QED
      BY <3>1, <3>2, <3>4, <3>5, <3>9, <1>SealMoved DEF FileInv
  <2>4. QED
    BY <2>1, <2>2, <2>3
<1>FixChmodKeeps.
      ASSUME FileInv, CallsOK, NEW w \in Workers, FixChmod(w)
      PROVE  FileInv' /\ FilesMove(w)
  <2> USE <1>FixChmodKeeps
  <2>1. /\ call[w].kind = "fix_permissions" /\ call[w].pc = "chmod"
        /\ UNCHANGED <<at, dir, meta, stranded, unlinked>>
        /\ FilesEnd(w)
        /\ inode' = [inode EXCEPT ![call[w].fd].mode = "0600"] \/ UNCHANGED inode
    <3>1. call[w].kind = "fix_permissions" /\ call[w].pc = "chmod"
      BY DEF FixChmod, At, InCall
    <3>2. call[w].kind \in FileKinds
      BY <3>1 DEF FileKinds
    <3>3. \A ok \in BOOLEAN : Return(w, ok, call[w], 0) => FilesEnd(w)
      BY <3>2, <1>FileCallShapes
    <3>4. QED
      BY <3>1, <3>3 DEF FixChmod
  <2>2. CASE UNCHANGED inode
    BY <2>1, <2>2, <1>FileEnds DEF fileVars
  <2>3. CASE inode' = [inode EXCEPT ![call[w].fd].mode = "0600"]
    <3>1. CallSealed(call[w], dir, inode)
      BY DEF FileInv, SealInv
    <3>2. PICK i \in Nat \ {0} : /\ i = call[w].fd /\ i <= Len(inode)
                                /\ \A e \in dir : e.inode # i
      BY <2>1, <3>1 DEF CallSealed
    <3>3. inode \in Seq(Inodes) /\ Chmod(i, "0600")
      BY <2>3, <3>2 DEF FileInv, PlacesInv, Chmod
    <3>4. ModeSet(i, "0600")
      BY <3>2, <3>3, <1>ModeShape
    <3>5. /\ inode' \in Seq(Inodes) /\ Len(inode') = Len(inode)
          /\ \A j \in 1 .. Len(inode) : j # i => inode'[j].mode = inode[j].mode
      BY <3>4 DEF ModeSet
    <3>6. PlacesInv'
      BY <2>1, <3>5, PlacesStay DEF FileInv
    <3>7. \A e \in dir : e.inode \in 1 .. Len(inode)
      <4>1. \A k \in Nat \ {0} : k <= Len(inode) => k \in 1 .. Len(inode)
        BY <3>3, SequenceLength, Numbers
      <4>2. QED
        BY <4>1 DEF FileInv, PlacesInv
    <3>8. \A e \in dir : inode'[e.inode].mode = inode[e.inode].mode
      BY <3>2, <3>5, <3>7
    <3>10. QuarantineStays
      BY <2>1, <3>5, <3>8 DEF QuarantineStays, Sealed
    <3>11. FileCallsInv' /\ NamesInv'
      BY <2>1, <1>FileCallsEnd, <1>NamesEnd DEF FileInv
    <3>12. FilesMove(w) /\ call'[w] = Idle
      BY <2>1 DEF FilesEnd
    <3>13. CallSealed(call'[w], dir', inode') /\ \A n : ~ Keeps(call[w], n)
      BY <2>1, <3>12, IdleKeeps DEF Keeps
    <3>14. QED
      BY <3>6, <3>10, <3>11, <3>12, <3>13, <1>SealMoved DEF FileInv
  <2>4. QED
    BY <2>1, <2>2, <2>3
\* A call on files begins. Only the polling goroutine asks for a Quarantine.
<1>FileBeginKeeps.
      ASSUME FileInv, CallsOK, NEW w \in Workers, NEW kind \in FileKinds, NEW f \in Files,
             FileCall(w, kind, f), kind # "quarantine_restore" => w = Poll
      PROVE  FileInv' /\ FilesMove(w)
  <2> USE <1>FileBeginKeeps
  <2>1. FileCalled(w, kind, f) /\ UNCHANGED fileVars
    BY <1>FileCallShape
  <2>2. /\ FilesMove(w) /\ call[w].kind = "none"
        /\ call'[w].kind = kind /\ call'[w].pc = "file_open" /\ call'[w].file = f
        /\ \A v \in Workers \ {w} : call'[v] = call[v]
    BY <2>1 DEF FileCalled, FilesMove, Moved
  <2>3. PlacesInv' /\ QuarantineStays
    BY <2>1, PlacesStay, QuarantineUnchanged DEF FileInv, PlacesInv, fileVars
  <2>4. FileCallsInv'
    BY <2>2 DEF FileInv, FileCallsInv
  <2>5. NamesInv'
    BY <2>1, <1>NamesBegin DEF FileInv
  <2>6. CallSealed(call'[w], dir', inode') /\ \A n : ~ Keeps(call[w], n)
    BY <2>2 DEF CallSealed, Keeps
  <2>7. QED
    BY <2>2, <2>3, <2>4, <2>5, <2>6, <1>SealMoved DEF FileInv
<1>FileWriteKeeps.
      ASSUME FileInv, NEW f \in Files, NEW link \in BOOLEAN, UserWrites(f, link)
      PROVE  FileInv' /\ outcome' = Silent /\ UNCHANGED <<host, call>>
  <2> USE <1>FileWriteKeeps
  <2>1. outcome' = Silent /\ UNCHANGED <<host, call, calls, dir, meta, stranded>>
    BY DEF UserWrites
  <2>2. /\ PlacesInv'
        /\ \A i \in Nat : i <= Len(inode) => i <= Len(inode')
        /\ \A e \in dir : inode'[e.inode] = inode[e.inode]
    BY <1>WritesPlaces DEF FileInv
  <2>3. QuarantineStays
    BY <2>1, <2>2 DEF QuarantineStays, Sealed
  <2>4. Frame(FileKinds) /\ CountsStay
    BY <2>1 DEF Frame, CountsStay, FileInv, NamesInv
  <2>5. QED
    BY <2>1, <2>2, <2>3, <2>4, FileStays
<1>1. ASSUME NEW w \in Workers, NEW f \in Files,
             NEW kind \in {"quarantine", "fix_permissions"}, ApplyToFile(w, kind, f)
      PROVE  FileInv' /\ FilesMove(w)
  <2>1. w = Poll /\ FileCall(w, kind, f) /\ kind \in FileKinds
    BY <1>1 DEF ApplyToFile, FileKinds
  <2>2. QED
    BY <2>1, <1>FileBeginKeeps
<1>2. ASSUME NEW w \in Workers, NEW f \in Files, RestoreFileHandler(w, f)
      PROVE  FileInv' /\ FilesMove(w)
  <2>1. FileCall(w, "quarantine_restore", f) /\ "quarantine_restore" \in FileKinds
    BY <1>2 DEF RestoreFileHandler, FileKinds
  <2>2. QED
    BY <2>1, <1>FileBeginKeeps
<1>3. ASSUME NEW w \in Workers, FileSteps(w) PROVE FileInv' /\ FilesMove(w)
  BY <1>3, <1>FileOpenKeeps, <1>FileRenameKeeps, <1>FileSealKeeps, <1>FileMetaKeeps, <1>RestoreFindKeeps,
     <1>RestoreChmodKeeps, <1>RestoreRenameKeeps, <1>RestoreUnlinkKeeps, <1>FixOpenKeeps, <1>FixChmodKeeps
     DEF FileSteps
<1>4. \/ \E f \in Files, link \in BOOLEAN : UserWrites(f, link)
      \/ \E w \in Workers, f \in Files, kind \in {"quarantine", "fix_permissions"} :
           ApplyToFile(w, kind, f)
      \/ \E w \in Workers, f \in Files : RestoreFileHandler(w, f)
      \/ \E w \in Workers : FileSteps(w)
  BY DEF FileNext, FileSteps
<1>5. QED
  BY <1>1, <1>2, <1>3, <1>4, <1>FileWriteKeeps

LEMMA FileRestarts ==
  ASSUME FileInv, Restart
  PROVE  FileInv'
  <1>1. /\ \A v \in Workers : call'[v] = Idle /\ call'[v].kind = "none"
        /\ UNCHANGED <<calls, at, inode, dir, meta, unlinked>>
    BY IdleShape DEF Restart
  <1>2. /\ stranded \subseteq stranded'
        /\ \A v \in Workers : call[v].kind = "quarantine" => call[v].entry \in stranded'
    BY DEF Restart, InCall
  <1>3. PlacesInv' /\ QuarantineStays
    BY <1>1, <1>2, PlacesStay, QuarantineUnchanged DEF FileInv, PlacesInv
  <1>4. FileCallsInv'
    BY <1>1 DEF FileCallsInv, FileKinds
  <1>5. NamesInv'
    <2>1. NoNames /\ CountsStay
      BY <1>1 DEF NoNames, CountsStay, FileInv, NamesInv
    <2>2. QED
      BY <1>1, <2>1, NamesStay DEF FileInv, CountsStay
  <1>6. \A v \in Workers : /\ CallSealed(call'[v], dir', inode')
                           /\ \A n : Keeps(call[v], n) => n \in stranded'
    BY <1>1, <1>2, IdleKeeps DEF Keeps
  <1>7. QED
    BY <1>3, <1>4, <1>5, <1>6, SealStays DEF FileInv

LEMMA FileBegins ==
  ASSUME CallsInit, FileInit
  PROVE  FileInv
  <1> DEFINE x == [link |-> FALSE, mode |-> "user"]
  <1>1. inode \in Seq(Inodes) /\ Len(inode) = 1
    BY InodeShape DEF FileInit
  <1>2. PICK f \in Files : at = [g \in Files |-> IF g = f THEN 1 ELSE 0]
    BY DEF FileInit
  <1>3. dir = {} /\ meta = {}
    BY DEF FileInit
  <1>4. \A w \in Workers : call[w] = Idle /\ call[w].kind = "none"
    BY IdleShape DEF CallsInit
  <1>5. 0 \in Nat /\ 1 \in Nat /\ 0 <= 1 /\ 1 <= 1 /\ 0 # 1 /\ \A i \in 1 .. 1 : i = 1
    BY SMT
  <1>6. DOMAIN at = Files /\ at[f] = 1 /\ \A g \in Files \ {f} : at[g] = 0
    BY <1>2
  <1>7. \A g, h \in Files : at[g] = at[h] /\ at[g] # 0 => g = h
    BY <1>5, <1>6
  <1>8. \A g \in Files : at[g] \in Nat /\ at[g] <= Len(inode)
    BY <1>1, <1>5, <1>6
  <1>9. PlacesInv
    BY <1>1, <1>3, <1>5, <1>6, <1>7, <1>8 DEF PlacesInv
  <1>10. FileCallsInv
    BY <1>4 DEF FileCallsInv, FileKinds
  <1>11. NamesInv
    <2>1. DOMAIN calls = Components /\ calls["files"] \in Nat
      BY <1>5 DEF CallsInit, Components
    <2>2. QED
      BY <1>3, <1>4, <2>1 DEF NamesInv, UsedBelow
  <1>12. SealInv
    BY <1>3, <1>4, IdleKeeps DEF SealInv
  <1>13. QED
    BY <1>9, <1>10, <1>11, <1>12 DEF FileInv

----------------------------------------------------------------------------
\* The steps of a call on processes.

\* What Attempted does to the call of w and reports.
Tried(w, ok, hit) ==
  LET c == call[w]
      d == call'[w]
      o == outcome'.call
  IN /\ Moved(w, ProcKinds)
     /\ outcome'.hit = hit
     /\ SameBut(c, o, {"pc", "fd", "todo", "killed", "failed"})
     /\ o.failed = (c.failed \/ ~ ok)
     /\ \/ /\ Len(c.todo) > 1 /\ ~ outcome'.done
           /\ SameBut(c, d, {"pc", "fd", "todo", "killed", "failed", "checked"})
           /\ d.pc = "check" /\ d.todo = Tail(c.todo) /\ d.checked = 0 /\ d.fd = 0
           /\ d.failed = (c.failed \/ ~ ok)
        \/ ~ (Len(c.todo) > 1) /\ d = Idle

LEMMA AttemptedShape ==
  ASSUME CallsOK, NEW w \in Workers, NEW ok, NEW hit, call[w].kind \in ProcKinds,
         Attempted(w, ok, hit)
  PROVE  Tried(w, ok, hit)
  <1> DEFINE c == call[w]
             e == [c EXCEPT !.killed = @ \/ ok, !.failed = @ \/ ~ ok]
             f == [e EXCEPT !.todo = Tail(@), !.pc = "check", !.checked = 0, !.fd = 0]
  <1>1. IsCall(c) /\ DOMAIN call = Workers /\ KindOK(c)
    BY DEF CallsOK, CallOK
  <1>2. SameBut(c, e, {"killed", "failed"}) /\ e.failed = (c.failed \/ ~ ok)
    BY <1>1 DEF IsCall, SameBut, Fields
  <1>3. e.todo = c.todo /\ e.kind = c.kind /\ IsCall(e)
    BY <1>2 DEF SameBut, Fields
  <1>4. /\ SameBut(e, f, {"todo", "pc", "checked", "fd"})
        /\ f.todo = Tail(e.todo) /\ f.pc = "check" /\ f.checked = 0 /\ f.fd = 0
    BY <1>3 DEF IsCall, SameBut, Fields
  <1>5. IF Len(e.todo) > 1
        THEN /\ call' = [call EXCEPT ![w] = f]
             /\ outcome' = Did(hit, FALSE, ok, e)
             /\ UNCHANGED <<host, calls>>
        ELSE Return(w, e.killed, e, hit)
    BY DEF Attempted
  <1> HIDE DEF e, f
  <1>6. SameBut(c, f, {"pc", "fd", "todo", "killed", "failed", "checked"})
        /\ f.failed = (c.failed \/ ~ ok)
    BY <1>2, <1>4 DEF SameBut, Fields
  <1>7. ASSUME NEW done, NEW k, outcome' = Did(hit, done, k, e)
        PROVE  /\ outcome'.hit = hit /\ outcome'.done = done
               /\ SameBut(c, outcome'.call, {"pc", "fd", "todo", "killed", "failed"})
               /\ outcome'.call.failed = (c.failed \/ ~ ok)
               /\ outcome'.call.kind = c.kind
    <2>1. /\ outcome'.hit = hit /\ outcome'.done = done
          /\ SameBut(e, outcome'.call, {"pc", "fd", "todo"})
      <3>1. /\ Reports(Did(hit, done, k, e), hit, done, k)
            /\ SameBut(e, Did(hit, done, k, e).call, {"pc", "fd", "todo"})
        BY <1>3, DidShape
      <3>2. QED
        BY <1>7, <3>1 DEF Reports
    <2>2. QED
      BY <2>1, <1>2, <1>3 DEF SameBut, Fields
  <1>8. CASE Len(e.todo) > 1
    <2>1. call' = [call EXCEPT ![w] = f] /\ outcome' = Did(hit, FALSE, ok, e) /\ UNCHANGED host
      BY <1>5, <1>8
    <2>2. call'[w] = f /\ DOMAIN call' = Workers /\ \A v \in Workers \ {w} : call'[v] = call[v]
      BY <2>1, <1>1
    <2>3. f.kind = c.kind
      BY <1>6 DEF SameBut, Fields
    <2>4. CallOK(f)
      BY <1>6, <2>3, <1>4 DEF CallOK, SameBut, KindOK, ProcPcs
    <2>5. Moved(w, ProcKinds)
      BY <2>1, <2>2, <2>3, <2>4, <1>7 DEF Moved
    <2>6. QED
      BY <2>1, <2>2, <2>5, <1>3, <1>4, <1>6, <1>7, <1>8 DEF Tried
  <1>9. CASE ~ (Len(e.todo) > 1)
    <2>1. Return(w, e.killed, e, hit)
      BY <1>5, <1>9
    <2>2. Moved(w, ProcKinds)
      BY <2>1, <1>3, ReturnMoves
    <2>3. call'[w] = Idle /\ outcome' = Did(hit, TRUE, e.killed, e)
      BY <2>1, <1>1, ReturnShape
    <2>4. QED
      BY <2>2, <2>3, <1>3, <1>7, <1>9 DEF Tried
  <1>10. QED
    BY <1>8, <1>9

\* Worker w is in a call on processes and stays in it, at pc, without a report.
Goes(w, pc, S) ==
  /\ Moved(w, ProcKinds)
  /\ SameBut(call[w], call'[w], S \cup {"pc"})
  /\ call'[w].pc = pc
  /\ outcome' = Silent

LEMMA GoesShape ==
  ASSUME CallsOK, NEW w \in Workers, NEW f, NEW pc, NEW S, call[w].kind \in ProcKinds,
         SameBut(call[w], f, S), "kind" \notin S, pc \in ProcPcs, Step(w, pc, f)
  PROVE  /\ Goes(w, pc, S)
         /\ SameBut(f, call'[w], {"pc"})
  <1>1. DOMAIN call = Workers /\ IsCall(f)
    BY DEF CallsOK, SameBut
  <1>2. /\ call'[w].pc = pc
        /\ SameBut(f, call'[w], {"pc"})
        /\ outcome' = Silent
    <2>1. Stepped(w, pc, f)
      BY <1>1, StepShape
    <2>2. QED
      BY <2>1 DEF Stepped
  <1>3. f.kind = call[w].kind
    BY DEF SameBut, Fields
  <1>4. [f EXCEPT !.pc = pc].kind = f.kind /\ [f EXCEPT !.pc = pc].pc = pc
    BY <1>1 DEF IsCall, Fields
  <1>5. KindOK([f EXCEPT !.pc = pc])
    BY <1>3, <1>4 DEF KindOK
  <1>6. Moved(w, ProcKinds)
    BY <1>1, <1>3, <1>5, StepMoves
  <1>7. SameBut(call[w], call'[w], S \cup {"pc"})
    <2>1. SUFFICES ASSUME NEW x \in Fields \ (S \cup {"pc"})
                   PROVE  call'[w][x] = call[w][x]
      BY <1>2 DEF SameBut
    <2>2. x \in Fields \ {"pc"} /\ x \in Fields \ S
      OBVIOUS
    <2>3. f[x] = call[w][x] /\ call'[w][x] = f[x]
      BY <1>2, <2>2 DEF SameBut
    <2>4. QED
      BY <2>3
  <1>8. QED
    BY <1>2, <1>6, <1>7 DEF Goes

\* A worker at a pc of the process calls is in one.
LEMMA AtProcess ==
  ASSUME CallsOK, NEW w \in Workers, NEW pc \in ProcPcs, At(w, pc)
  PROVE  /\ call[w].kind \in ProcKinds
         /\ IsCall(call[w])
         /\ SameBut(call[w], call[w], {})
  <1>1. IsCall(call[w]) /\ KindOK(call[w])
    BY DEF CallsOK, CallOK
  <1>2. call[w].pc \in ProcPcs
    BY DEF At
  <1>3. call[w].kind \in ProcKinds
    BY <1>1, <1>2 DEF KindOK, ProcPcs
  <1>4. QED
    BY <1>1, <1>3 DEF SameBut

\* A new call about p, with what its caller knows of the process.
Called(w, kind, p, ids) ==
  LET d == call'[w]
  IN /\ Moved(w, ProcKinds)
     /\ call[w].kind = "none"
     /\ outcome' = Silent
     /\ d.kind = kind /\ d.pid = p /\ d.target = proc[p].inst /\ d.todo = <<p>>
     /\ d.checked = 0 /\ d.fd = 0 /\ d.failed = FALSE
     /\ d.pc = IF kind = "kill_tree" THEN "scan" ELSE "check"
     /\ \E id \in ids : d.ticks = id[2]

LEMMA SignalShape ==
  ASSUME CallsOK, NEW w \in Workers, NEW kind \in ProcKinds, NEW p, NEW ids,
         SignalCall(w, kind, p, ids)
  PROVE  Called(w, kind, p, ids)
  <1>1. PICK id \in ids :
          Begin(w, "process",
             [Idle EXCEPT !.kind = kind, !.pc = IF kind = "kill_tree" THEN "scan" ELSE "check",
                          !.pid = p, !.path = id[1], !.ticks = id[2],
                          !.target = proc[p].inst, !.todo = <<p>>])
    BY DEF SignalCall
  <1> DEFINE d == [Idle EXCEPT !.kind = kind, !.pc = IF kind = "kill_tree" THEN "scan" ELSE "check",
                          !.pid = p, !.path = id[1], !.ticks = id[2],
                          !.target = proc[p].inst, !.todo = <<p>>]
  <1>2. /\ IsCall(d)
        /\ d.kind = kind /\ d.pid = p /\ d.target = proc[p].inst /\ d.todo = <<p>>
        /\ d.pc = IF kind = "kill_tree" THEN "scan" ELSE "check"
        /\ d.ticks = id[2]
        /\ d.checked = Idle.checked /\ d.fd = Idle.fd /\ d.failed = Idle.failed
    BY IdleShape DEF IsCall, Fields
  <1> HIDE DEF d
  <1>3. Begin(w, "process", d)
    BY <1>1 DEF d
  <1>4. CallOK(d)
    BY <1>2 DEF CallOK, KindOK, ProcPcs
  <1>5. Moved(w, ProcKinds) /\ call[w].kind = "none"
    BY <1>2, <1>3, <1>4, BeginMoves
  <1>6. call'[w] = d /\ outcome' = Silent
    BY <1>3, BeginShape DEF CallsOK
  <1>7. QED
    BY <1>2, <1>5, <1>6, IdleShape DEF Called

LEMMA ScanShape ==
  ASSUME CallsOK, NEW w \in Workers, Scan(w)
  PROVE  /\ call[w].kind \in ProcKinds /\ call[w].pc = "scan"
         /\ Goes(w, "check", {"todo", "scanned"})
         /\ call'[w].todo \in KillOrders(call[w].pid)
         /\ call'[w].scanned = {proc[q].inst : q \in {r \in Descendants(call[w].pid) : Present(r)}}
         /\ UNCHANGED processVars
  <1>1. PICK order \in KillOrders(call[w].pid) :
          Step(w, "check", [call[w] EXCEPT !.todo = order,
            !.scanned = {proc[q].inst : q \in {r \in Descendants(call[w].pid) : Present(r)}}])
    BY DEF Scan
  <1> DEFINE new == {proc[q].inst : q \in {r \in Descendants(call[w].pid) : Present(r)}}
             f == [call[w] EXCEPT !.todo = order, !.scanned = new]
  <1>2. call[w].kind \in ProcKinds /\ IsCall(call[w]) /\ call[w].pc = "scan"
    <2>1. At(w, "scan") /\ "scan" \in ProcPcs
      BY DEF Scan, ProcPcs
    <2>2. QED
      BY <2>1, AtProcess DEF At
  <1> HIDE DEF new
  <1>3. SameBut(call[w], f, {"todo", "scanned"}) /\ f.todo = order /\ f.scanned = new
    BY <1>2 DEF IsCall, SameBut, Fields
  <1> HIDE DEF f
  <1>4. Step(w, "check", f)
    BY <1>1 DEF f, new
  <1>5. Goes(w, "check", {"todo", "scanned"}) /\ SameBut(f, call'[w], {"pc"})
    <2>1. "kind" \notin {"todo", "scanned"} /\ "check" \in ProcPcs
      BY DEF ProcPcs
    <2>2. QED
      BY <2>1, <1>2, <1>3, <1>4, GoesShape
  <1>6. call'[w].todo = order /\ call'[w].scanned = new
    BY <1>3, <1>5 DEF SameBut, Fields
  <1>7. QED
    BY <1>2, <1>5, <1>6 DEF Scan, new

\* What Check asks of the identity it was given.
Asked(c) ==
  /\ c.kind # "process_resume"
  /\ Head(c.todo) = c.pid
  /\ c.kind = "kill" \/ c.path # None \/ c.ticks # 0

LEMMA CheckShape ==
  ASSUME CallsOK, NEW w \in Workers, Check(w)
  PROVE  /\ call[w].kind \in ProcKinds /\ call[w].pc = "check"
         /\ UNCHANGED processVars
         /\ \/ Tried(w, FALSE, 0)
            \/ /\ Goes(w, "open", {"checked"})
               /\ Asked(call[w]) => sameProcess(call[w])
               /\ call'[w].checked = IF Asked(call[w]) THEN proc[call[w].pid].inst ELSE 0
  <1> DEFINE c == call[w]
             x == IF Asked(c) THEN proc[c.pid].inst ELSE 0
             f == [c EXCEPT !.checked = x]
  <1>1. /\ At(w, "check") /\ UNCHANGED processVars
        /\ IF Asked(c) /\ ~ sameProcess(c) THEN Attempted(w, FALSE, 0) ELSE Step(w, "open", f)
    BY DEF Check, Asked
  <1>2. call[w].kind \in ProcKinds /\ IsCall(c) /\ c.pc = "check"
    <2>1. "check" \in ProcPcs
      BY DEF ProcPcs
    <2>2. QED
      BY <1>1, <2>1, AtProcess DEF At
  <1> HIDE DEF x
  <1>3. SameBut(c, f, {"checked"}) /\ f.checked = x
    BY <1>2 DEF IsCall, SameBut, Fields
  <1> HIDE DEF f
  <1>4. CASE Attempted(w, FALSE, 0)
    BY <1>1, <1>2, <1>4, AttemptedShape
  <1>5. CASE Step(w, "open", f) /\ (Asked(c) => sameProcess(c))
    <2>1. "kind" \notin {"checked"} /\ "open" \in ProcPcs
      BY DEF ProcPcs
    <2>2. Goes(w, "open", {"checked"}) /\ SameBut(f, call'[w], {"pc"})
      BY <2>1, <1>2, <1>3, <1>5, GoesShape
    <2>3. call'[w].checked = x
      BY <1>3, <2>2 DEF SameBut, Fields
    <2>4. QED
      BY <2>2, <2>3, <1>1, <1>2, <1>5 DEF x
  <1>6. QED
    BY <1>1, <1>4, <1>5

LEMMA OpenShape ==
  ASSUME CallsOK, NEW w \in Workers, PidfdOpen(w)
  PROVE  /\ call[w].kind \in ProcKinds /\ call[w].pc = "open"
         /\ UNCHANGED processVars
         /\ \/ Tried(w, FALSE, 0)
            \/ Goes(w, "fallback", {})
            \/ /\ \/ Goes(w, "double", {"fd"}) /\ call[w].kind \in KillKinds
                  \/ Goes(w, "send", {"fd"}) /\ call[w].kind \notin KillKinds
               /\ Present(Head(call[w].todo))
               /\ call'[w].fd = proc[Head(call[w].todo)].inst
  <1> DEFINE c == call[w]
             p == Head(c.todo)
             f == [c EXCEPT !.fd = proc[p].inst]
             pc == IF InCall(w, KillKinds) THEN "double" ELSE "send"
  <1>1. /\ At(w, "open") /\ UNCHANGED processVars
        /\ \/ Step(w, "fallback", c)
           \/ Present(p) /\ Step(w, pc, f)
           \/ Attempted(w, FALSE, 0)
    BY DEF PidfdOpen
  <1>2. call[w].kind \in ProcKinds /\ IsCall(c) /\ c.pc = "open" /\ SameBut(c, c, {})
    <2>1. "open" \in ProcPcs
      BY DEF ProcPcs
    <2>2. QED
      BY <1>1, <2>1, AtProcess DEF At
  <1> HIDE DEF p
  <1>3. SameBut(c, f, {"fd"}) /\ f.fd = proc[p].inst
    BY <1>2 DEF IsCall, SameBut, Fields
  <1> HIDE DEF f
  <1>4. CASE Attempted(w, FALSE, 0)
    BY <1>1, <1>2, <1>4, AttemptedShape
  <1>5. CASE Step(w, "fallback", c)
    <2>1. "kind" \notin {} /\ "fallback" \in ProcPcs
      BY DEF ProcPcs
    <2>2. Goes(w, "fallback", {})
      BY <2>1, <1>2, <1>5, GoesShape
    <2>3. QED
      BY <2>2, <1>1, <1>2
  <1>6. CASE Present(p) /\ Step(w, pc, f)
    <2>1. "kind" \notin {"fd"} /\ pc \in ProcPcs
      BY DEF ProcPcs
    <2>2. Goes(w, pc, {"fd"}) /\ SameBut(f, call'[w], {"pc"})
      <3> HIDE DEF pc
      <3> QED BY <2>1, <1>2, <1>3, <1>6, GoesShape
    <2>3. call'[w].fd = proc[p].inst
      BY <1>3, <2>2 DEF SameBut, Fields
    <2>4. QED
      BY <2>2, <2>3, <1>1, <1>2, <1>6 DEF p, InCall
  <1>7. QED
    BY <1>1, <1>4, <1>5, <1>6

LEMMA DoubleShape ==
  ASSUME CallsOK, NEW w \in Workers, DoubleCheck(w)
  PROVE  /\ call[w].kind \in ProcKinds /\ call[w].pc = "double"
         /\ UNCHANGED processVars
         /\ Tried(w, FALSE, 0) \/ Goes(w, "send", {})
  <1>1. At(w, "double") /\ UNCHANGED processVars
    BY DEF DoubleCheck
  <1>2. call[w].kind \in ProcKinds /\ call[w].pc = "double" /\ SameBut(call[w], call[w], {})
    <2>1. "double" \in ProcPcs
      BY DEF ProcPcs
    <2>2. QED
      BY <1>1, <2>1, AtProcess DEF At
  <1>3. CASE Attempted(w, FALSE, 0)
    BY <1>1, <1>2, <1>3, AttemptedShape
  <1>4. CASE Step(w, "send", call[w])
    <2>1. "kind" \notin {} /\ "send" \in ProcPcs
      BY DEF ProcPcs
    <2>2. Goes(w, "send", {})
      BY <2>1, <1>2, <1>4, GoesShape
    <2>3. QED
      BY <2>2, <1>1, <1>2
  <1>5. QED
    BY <1>3, <1>4 DEF DoubleCheck

HitOf(p) == IF Alive(p) THEN proc[p].inst ELSE 0

\* What Sent does to the call of w, and to p.
Signalled(w, p) ==
  LET c == call[w]
      d == call'[w]
  IN /\ Deliver(c.kind, p)
     /\ \/ c.kind \in KillKinds /\ Tried(w, TRUE, HitOf(p))
        \/ /\ c.kind \notin KillKinds
           /\ Moved(w, ProcKinds)
           /\ SameBut(c, d, {"pc", "fd"})
           /\ d.pc = "table" /\ d.fd = proc[p].inst
           /\ outcome'.hit = HitOf(p) /\ ~ outcome'.done
           /\ SameBut(c, outcome'.call, {"pc", "fd", "todo"})

LEMMA SentShape ==
  ASSUME CallsOK, NEW w \in Workers, NEW p, call[w].kind \in ProcKinds, Sent(w, p)
  PROVE  Signalled(w, p)
  <1> DEFINE c == call[w]
             d == [c EXCEPT !.fd = proc[p].inst, !.pc = "table"]
  <1>1. /\ Deliver(c.kind, p)
        /\ IF c.kind \in KillKinds THEN Attempted(w, TRUE, HitOf(p))
           ELSE /\ call' = [call EXCEPT ![w] = d]
                /\ outcome' = Did(HitOf(p), FALSE, TRUE, d)
                /\ UNCHANGED <<host, calls>>
    BY DEF Sent, HitOf, InCall
  <1>2. IsCall(c) /\ DOMAIN call = Workers
    BY DEF CallsOK, CallOK
  <1>3. SameBut(c, d, {"pc", "fd"}) /\ d.pc = "table" /\ d.fd = proc[p].inst
    BY <1>2 DEF IsCall, SameBut, Fields
  <1> HIDE DEF d
  <1>4. CASE c.kind \in KillKinds
    BY <1>1, <1>4, AttemptedShape DEF Signalled
  <1>5. CASE c.kind \notin KillKinds
    <2>1. /\ call' = [call EXCEPT ![w] = d]
          /\ outcome' = Did(HitOf(p), FALSE, TRUE, d)
          /\ UNCHANGED host
      BY <1>1, <1>5
    <2>2. call'[w] = d /\ DOMAIN call' = Workers /\ \A v \in Workers \ {w} : call'[v] = call[v]
      BY <2>1, <1>2
    <2>3. IsCall(d) /\ d.kind = c.kind
      BY <1>3 DEF SameBut, Fields
    <2>4. CallOK(d)
      BY <2>3, <1>3 DEF CallOK, KindOK, ProcPcs
    <2>5. /\ Reports(Did(HitOf(p), FALSE, TRUE, d), HitOf(p), FALSE, TRUE)
          /\ SameBut(d, Did(HitOf(p), FALSE, TRUE, d).call, {"pc", "fd", "todo"})
      BY <2>3, DidShape
    <2>6. /\ outcome'.hit = HitOf(p) /\ ~ outcome'.done
          /\ SameBut(d, outcome'.call, {"pc", "fd", "todo"})
      BY <2>1, <2>5 DEF Reports
    <2>7. SameBut(c, outcome'.call, {"pc", "fd", "todo"}) /\ outcome'.call.kind = c.kind
      BY <2>6, <1>3 DEF SameBut, Fields
    <2>8. Moved(w, ProcKinds)
      BY <2>1, <2>2, <2>3, <2>4, <2>7 DEF Moved
    <2>9. QED
      BY <1>1, <1>3, <1>5, <2>2, <2>6, <2>7, <2>8 DEF Signalled
  <1>6. QED
    BY <1>4, <1>5

LEMMA SendShape ==
  ASSUME CallsOK, NEW w \in Workers, PidfdSend(w)
  PROVE  /\ call[w].kind \in ProcKinds /\ call[w].pc = "send"
         /\ \/ \E p \in Pids : proc[p].inst = call[w].fd /\ Signalled(w, p)
            \/ UNCHANGED processVars /\ Tried(w, FALSE, 0)
  <1>1. call[w].kind \in ProcKinds /\ call[w].pc = "send"
    <2>1. At(w, "send") /\ "send" \in ProcPcs
      BY DEF ProcPcs, PidfdSend
    <2>2. QED
      BY <2>1, AtProcess DEF At
  <1>2. CASE \E p \in Pids : proc[p].inst = call[w].fd /\ Sent(w, p)
    BY <1>1, <1>2, SentShape
  <1>3. CASE UNCHANGED processVars /\ Attempted(w, FALSE, 0)
    BY <1>1, <1>3, AttemptedShape
  <1>4. QED
    BY <1>2, <1>3 DEF PidfdSend

LEMMA FallbackShape ==
  ASSUME CallsOK, NEW w \in Workers, Fallback(w)
  PROVE  /\ call[w].kind \in ProcKinds /\ call[w].pc = "fallback"
         /\ \/ Signalled(w, Head(call[w].todo))
            \/ UNCHANGED processVars /\ Tried(w, FALSE, 0)
  <1>1. call[w].kind \in ProcKinds /\ call[w].pc = "fallback"
    <2>1. At(w, "fallback") /\ "fallback" \in ProcPcs
      BY DEF ProcPcs, Fallback
    <2>2. QED
      BY <2>1, AtProcess DEF At
  <1>2. CASE Sent(w, Head(call[w].todo))
    BY <1>1, <1>2, SentShape
  <1>3. CASE UNCHANGED processVars /\ Attempted(w, FALSE, 0)
    BY <1>1, <1>3, AttemptedShape
  <1>4. QED
    BY <1>2, <1>3 DEF Fallback

LEMMA TableShape ==
  ASSUME CallsOK, NEW w \in Workers, UpdateTable(w)
  PROVE  /\ call[w].kind \in ProcKinds /\ call[w].pc = "table"
         /\ Moved(w, ProcKinds)
         /\ call'[w] = Idle
         /\ outcome'.hit = 0
         /\ outcome'.call.kind = call[w].kind
         /\ UNCHANGED <<proc, born, crossed>>
         /\ suspended' = {e \in suspended : e.pid # call[w].pid} \cup
              IF call[w].kind = "process_suspend"
              THEN {[pid |-> call[w].pid, inst |-> call[w].fd]} ELSE {}
  <1>1. call[w].kind \in ProcKinds /\ call[w].pc = "table" /\ IsCall(call[w])
    <2>1. At(w, "table") /\ "table" \in ProcPcs
      BY DEF ProcPcs, UpdateTable
    <2>2. QED
      BY <2>1, AtProcess DEF At
  <1>2. Return(w, TRUE, call[w], 0)
    BY DEF UpdateTable
  <1>3. Moved(w, ProcKinds)
    BY <1>1, <1>2, ReturnMoves
  <1>4. call'[w] = Idle /\ outcome' = Did(0, TRUE, TRUE, call[w])
    BY <1>2, ReturnShape DEF CallsOK
  <1>5. /\ Reports(Did(0, TRUE, TRUE, call[w]), 0, TRUE, TRUE)
        /\ SameBut(call[w], Did(0, TRUE, TRUE, call[w]).call, {"pc", "fd", "todo"})
    BY <1>1, DidShape
  <1>6. outcome'.hit = 0 /\ outcome'.call.kind = call[w].kind
    BY <1>4, <1>5 DEF Reports, SameBut, Fields
  <1>7. QED
    BY <1>1, <1>3, <1>4, <1>6 DEF UpdateTable

----------------------------------------------------------------------------
\* The process table.

\* What every step may do to the table: no instance comes back, or comes back to
\* life, and a new one has a new number.
Evolves ==
  /\ born' \in Nat /\ born <= born'
  /\ \A q \in Pids : \/ proc'[q].inst = proc[q].inst /\ (Alive(q)' => Alive(q))
                     \/ proc'[q].inst = 0
                     \/ proc'[q].inst \in Nat /\ proc'[q].inst > born

LEMMA PidsAboveOne == Pids \subseteq Nat /\ 0 \notin Pids /\ 1 \notin Pids
  <1>1. PICK n \in Nat : Pids = 2 .. n
    BY PidsRange
  <1>2. QED
    BY SMT, <1>1

LEMMA ForkShape ==
  ASSUME TableOK, NEW p \in Pids, NEW q \in Pids, Fork(p, q)
  PROVE  /\ ~ Present(p) /\ proc[q].state = "running"
         /\ born' = born + 1
         /\ DOMAIN proc' = Pids
         /\ \A r \in Pids \ {p} : proc'[r] = proc[r]
         /\ IsRow(proc'[p])
         /\ proc'[p].inst = born + 1 /\ proc'[p].parent = q /\ proc'[p].state = "running"
  <1>1. DOMAIN proc = Pids /\ IsRow(proc[q])
    BY DEF TableOK, RowOK
  <1>2. proc' = [proc EXCEPT ![p] = [proc[q] EXCEPT !.inst = born + 1, !.parent = q]]
    BY DEF Fork
  <1>3. proc'[p] = [proc[q] EXCEPT !.inst = born + 1, !.parent = q]
    BY <1>1, <1>2
  <1>4. DOMAIN proc' = Pids /\ \A r \in Pids \ {p} : proc'[r] = proc[r]
    BY <1>1, <1>2
  <1>5. /\ IsRow(proc'[p])
        /\ proc'[p].inst = born + 1 /\ proc'[p].parent = q
        /\ proc'[p].state = proc[q].state
    BY <1>1, <1>3 DEF IsRow
  <1>6. QED
    BY <1>4, <1>5 DEF Fork

LEMMA ForkKeeps ==
  ASSUME TableOK, NEW p \in Pids, NEW q \in Pids, Fork(p, q)
  PROVE  TableOK' /\ Evolves
  <1>1. /\ ~ Present(p) /\ proc[q].state = "running"
        /\ born' = born + 1
        /\ DOMAIN proc' = Pids
        /\ \A r \in Pids \ {p} : proc'[r] = proc[r]
        /\ IsRow(proc'[p])
        /\ proc'[p].inst = born + 1 /\ proc'[p].parent = q /\ proc'[p].state = "running"
    BY ForkShape
  <1>2. born \in Nat /\ \A r \in Pids : RowOK(r)
    BY DEF TableOK
  <1>3. p # q
    BY <1>1 DEF Present
  <1>4. RowOK(p)'
    <2>1. Present(q)' /\ proc'[q].inst <= born /\ proc'[q].inst \in Nat
      BY <1>1, <1>2, <1>3 DEF Present, RowOK
    <2>2. proc'[q].inst < born + 1 /\ born + 1 \in Nat /\ born + 1 # 0 /\ born + 1 <= born'
      BY SMT, <2>1, <1>1, <1>2
    <2>3. QED
      BY <2>1, <2>2, <1>1 DEF RowOK, States
  <1>5. ASSUME NEW r \in Pids \ {p} PROVE RowOK(r)'
    <2>1. proc'[r] = proc[r] /\ RowOK(r)
      BY <1>1, <1>2
    <2>2. proc[r].inst <= born'
      BY SMT, <2>1, <1>1, <1>2 DEF RowOK
    <2>3. ASSUME Present(r)', proc'[r].parent \in Pids
          PROVE  Present(proc[r].parent)' /\ proc'[proc'[r].parent].inst < proc'[r].inst
      <3>1. Present(r) /\ Present(proc[r].parent) /\ proc[proc[r].parent].inst < proc[r].inst
        BY <2>1, <2>3 DEF RowOK, Present
      <3>2. proc[r].parent \in Pids \ {p}
        BY <2>1, <2>3, <3>1, <1>1
      <3>3. proc'[proc[r].parent] = proc[proc[r].parent]
        BY <3>2, <1>1
      <3>4. QED
        BY <3>1, <3>3, <2>1 DEF Present
    <2>4. QED
      BY <2>1, <2>2, <2>3 DEF RowOK
  <1>6. ASSUME NEW r \in Pids, NEW t \in Pids, proc'[r].inst = proc'[t].inst, r # t
        PROVE  proc'[r].inst = 0
    <2>1. CASE r # p /\ t # p
      BY <2>1, <1>1, <1>6 DEF TableOK
    <2>2. CASE r = p \/ t = p
      <3>1. PICK s \in Pids \ {p} : proc'[s].inst = born + 1
        BY <2>2, <1>6, <1>1
      <3>2. proc[s].inst = born + 1 /\ proc[s].inst <= born
        BY <3>1, <1>1, <1>2 DEF RowOK
      <3>3. QED
        BY SMT, <3>2, <1>2
    <2>3. QED
      BY <2>1, <2>2
  <1>7. TableOK'
    <2>1. born' \in Nat
      BY SMT, <1>1, <1>2
    <2>2. QED
      BY <2>1, <1>1, <1>4, <1>5, <1>6 DEF TableOK
  <1>8. Evolves
    <2>1. born' \in Nat /\ born <= born' /\ born + 1 > born /\ born + 1 \in Nat
      BY SMT, <1>1, <1>2
    <2>2. QED
      BY <2>1, <1>1 DEF Evolves, Alive
  <1>9. QED
    BY <1>7, <1>8

\* A step that changes no row but in its program, or the state of a live one.
LEMMA RowsKeep ==
  ASSUME TableOK, UNCHANGED born, DOMAIN proc' = Pids,
         \A r \in Pids : /\ IsRow(proc'[r])
                         /\ proc'[r].inst = proc[r].inst
                         /\ proc'[r].parent = proc[r].parent
                         /\ \/ proc'[r].state = proc[r].state
                            \/ proc'[r].state \in {"running", "stopped"} /\ Alive(r)
  PROVE  TableOK' /\ Evolves
  <1>1. ASSUME NEW r \in Pids PROVE Present(r)' <=> Present(r)
    BY DEF Present, Alive
  <1>2. ASSUME NEW r \in Pids PROVE RowOK(r)'
    <2>1. RowOK(r)
      BY DEF TableOK
    <2>2. proc'[r].state \in States /\ (proc'[r].state = "free" <=> proc'[r].inst = 0)
      BY <1>1, <2>1 DEF RowOK, States, Present
    <2>3. QED
      BY <1>1, <2>1, <2>2 DEF RowOK
  <1>3. TableOK'
    BY <1>2 DEF TableOK
  <1>4. born' \in Nat /\ born <= born'
    BY SMT DEF TableOK
  <1>5. QED
    BY <1>3, <1>4 DEF Evolves, Alive

LEMMA ExecKeeps ==
  ASSUME TableOK, NEW p \in Pids, NEW prog, Exec(p, prog)
  PROVE  /\ TableOK' /\ Evolves
         /\ \A r \in Pids : proc'[r].inst = proc[r].inst /\ proc'[r].state = proc[r].state
  <1>1. DOMAIN proc = Pids /\ \A r \in Pids : IsRow(proc[r])
    BY DEF TableOK, RowOK
  <1>2. proc' = [proc EXCEPT ![p] = [proc[p] EXCEPT !.prog = prog]] /\ UNCHANGED born
    BY DEF Exec
  <1>3. DOMAIN proc' = Pids /\ \A r \in Pids \ {p} : proc'[r] = proc[r]
    BY <1>1, <1>2
  <1>4. proc'[p] = [proc[p] EXCEPT !.prog = prog]
    BY <1>1, <1>2
  <1>5. /\ IsRow(proc'[p])
        /\ proc'[p].inst = proc[p].inst /\ proc'[p].parent = proc[p].parent
        /\ proc'[p].state = proc[p].state
    BY <1>1, <1>4 DEF IsRow
  <1>6. \A r \in Pids : /\ IsRow(proc'[r])
                        /\ proc'[r].inst = proc[r].inst /\ proc'[r].parent = proc[r].parent
                        /\ proc'[r].state = proc[r].state
    BY <1>1, <1>3, <1>5
  <1>7. TableOK' /\ Evolves
    BY <1>2, <1>3, <1>6, RowsKeep
  <1>8. QED
    BY <1>6, <1>7

LEMMA StateKeeps ==
  ASSUME TableOK, NEW p \in Pids, NEW state \in {"running", "stopped"}, Alive(p),
         proc' = [proc EXCEPT ![p].state = state], UNCHANGED born
  PROVE  /\ TableOK' /\ Evolves
         /\ \A r \in Pids : proc'[r].inst = proc[r].inst
         /\ proc'[p].state = state
         /\ \A r \in Pids \ {p} : proc'[r].state = proc[r].state
  <1>1. DOMAIN proc = Pids /\ \A r \in Pids : IsRow(proc[r])
    BY DEF TableOK, RowOK
  <1>2. proc' = [proc EXCEPT ![p] = [proc[p] EXCEPT !.state = state]]
    OBVIOUS
  <1>3. DOMAIN proc' = Pids /\ \A r \in Pids \ {p} : proc'[r] = proc[r]
    BY <1>1, <1>2
  <1>4. proc'[p] = [proc[p] EXCEPT !.state = state]
    BY <1>1, <1>2
  <1>5. /\ IsRow(proc'[p])
        /\ proc'[p].inst = proc[p].inst /\ proc'[p].parent = proc[p].parent
        /\ proc'[p].state = state
    BY <1>1, <1>4 DEF IsRow
  <1>6. \A r \in Pids : /\ IsRow(proc'[r])
                        /\ proc'[r].inst = proc[r].inst /\ proc'[r].parent = proc[r].parent
                        /\ \/ proc'[r].state = proc[r].state
                           \/ proc'[r].state \in {"running", "stopped"} /\ Alive(r)
    BY <1>1, <1>3, <1>5
  <1>7. TableOK' /\ Evolves
    BY <1>3, <1>6, RowsKeep
  <1>8. QED
    BY <1>3, <1>5, <1>6, <1>7

LEMMA DeadShape ==
  ASSUME TableOK, NEW p \in Pids, NEW left \in {"zombie", "free"}, proc' = Dead(p, left)
  PROVE  /\ DOMAIN proc' = Pids
         /\ IsRow(proc'[p])
         /\ proc'[p].state = left
         /\ left = "zombie" => proc'[p].inst = proc[p].inst /\ proc'[p].parent = proc[p].parent
         /\ left = "free" => proc'[p].inst = 0
         /\ \A r \in Pids \ {p} :
              /\ IsRow(proc'[r])
              /\ proc'[r].inst = proc[r].inst /\ proc'[r].state = proc[r].state
              /\ proc'[r].parent = IF proc[r].parent = p THEN 1 ELSE proc[r].parent
  <1>1. \A r \in Pids : IsRow(proc[r])
    BY DEF TableOK, RowOK
  <1>2. DOMAIN proc' = Pids
    BY DEF Dead
  <1>3. proc'[p] = IF left = "zombie" THEN [proc[p] EXCEPT !.state = left] ELSE NoProc
    BY DEF Dead
  <1>4. /\ IsRow(proc'[p])
        /\ proc'[p].state = left
        /\ left = "zombie" => proc'[p].inst = proc[p].inst /\ proc'[p].parent = proc[p].parent
        /\ left = "free" => proc'[p].inst = 0
    <2>1. CASE left = "zombie"
      <3>1. proc'[p] = [proc[p] EXCEPT !.state = left]
        BY <1>3, <2>1
      <3>2. QED
        BY <1>1, <3>1, <2>1 DEF IsRow
    <2>2. CASE left = "free"
      <3>1. proc'[p] = NoProc
        BY <1>3, <2>2
      <3>2. NoProc.inst = 0 /\ NoProc.state = "free" /\ IsRow(NoProc)
        BY SMT DEF NoProc, IsRow
      <3>3. QED
        BY <3>1, <3>2, <2>2
    <2>3. QED
      BY <2>1, <2>2
  <1>5. ASSUME NEW r \in Pids \ {p}
        PROVE  /\ IsRow(proc'[r])
               /\ proc'[r].inst = proc[r].inst /\ proc'[r].state = proc[r].state
               /\ proc'[r].parent = IF proc[r].parent = p THEN 1 ELSE proc[r].parent
    <2>1. proc'[r] = IF proc[r].parent = p THEN [proc[r] EXCEPT !.parent = 1] ELSE proc[r]
      BY DEF Dead
    <2>2. CASE proc[r].parent = p
      <3>1. proc'[r] = [proc[r] EXCEPT !.parent = 1]
        BY <2>1, <2>2
      <3>2. QED
        BY <1>1, <3>1, <2>2 DEF IsRow
    <2>3. CASE proc[r].parent # p
      BY <1>1, <2>1, <2>3
    <2>4. QED
      BY <2>2, <2>3
  <1>6. QED
    BY <1>2, <1>4, <1>5

LEMMA DeadKeeps ==
  ASSUME TableOK, NEW p \in Pids, NEW left \in {"zombie", "free"}, Present(p),
         proc' = Dead(p, left), UNCHANGED born
  PROVE  /\ TableOK' /\ Evolves
         /\ ~ Alive(p)'
         /\ \A r \in Pids \ {p} : proc'[r].inst = proc[r].inst /\ proc'[r].state = proc[r].state
  <1>1. /\ DOMAIN proc' = Pids
        /\ IsRow(proc'[p])
        /\ proc'[p].state = left
        /\ left = "zombie" => proc'[p].inst = proc[p].inst /\ proc'[p].parent = proc[p].parent
        /\ left = "free" => proc'[p].inst = 0
    BY DeadShape
  <1>2. \A r \in Pids \ {p} :
              /\ IsRow(proc'[r])
              /\ proc'[r].inst = proc[r].inst /\ proc'[r].state = proc[r].state
              /\ proc'[r].parent = IF proc[r].parent = p THEN 1 ELSE proc[r].parent
    BY DeadShape
  <1>3. born \in Nat /\ (\A r \in Pids : RowOK(r)) /\ 0 <= born
    <2>1. born \in Nat /\ (\A r \in Pids : RowOK(r))
      BY DEF TableOK
    <2>2. QED
      BY SMT, <2>1
  <1>4. ~ Alive(p)'
    BY <1>1 DEF Alive
  <1>5. \A r \in Pids : proc'[r].inst = proc[r].inst \/ proc'[r].inst = 0
    BY <1>1, <1>2
  <1>6. ASSUME NEW r \in Pids PROVE RowOK(r)'
    <2>1. RowOK(r) /\ RowOK(p)
      BY <1>3
    <2>2. proc'[r].inst \in Nat /\ proc'[r].inst <= born'
      <3>1. 0 \in Nat
        BY SMT
      <3>2. QED
        BY <1>3, <1>5, <2>1, <3>1 DEF RowOK
    <2>3. /\ IsRow(proc'[r]) /\ proc'[r].state \in States
          /\ proc'[r].state = "free" <=> proc'[r].inst = 0
      BY <1>1, <1>2, <2>1 DEF RowOK, States, Present
    <2>4. ASSUME Present(r)', proc'[r].parent \in Pids
          PROVE  Present(proc[r].parent)' /\ proc'[proc'[r].parent].inst < proc'[r].inst
      <3>1. proc'[r].parent = proc[r].parent /\ proc'[r].inst = proc[r].inst /\ Present(r)
        BY <1>1, <1>2, <2>4, PidsAboveOne DEF Present
      <3>2. Present(proc[r].parent) /\ proc[proc[r].parent].inst < proc[r].inst
        BY <3>1, <2>1, <2>4 DEF RowOK
      <3>3. CASE proc[r].parent # p
        BY <3>1, <3>2, <3>3, <2>4, <1>2 DEF Present
      <3>4. CASE proc[r].parent = p
        <4>1. r = p
          BY <3>1, <3>4, <1>2, <2>4, PidsAboveOne
        <4>2. proc[p].inst < proc[p].inst /\ proc[p].inst \in Nat
          BY <4>1, <3>2, <3>4, <2>1 DEF RowOK
        <4>3. QED
          BY SMT, <4>2
      <3>5. QED
        BY <3>3, <3>4
    <2>5. QED
      BY <2>2, <2>3, <2>4 DEF RowOK
  <1>7. ASSUME NEW r \in Pids, NEW t \in Pids, proc'[r].inst = proc'[t].inst, r # t
        PROVE  proc'[r].inst = 0
    BY <1>5, <1>7 DEF TableOK
  <1>8. TableOK'
    BY <1>1, <1>3, <1>6, <1>7 DEF TableOK
  <1>9. Evolves
    <2>1. born <= born' /\ born' \in Nat
      BY SMT, <1>3
    <2>2. QED
      BY <2>1, <1>1, <1>2, <1>4, <1>5 DEF Evolves, Alive
  <1>10. QED
    BY <1>2, <1>4, <1>8, <1>9

----------------------------------------------------------------------------
\* Signals: the inductive invariant.

\* A call c on processes, against the table tab with n instances so far. What was
\* checked is the target, and the pid has no older instance since; a descriptor
\* is open on an instance that no other pid has or will have.
SignalOK(c, tab, n) ==
  /\ c.pid \in Pids
  /\ c.todo \in Seq(Pids) /\ c.todo # <<>>
  /\ c.kind # "kill_tree" => c.todo = <<c.pid>>
  /\ c.pc = "scan" => c.kind = "kill_tree" /\ c.checked = 0
  /\ c.pc = "table" => c.kind \notin KillKinds
  /\ c.ticks = 0 \/ c.ticks = c.target
  /\ c.checked \in Nat /\ c.checked <= n
  /\ c.checked # 0 => /\ Head(c.todo) = c.pid
                      /\ c.ticks = 0 \/ c.checked = c.target
                      /\ tab[c.pid].inst = 0 \/ c.checked <= tab[c.pid].inst
  /\ c.pc \in {"double", "send"} =>
       /\ c.fd \in Nat \ {0} /\ c.fd <= n /\ c.checked <= c.fd
       /\ \A q \in Pids : tab[q].inst = c.fd => q = Head(c.todo)

\* What a kill_tree without errors so far has scanned is dead or still to come.
TreeOK(c, tab, n) ==
  c.kind = "kill_tree" /\ c.pc # "scan" /\ ~ c.failed =>
    /\ \A i \in c.scanned : i \in Nat \ {0} /\ i <= n
    /\ \A p \in Pids : tab[p].inst \in c.scanned /\ tab[p].state \in {"running", "stopped"} =>
                         Listing(c.todo, p)

WorkerOK(c, tab, n) == c.kind \in ProcKinds => SignalOK(c, tab, n) /\ TreeOK(c, tab, n)

SignalInv == TableOK /\ \A w \in Workers : WorkerOK(call[w], proc, born)

LEMMA HeadShape ==
  ASSUME NEW s \in Seq(Pids), s # <<>>
  PROVE  /\ Head(s) \in Pids
         /\ Listing(s, Head(s))
         /\ ~ (Len(s) > 1) => \A p : Listing(s, p) => p = Head(s)
  BY SMT DEF Listing

LEMMA TailShape ==
  ASSUME NEW s \in Seq(Pids), Len(s) > 1
  PROVE  /\ Tail(s) \in Seq(Pids) /\ Tail(s) # <<>>
         /\ \A p : Listing(s, p) => p = Head(s) \/ Listing(Tail(s), p)
  <1>1. Tail(s) \in Seq(Pids) /\ Len(Tail(s)) = Len(s) - 1 /\ Len(s) \in Nat
    BY SMT
  <1>2. Tail(s) # <<>>
    <2>1. PICK m \in Nat : m = Len(s)
      BY <1>1
    <2>2. m > 1 /\ Len(Tail(s)) = m - 1
      BY <1>1, <2>1
    <2>3. m - 1 # 0 /\ Len(<<>>) = 0
      BY SMT, <2>1, <2>2
    <2>4. QED
      BY <2>2, <2>3
  <1>3. ASSUME NEW p, Listing(s, p), p # Head(s) PROVE Listing(Tail(s), p)
    <2>1. PICK i \in DOMAIN s : s[i] = p
      BY <1>3 DEF Listing
    <2>2. i \in 2 .. Len(s)
      <3>1. Head(s) = s[1] /\ DOMAIN s = 1 .. Len(s)
        BY SMT
      <3>2. i # 1 /\ i \in 1 .. Len(s)
        BY <3>1, <2>1, <1>3
      <3>3. QED
        BY SMT, <3>2, <1>1
    <2>3. i - 1 \in DOMAIN Tail(s) /\ Tail(s)[i - 1] = p
      BY SMT, <2>1, <2>2, <1>1
    <2>4. QED
      BY <2>3 DEF Listing
  <1>4. QED
    BY <1>1, <1>2, <1>3

\* A call in which a step does nothing stays right while the table evolves.
LEMMA SignalKept ==
  ASSUME TableOK, Evolves, NEW c, SignalOK(c, proc, born)
  PROVE  SignalOK(c, proc', born')
  <1>1. born \in Nat /\ born' \in Nat /\ born <= born' /\ c.checked \in Nat /\ c.checked <= born
    BY DEF TableOK, Evolves, SignalOK
  <1>2. c.checked <= born'
    BY SMT, <1>1
  <1>3. ASSUME c.checked # 0 PROVE proc'[c.pid].inst = 0 \/ c.checked <= proc'[c.pid].inst
    <2>1. c.pid \in Pids /\ (proc[c.pid].inst = 0 \/ c.checked <= proc[c.pid].inst)
      BY <1>3 DEF SignalOK
    <2>2. \/ proc'[c.pid].inst = proc[c.pid].inst
          \/ proc'[c.pid].inst = 0
          \/ proc'[c.pid].inst \in Nat /\ proc'[c.pid].inst > born
      BY <2>1 DEF Evolves
    <2>3. CASE proc'[c.pid].inst \in Nat /\ proc'[c.pid].inst > born
      <3>1. \A x \in Nat : x > born => c.checked <= x
        BY SMT, <1>1
      <3>2. QED
        BY <2>3, <3>1
    <2>4. QED
      BY <2>1, <2>2, <2>3
  <1>4. ASSUME c.pc \in {"double", "send"}
        PROVE  /\ c.fd <= born'
               /\ \A q \in Pids : proc'[q].inst = c.fd => q = Head(c.todo)
    <2>1. c.fd \in Nat \ {0} /\ c.fd <= born /\ \A q \in Pids : proc[q].inst = c.fd => q = Head(c.todo)
      BY <1>4 DEF SignalOK
    <2>2. c.fd <= born' /\ ~ (c.fd > born) /\ c.fd # 0
      BY SMT, <2>1, <1>1
    <2>3. QED
      BY <2>1, <2>2 DEF Evolves
  <1>5. QED
    BY <1>2, <1>3, <1>4 DEF SignalOK

LEMMA TreeKept ==
  ASSUME TableOK, Evolves, NEW c, TreeOK(c, proc, born)
  PROVE  TreeOK(c, proc', born')
  <1> SUFFICES ASSUME c.kind = "kill_tree", c.pc # "scan", ~ c.failed
               PROVE  /\ \A i \in c.scanned : i \in Nat \ {0} /\ i <= born'
                      /\ \A p \in Pids : proc'[p].inst \in c.scanned
                                           /\ proc'[p].state \in {"running", "stopped"} =>
                                         Listing(c.todo, p)
    BY DEF TreeOK
  <1>1. /\ \A i \in c.scanned : i \in Nat \ {0} /\ i <= born
        /\ \A p \in Pids : proc[p].inst \in c.scanned /\ Alive(p) => Listing(c.todo, p)
    BY DEF TreeOK, Alive
  <1>2. \A i \in c.scanned : i \in Nat \ {0} /\ i <= born' /\ ~ (i > born) /\ i # 0
    <2>1. born \in Nat /\ born' \in Nat /\ born <= born'
      BY DEF TableOK, Evolves
    <2>2. QED
      BY SMT, <2>1, <1>1
  <1>3. ASSUME NEW p \in Pids, proc'[p].inst \in c.scanned, proc'[p].state \in {"running", "stopped"}
        PROVE  Listing(c.todo, p)
    <2>1. Alive(p)'
      BY <1>3 DEF Alive
    <2>2. proc'[p].inst = proc[p].inst /\ Alive(p)
      BY <1>2, <1>3, <2>1 DEF Evolves
    <2>3. QED
      BY <2>2, <1>1, <1>3
  <1>4. QED
    BY <1>2, <1>3

\* A step of w on processes keeps the invariant if it keeps what is said of w.
LEMMA SignalMoved ==
  ASSUME SignalInv, NEW w \in Workers, NEW kinds, Moved(w, kinds), TableOK', Evolves,
         WorkerOK(call'[w], proc', born')
  PROVE  SignalInv'
  <1>1. ASSUME NEW v \in Workers PROVE WorkerOK(call'[v], proc', born')
    <2>1. CASE v = w
      BY <2>1
    <2>2. CASE v # w
      <3>1. call'[v] = call[v] /\ WorkerOK(call[v], proc, born) /\ TableOK
        BY <2>2 DEF Moved, SignalInv
      <3>2. WorkerOK(call[v], proc', born')
        BY <3>1, SignalKept, TreeKept DEF WorkerOK
      <3>3. QED
        BY <3>1, <3>2
    <2>3. QED
      BY <2>1, <2>2
  <1>2. QED
    BY <1>1 DEF SignalInv

LEMMA TableStays ==
  ASSUME TableOK, UNCHANGED <<proc, born>>
  PROVE  TableOK' /\ Evolves
  <1>1. TableOK'
    BY DEF TableOK, RowOK, IsRow, Present
  <1>2. born' \in Nat /\ born <= born'
    BY SMT DEF TableOK
  <1>3. QED
    BY <1>1, <1>2 DEF Evolves, Alive

\* An attempt keeps what is said of its call. When it succeeded, nobody with the
\* pid is alive.
LEMMA TriedKeeps ==
  ASSUME SignalInv, NEW w \in Workers, NEW ok \in BOOLEAN, NEW hit, call[w].kind \in ProcKinds,
         Tried(w, ok, hit), TableOK', Evolves, call[w].pc # "scan",
         ok => proc'[Head(call[w].todo)].state \notin {"running", "stopped"}
  PROVE  SignalInv'
  <1> DEFINE c == call[w]
             d == call'[w]
  <1>1. SignalOK(c, proc, born) /\ TreeOK(c, proc, born) /\ TableOK
    BY DEF SignalInv, WorkerOK
  <1>2. TreeOK(c, proc', born')
    BY <1>1, TreeKept
  <1>3. c.todo \in Seq(Pids) /\ c.pid \in Pids
    BY <1>1 DEF SignalOK
  <1>4. CASE d = Idle
    <2>1. WorkerOK(d, proc', born')
      BY <1>4, IdleShape DEF WorkerOK, ProcKinds, KillKinds, FreezeKinds
    <2>2. QED
      BY <2>1, SignalMoved DEF Tried
  <1>5. CASE /\ Len(c.todo) > 1
             /\ SameBut(c, d, {"pc", "fd", "todo", "killed", "failed", "checked"})
             /\ d.pc = "check" /\ d.todo = Tail(c.todo) /\ d.checked = 0 /\ d.fd = 0
             /\ d.failed = (c.failed \/ ~ ok)
    <2>1. /\ d.kind = c.kind /\ d.pid = c.pid /\ d.ticks = c.ticks /\ d.target = c.target
          /\ d.scanned = c.scanned
      BY <1>5 DEF SameBut, Fields
    <2>2. /\ Tail(c.todo) \in Seq(Pids) /\ Tail(c.todo) # <<>>
          /\ \A p : Listing(c.todo, p) => p = Head(c.todo) \/ Listing(Tail(c.todo), p)
      BY <1>3, <1>5, TailShape
    <2>3. c.kind = "kill_tree"
      <3>1. Len(<<c.pid>>) = 1 /\ ~ (1 > 1)
        BY SMT
      <3>2. c.todo # <<c.pid>>
        BY <3>1, <1>5
      <3>3. QED
        BY <3>2, <1>1 DEF SignalOK
    <2>4. SignalOK(d, proc', born')
      <3>1. 0 \in Nat /\ 0 <= born'
        BY SMT DEF Evolves
      <3>2. QED
        BY <1>1, <1>5, <2>1, <2>2, <2>3, <3>1 DEF SignalOK
    <2>5. ASSUME ~ d.failed PROVE ~ c.failed /\ ok
      BY <1>5, <2>5
    <2>6. TreeOK(d, proc', born')
      BY <1>2, <1>5, <2>1, <2>2, <2>3, <2>5 DEF TreeOK
    <2>7. WorkerOK(d, proc', born')
      BY <2>4, <2>6 DEF WorkerOK
    <2>8. QED
      BY <2>7, SignalMoved DEF Tried
  <1>6. QED
    BY <1>4, <1>5 DEF Tried

LEMMA KindsApart ==
  /\ ProcKinds = {"kill", "kill_tree", "process_suspend", "process_resume"}
  /\ "none" \notin ProcKinds
  BY DEF ProcKinds, KillKinds, FreezeKinds

LEMMA CalledKeeps ==
  ASSUME SignalInv, NEW w \in Workers, NEW kind \in ProcKinds, NEW p \in Pids, NEW ids,
         Called(w, kind, p, ids), \A id \in ids : id[2] = 0 \/ id[2] = proc[p].inst,
         UNCHANGED <<proc, born>>
  PROVE  SignalInv'
  <1> DEFINE d == call'[w]
  <1>1. TableOK' /\ Evolves /\ born' \in Nat
    BY TableStays DEF SignalInv, Evolves
  <1>2. <<p>> \in Seq(Pids) /\ <<p>> # <<>> /\ 0 \in Nat /\ 0 <= born'
    BY SMT, <1>1
  <1>3. d.ticks = 0 \/ d.ticks = d.target
    BY DEF Called
  <1>4. SignalOK(d, proc', born')
    <2>1. d.pc \notin {"double", "send"}
      BY DEF Called
    <2>2. QED
      BY <1>2, <1>3, <2>1 DEF Called, SignalOK
  <1>5. TreeOK(d, proc', born')
    BY DEF Called, TreeOK
  <1>6. WorkerOK(d, proc', born')
    BY <1>4, <1>5 DEF WorkerOK
  <1>7. QED
    BY <1>1, <1>6, SignalMoved DEF Called

LEMMA CheckKeeps ==
  ASSUME SignalInv, CallsOK, NEW w \in Workers, Check(w)
  PROVE  SignalInv'
  <1> DEFINE c == call[w]
             d == call'[w]
  <1>1. /\ c.kind \in ProcKinds /\ c.pc = "check"
        /\ UNCHANGED processVars
        /\ \/ Tried(w, FALSE, 0)
           \/ /\ Goes(w, "open", {"checked"})
              /\ Asked(c) => sameProcess(c)
              /\ d.checked = IF Asked(c) THEN proc[c.pid].inst ELSE 0
    BY CheckShape
  <1>2. UNCHANGED <<proc, born>> /\ TableOK
    BY <1>1 DEF processVars, SignalInv
  <1>3. TableOK' /\ Evolves
    BY <1>2, TableStays
  <1>4. SignalOK(c, proc, born) /\ TreeOK(c, proc, born)
    BY <1>1 DEF SignalInv, WorkerOK
  <1>5. CASE Tried(w, FALSE, 0)
    BY <1>1, <1>3, <1>5, TriedKeeps
  <1>6. CASE /\ Goes(w, "open", {"checked"})
             /\ Asked(c) => sameProcess(c)
             /\ d.checked = IF Asked(c) THEN proc[c.pid].inst ELSE 0
    <2>1. /\ d.kind = c.kind /\ d.pid = c.pid /\ d.ticks = c.ticks /\ d.target = c.target
          /\ d.scanned = c.scanned /\ d.todo = c.todo /\ d.failed = c.failed /\ d.pc = "open"
      BY <1>6 DEF Goes, SameBut, Fields
    <2>2. RowOK(c.pid) /\ born \in Nat /\ c.pid \in Pids
      BY <1>2, <1>4 DEF TableOK, SignalOK
    <2>3. d.checked \in Nat /\ d.checked <= born
      <3>1. 0 \in Nat /\ 0 <= born
        BY SMT, <2>2
      <3>2. QED
        BY <1>6, <2>2, <3>1 DEF RowOK
    <2>4. ASSUME d.checked # 0
          PROVE  /\ Head(c.todo) = c.pid
                 /\ c.ticks = 0 \/ d.checked = c.target
                 /\ d.checked <= proc[c.pid].inst
      <3>1. Asked(c) /\ sameProcess(c) /\ d.checked = proc[c.pid].inst
        BY <1>6, <2>4
      <3>2. proc[c.pid].inst <= proc[c.pid].inst
        BY SMT, <2>2 DEF RowOK
      <3>3. c.ticks = 0 \/ d.checked = c.target
        BY <3>1, <1>4 DEF sameProcess, SignalOK
      <3>4. QED
        BY <3>1, <3>2, <3>3 DEF Asked
    <2>5. SignalOK(d, proc', born')
      BY <1>2, <1>4, <2>1, <2>3, <2>4 DEF SignalOK
    <2>6. TreeOK(d, proc', born')
      BY <1>1, <1>2, <1>4, <2>1 DEF TreeOK
    <2>7. WorkerOK(d, proc', born')
      BY <2>5, <2>6 DEF WorkerOK
    <2>8. QED
      BY <1>3, <1>6, <2>7, SignalMoved DEF Goes
  <1>7. QED
    BY <1>1, <1>5, <1>6

----------------------------------------------------------------------------
\* The other steps of a call on processes keep the invariant.

LEMMA OpenKeeps ==
  ASSUME SignalInv, CallsOK, NEW w \in Workers, PidfdOpen(w)
  PROVE  SignalInv'
  <1> DEFINE c == call[w]
             d == call'[w]
  <1>1. /\ c.kind \in ProcKinds /\ c.pc = "open"
        /\ UNCHANGED processVars
        /\ \/ Tried(w, FALSE, 0)
           \/ Goes(w, "fallback", {})
           \/ /\ \/ Goes(w, "double", {"fd"}) /\ c.kind \in KillKinds
                 \/ Goes(w, "send", {"fd"}) /\ c.kind \notin KillKinds
              /\ Present(Head(c.todo))
              /\ d.fd = proc[Head(c.todo)].inst
    BY OpenShape
  <1>2. UNCHANGED <<proc, born>> /\ TableOK
    BY <1>1 DEF processVars, SignalInv
  <1>3. TableOK' /\ Evolves
    BY <1>2, TableStays
  <1>4. SignalOK(c, proc, born) /\ TreeOK(c, proc, born)
    BY <1>1 DEF SignalInv, WorkerOK
  <1>5. CASE Tried(w, FALSE, 0)
    BY <1>1, <1>3, <1>5, TriedKeeps
  <1>6. CASE \E pc \in {"fallback", "double", "send"} : Goes(w, pc, {"fd"})
    <2>1. /\ d.kind = c.kind /\ d.pid = c.pid /\ d.ticks = c.ticks /\ d.target = c.target
          /\ d.scanned = c.scanned /\ d.todo = c.todo /\ d.failed = c.failed
          /\ d.checked = c.checked /\ d.pc \in {"fallback", "double", "send"}
      BY <1>6 DEF Goes, SameBut, Fields
    <2>2. ASSUME d.pc \in {"double", "send"}
          PROVE  /\ d.fd \in Nat \ {0} /\ d.fd <= born /\ c.checked <= d.fd
                 /\ \A q \in Pids : proc[q].inst = d.fd => q = Head(c.todo)
      <3>1. Present(Head(c.todo)) /\ d.fd = proc[Head(c.todo)].inst
        BY <1>1, <2>2, IdleShape DEF Goes, Tried
      <3>2. Head(c.todo) \in Pids
        BY <1>4, HeadShape DEF SignalOK
      <3>3. RowOK(Head(c.todo))
        BY <1>2, <3>2 DEF TableOK
      <3>4. d.fd \in Nat \ {0} /\ d.fd <= born
        BY <3>1, <3>3 DEF RowOK, Present
      <3>5. c.checked <= d.fd
        <4>1. CASE c.checked = 0
          BY SMT, <4>1, <3>4
        <4>2. CASE c.checked # 0
          BY <4>2, <3>1, <3>4, <1>4 DEF SignalOK
        <4>3. QED
          BY <4>1, <4>2
      <3>6. \A q \in Pids : proc[q].inst = d.fd => q = Head(c.todo)
        BY <3>1, <3>2, <3>4, <1>2 DEF TableOK
      <3>7. QED
        BY <3>4, <3>5, <3>6
    <2>3. SignalOK(d, proc', born')
      BY <1>2, <1>4, <2>1, <2>2 DEF SignalOK
    <2>4. TreeOK(d, proc', born')
      BY <1>1, <1>2, <1>4, <2>1 DEF TreeOK
    <2>5. WorkerOK(d, proc', born')
      BY <2>3, <2>4 DEF WorkerOK
    <2>6. QED
      BY <1>3, <1>6, <2>5, SignalMoved DEF Goes
  <1>7. Goes(w, "fallback", {}) => Goes(w, "fallback", {"fd"})
    BY DEF Goes, SameBut
  <1>8. QED
    BY <1>1, <1>5, <1>6, <1>7

LEMMA DoubleKeeps ==
  ASSUME SignalInv, CallsOK, NEW w \in Workers, DoubleCheck(w)
  PROVE  SignalInv'
  <1> DEFINE c == call[w]
             d == call'[w]
  <1>1. /\ c.kind \in ProcKinds /\ c.pc = "double"
        /\ UNCHANGED processVars
        /\ Tried(w, FALSE, 0) \/ Goes(w, "send", {})
    BY DoubleShape
  <1>2. UNCHANGED <<proc, born>> /\ TableOK
    BY <1>1 DEF processVars, SignalInv
  <1>3. TableOK' /\ Evolves
    BY <1>2, TableStays
  <1>4. SignalOK(c, proc, born) /\ TreeOK(c, proc, born)
    BY <1>1 DEF SignalInv, WorkerOK
  <1>5. CASE Tried(w, FALSE, 0)
    BY <1>1, <1>3, <1>5, TriedKeeps
  <1>6. CASE Goes(w, "send", {})
    <2>1. /\ d.kind = c.kind /\ d.pid = c.pid /\ d.ticks = c.ticks /\ d.target = c.target
          /\ d.scanned = c.scanned /\ d.todo = c.todo /\ d.failed = c.failed
          /\ d.checked = c.checked /\ d.fd = c.fd /\ d.pc = "send"
      BY <1>6 DEF Goes, SameBut, Fields
    <2>2. SignalOK(d, proc', born')
      BY <1>1, <1>2, <1>4, <2>1 DEF SignalOK
    <2>3. TreeOK(d, proc', born')
      BY <1>1, <1>2, <1>4, <2>1 DEF TreeOK
    <2>4. WorkerOK(d, proc', born')
      BY <2>2, <2>3 DEF WorkerOK
    <2>5. QED
      BY <1>3, <1>6, <2>4, SignalMoved DEF Goes
  <1>7. QED
    BY <1>1, <1>5, <1>6

\* A signal keeps the table right; a kill leaves nobody alive at the pid.
LEMMA DeliverKeeps ==
  ASSUME TableOK, NEW kind, NEW p \in Pids, Deliver(kind, p)
  PROVE  /\ TableOK' /\ Evolves
         /\ kind \in KillKinds => proc'[p].state \notin {"running", "stopped"}
         /\ \A r \in Pids \ {p} : proc'[r].inst = proc[r].inst /\ proc'[r].state = proc[r].state
         /\ UNCHANGED <<born, suspended, crossed>>
  <1>1. UNCHANGED <<born, suspended, crossed>>
    BY DEF Deliver
  <1>2. CASE ~ Alive(p)
    <2>1. UNCHANGED <<proc, born>>
      BY <1>1, <1>2 DEF Deliver
    <2>2. QED
      BY <1>1, <1>2, <2>1, TableStays DEF Alive
  <1>3. CASE Alive(p) /\ kind \in KillKinds
    <2>1. PICK left \in {"zombie", "free"} : proc' = Dead(p, left)
      BY <1>3 DEF Deliver
    <2>2. Present(p)
      BY <1>3 DEF Alive, Present
    <2>3. /\ TableOK' /\ Evolves /\ ~ Alive(p)'
          /\ \A r \in Pids \ {p} : proc'[r].inst = proc[r].inst /\ proc'[r].state = proc[r].state
      BY <1>1, <2>1, <2>2, DeadKeeps
    <2>4. QED
      BY <1>1, <2>3 DEF Alive
  <1>4. CASE Alive(p) /\ kind \notin KillKinds
    <2>1. PICK state \in {"running", "stopped"} : proc' = [proc EXCEPT ![p].state = state]
      BY <1>4 DEF Deliver
    <2>2. /\ TableOK' /\ Evolves
          /\ \A r \in Pids : proc'[r].inst = proc[r].inst
          /\ \A r \in Pids \ {p} : proc'[r].state = proc[r].state
      BY <1>1, <1>4, <2>1, StateKeeps
    <2>3. QED
      BY <1>1, <1>4, <2>2
  <1>5. QED
    BY <1>2, <1>3, <1>4

LEMMA SignalledKeeps ==
  ASSUME SignalInv, CallsOK, NEW w \in Workers, call[w].kind \in ProcKinds,
         call[w].pc \in {"send", "fallback"}, Signalled(w, Head(call[w].todo))
  PROVE  SignalInv'
  <1> DEFINE c == call[w]
             d == call'[w]
             p == Head(c.todo)
  <1>1. SignalOK(c, proc, born) /\ TreeOK(c, proc, born) /\ TableOK
    BY DEF SignalInv, WorkerOK
  <1>2. p \in Pids
    BY <1>1, HeadShape DEF SignalOK
  <1> HIDE DEF p
  <1>3. /\ TableOK' /\ Evolves
        /\ c.kind \in KillKinds => proc'[p].state \notin {"running", "stopped"}
    <2>1. Deliver(c.kind, p)
      BY DEF Signalled, p
    <2>2. QED
      BY <1>1, <1>2, <2>1, DeliverKeeps
  <1>4. CASE c.kind \in KillKinds
    <2>1. Tried(w, TRUE, HitOf(p))
      BY <1>4 DEF Signalled, p
    <2>2. QED
      BY <1>3, <1>4, <2>1, TriedKeeps DEF p
  <1>5. CASE c.kind \notin KillKinds
    <2>1. /\ Moved(w, ProcKinds)
          /\ SameBut(c, d, {"pc", "fd"})
          /\ d.pc = "table"
      BY <1>5 DEF Signalled
    <2>2. /\ d.kind = c.kind /\ d.pid = c.pid /\ d.ticks = c.ticks /\ d.target = c.target
          /\ d.todo = c.todo /\ d.checked = c.checked
      BY <2>1 DEF SameBut, Fields
    <2>3. SignalOK(c, proc', born')
      BY <1>1, <1>3, SignalKept
    <2>4. SignalOK(d, proc', born')
      BY <1>5, <2>1, <2>2, <2>3 DEF SignalOK
    <2>5. TreeOK(d, proc', born')
      BY <1>5, <2>2 DEF TreeOK, KillKinds
    <2>6. WorkerOK(d, proc', born')
      BY <2>4, <2>5 DEF WorkerOK
    <2>7. QED
      BY <1>3, <2>1, <2>6, SignalMoved
  <1>6. QED
    BY <1>4, <1>5

LEMMA SendKeeps ==
  ASSUME SignalInv, CallsOK, NEW w \in Workers, PidfdSend(w)
  PROVE  SignalInv'
  <1> DEFINE c == call[w]
  <1>1. c.kind \in ProcKinds /\ c.pc = "send"
    BY SendShape
  <1>2. SignalOK(c, proc, born) /\ TableOK
    BY <1>1 DEF SignalInv, WorkerOK
  <1>3. CASE \E p \in Pids : proc[p].inst = c.fd /\ Signalled(w, p)
    <2>1. Signalled(w, Head(c.todo))
      BY <1>1, <1>2, <1>3 DEF SignalOK
    <2>2. QED
      BY <1>1, <2>1, SignalledKeeps
  <1>4. CASE UNCHANGED processVars /\ Tried(w, FALSE, 0)
    <2>1. TableOK' /\ Evolves
      BY <1>2, <1>4, TableStays DEF processVars
    <2>2. QED
      BY <1>1, <1>4, <2>1, TriedKeeps
  <1>5. QED
    BY <1>3, <1>4, SendShape

LEMMA FallbackKeeps ==
  ASSUME SignalInv, CallsOK, NEW w \in Workers, Fallback(w)
  PROVE  SignalInv'
  <1> DEFINE c == call[w]
  <1>1. c.kind \in ProcKinds /\ c.pc = "fallback"
    BY FallbackShape
  <1>2. CASE Signalled(w, Head(c.todo))
    BY <1>1, <1>2, SignalledKeeps
  <1>3. CASE UNCHANGED processVars /\ Tried(w, FALSE, 0)
    <2>1. TableOK' /\ Evolves
      BY <1>3, TableStays DEF processVars, SignalInv
    <2>2. QED
      BY <1>1, <1>3, <2>1, TriedKeeps
  <1>4. QED
    BY <1>2, <1>3, FallbackShape

LEMMA TableKeeps ==
  ASSUME SignalInv, CallsOK, NEW w \in Workers, UpdateTable(w)
  PROVE  SignalInv'
  <1>1. Moved(w, ProcKinds) /\ call'[w] = Idle /\ UNCHANGED <<proc, born>>
    BY TableShape
  <1>2. TableOK' /\ Evolves
    BY <1>1, TableStays DEF SignalInv
  <1>3. WorkerOK(call'[w], proc', born')
    BY <1>1, IdleShape, KindsApart DEF WorkerOK
  <1>4. QED
    BY <1>1, <1>2, <1>3, SignalMoved

LEMMA SignalFrame ==
  ASSUME SignalInv, Frame(ProcKinds), TableOK', Evolves
  PROVE  SignalInv'
  <1>1. ASSUME NEW v \in Workers PROVE WorkerOK(call'[v], proc', born')
    <2>1. CASE call'[v] = call[v]
      <3>1. WorkerOK(call[v], proc, born) /\ TableOK
        BY DEF SignalInv
      <3>2. WorkerOK(call[v], proc', born')
        BY <3>1, SignalKept, TreeKept DEF WorkerOK
      <3>3. QED
        BY <2>1, <3>2
    <2>2. CASE call'[v].kind \notin ProcKinds
      BY <2>2 DEF WorkerOK
    <2>3. QED
      BY <2>1, <2>2 DEF Frame
  <1>2. QED
    BY <1>1 DEF SignalInv

\* What the processes of the host do by themselves.
HostMoves ==
  \/ \E p, q \in Pids : Fork(p, q)
  \/ \E p \in Pids : Exit(p) \/ Reap(p) \/ \E prog \in Programs : Exec(p, prog)

LEMMA HostKeeps ==
  ASSUME TableOK, HostMoves
  PROVE  TableOK' /\ Evolves
  <1>1. ASSUME NEW p \in Pids, Exit(p) PROVE TableOK' /\ Evolves
    <2>1. PICK left \in {"zombie", "free"} : proc' = Dead(p, left)
      BY <1>1 DEF Exit
    <2>2. Present(p) /\ UNCHANGED born
      BY <1>1 DEF Exit, Present
    <2>3. QED
      BY <2>1, <2>2, DeadKeeps
  <1>2. ASSUME NEW p \in Pids, Reap(p) PROVE TableOK' /\ Evolves
    <2>1. proc' = Dead(p, "free") /\ Present(p) /\ UNCHANGED born
      BY <1>2 DEF Reap, Present
    <2>2. QED
      BY <2>1, DeadKeeps
  <1>3. QED
    BY <1>1, <1>2, ForkKeeps, ExecKeeps DEF HostMoves

LEMMA HostCalls ==
  ASSUME HostMoves
  PROVE  outcome' = Silent /\ UNCHANGED <<host, call, calls, faults, suspended, crossed>>
  BY DEF HostMoves, Fork, Exit, Reap, Exec, HostStep

\* The requests that begin a call on a process.
Requests(w, p) ==
  \/ \E kind \in KillKinds \cup {"process_suspend"} : Apply(w, kind, p)
  \/ FreezeHandler(w, p) \/ ResumeHandler(w, p)

LEMMA RequestShape ==
  ASSUME CallsOK, NEW w \in Workers, NEW p \in Pids, Requests(w, p)
  PROVE  \E kind \in ProcKinds, ids \in {Identities(p), {<<None, 0>>}} :
           Called(w, kind, p, ids) /\ SignalCall(w, kind, p, ids)
  <1>1. \E kind \in ProcKinds, ids \in {Identities(p), {<<None, 0>>}} : SignalCall(w, kind, p, ids)
    BY DEF Requests, Apply, FreezeHandler, ResumeHandler, ProcKinds, KillKinds, FreezeKinds
  <1>2. QED
    BY <1>1, SignalShape

LEMMA RequestKeeps ==
  ASSUME SignalInv, CallsOK, NEW w \in Workers, NEW p \in Pids, Requests(w, p)
  PROVE  SignalInv'
  <1>1. PICK kind \in ProcKinds, ids \in {Identities(p), {<<None, 0>>}} :
           Called(w, kind, p, ids) /\ SignalCall(w, kind, p, ids)
    BY RequestShape
  <1>2. UNCHANGED <<proc, born>>
    BY <1>1 DEF SignalCall
  <1>3. \A id \in ids : id[2] = 0 \/ id[2] = proc[p].inst
    BY SMT, <1>1 DEF Identities
  <1>4. QED
    BY <1>1, <1>2, <1>3, CalledKeeps

\* The steps of a call on processes.
Signals(w) ==
  \/ Scan(w) \/ Check(w) \/ PidfdOpen(w) \/ DoubleCheck(w)
  \/ PidfdSend(w) \/ Fallback(w) \/ UpdateTable(w)

LEMMA ProcessCases ==
  ProcessNext => \/ HostMoves
                 \/ \E w \in Workers, p \in Pids : Requests(w, p)
                 \/ \E w \in Workers : Signals(w)
  BY DEF ProcessNext, HostMoves, Requests, Signals

\* A step on processes moves one worker, in a call on processes.
LEMMA ProcessMoves ==
  ASSUME CallsOK, ProcessNext
  PROVE  \/ UNCHANGED <<call, host>> /\ outcome' = Silent
         \/ \E w \in Workers : Moved(w, ProcKinds)
  <1>1. CASE HostMoves
    BY <1>1, HostCalls
  <1>2. CASE \E w \in Workers, p \in Pids : Requests(w, p)
    BY <1>2, RequestShape DEF Called
  <1>3. ASSUME NEW w \in Workers, Signals(w) PROVE Moved(w, ProcKinds)
    <2>1. CASE Scan(w) \/ Check(w)
      BY <2>1, ScanShape, CheckShape DEF Goes, Tried
    <2>2. CASE PidfdOpen(w) \/ DoubleCheck(w)
      BY <2>2, OpenShape, DoubleShape DEF Goes, Tried
    <2>3. CASE PidfdSend(w) \/ Fallback(w)
      BY <2>3, SendShape, FallbackShape DEF Signalled, Tried
    <2>4. CASE UpdateTable(w)
      BY <2>4, TableShape
    <2>5. QED
      BY <1>3, <2>1, <2>2, <2>3, <2>4 DEF Signals
  <1>4. QED
    BY <1>1, <1>2, <1>3, ProcessCases

----------------------------------------------------------------------------
\* What the steps on processes report.

LEMMA SilentIsRight ==
  ASSUME outcome' = Silent
  PROVE  MisdirectedOnlyByReuse' /\ KilledTreeIsGone'
  BY SilentShape DEF MisdirectedOnlyByReuse, KilledTreeIsGone

\* An attempt that failed has signalled nobody, and its kill_tree has an error.
LEMMA TriedFailed ==
  ASSUME NEW w \in Workers, Tried(w, FALSE, 0)
  PROVE  MisdirectedOnlyByReuse' /\ KilledTreeIsGone'
  <1>1. outcome'.hit = 0 /\ outcome'.call.failed = (call[w].failed \/ ~ FALSE)
    BY DEF Tried
  <1>2. outcome'.call.failed
    BY <1>1
  <1>3. QED
    BY <1>1, <1>2 DEF MisdirectedOnlyByReuse, KilledTreeIsGone

LEMMA SignalledRight ==
  ASSUME SignalInv, NEW w \in Workers, call[w].kind \in ProcKinds,
         call[w].pc \in {"send", "fallback"}, Signalled(w, Head(call[w].todo))
  PROVE  MisdirectedOnlyByReuse' /\ KilledTreeIsGone'
  <1> DEFINE c == call[w]
             p == Head(c.todo)
             o == outcome'.call
  <1>1. SignalOK(c, proc, born) /\ TreeOK(c, proc, born) /\ TableOK
    BY DEF SignalInv, WorkerOK
  <1>2. p \in Pids /\ c.todo \in Seq(Pids) /\ (~ (Len(c.todo) > 1) => \A q : Listing(c.todo, q) => q = p)
    BY <1>1, HeadShape DEF SignalOK
  <1> HIDE DEF p
  <1>3. /\ outcome'.hit = HitOf(p)
        /\ o.kind = c.kind /\ o.target = c.target /\ o.checked = c.checked /\ o.ticks = c.ticks
        /\ o.scanned = c.scanned
    BY DEF Signalled, Tried, SameBut, Fields, p
  <1>4. MisdirectedOnlyByReuse'
    <2>1. SUFFICES ASSUME HitOf(p) \notin {0, c.target}, c.checked # 0, c.ticks # 0
                   PROVE  HitOf(p) > c.checked
      BY <1>3 DEF MisdirectedOnlyByReuse
    <2>2. HitOf(p) = proc[p].inst /\ proc[p].inst # 0
      BY <2>1 DEF HitOf
    <2>3. c.checked = c.target /\ p = c.pid /\ c.checked <= proc[p].inst /\ c.checked \in Nat
      BY <1>1, <2>1, <2>2 DEF SignalOK, p
    <2>4. proc[p].inst # c.checked /\ proc[p].inst \in Nat
      BY <1>1, <1>2, <2>1, <2>2, <2>3 DEF TableOK, RowOK
    <2>5. PICK i \in Nat, j \in Nat : i = proc[p].inst /\ j = c.checked
      BY <2>3, <2>4
    <2>6. i > j
      BY SMT, <2>3, <2>4, <2>5
    <2>7. QED
      BY <2>2, <2>5, <2>6
  <1>5. KilledTreeIsGone'
    <2>1. SUFFICES ASSUME outcome'.done, o.kind = "kill_tree", ~ o.failed, NEW q \in Pids,
                          proc'[q].inst \in o.scanned, Alive(q)'
                   PROVE  FALSE
      BY DEF KilledTreeIsGone
    <2>2. c.kind = "kill_tree" /\ c.kind \in KillKinds
      BY <1>3, <2>1 DEF KillKinds
    <2>3. Tried(w, TRUE, HitOf(p)) /\ Deliver(c.kind, p)
      BY <2>2 DEF Signalled, p
    <2>4. ~ (Len(c.todo) > 1) /\ ~ c.failed
      BY <2>1, <2>3 DEF Tried
    <2>5. TableOK' /\ Evolves /\ proc'[p].state \notin {"running", "stopped"}
      BY <1>1, <1>2, <2>2, <2>3, DeliverKeeps
    <2>6. TreeOK(c, proc', born')
      BY <1>1, <2>5, TreeKept
    <2>7. Listing(c.todo, q)
      BY <1>3, <2>1, <2>2, <2>4, <2>6 DEF TreeOK, Alive
    <2>8. q = p
      BY <1>2, <2>4, <2>7
    <2>9. QED
      BY <2>1, <2>5, <2>8 DEF Alive
  <1>6. QED
    BY <1>4, <1>5

LEMMA ProcessReports ==
  ASSUME SignalInv, CallsOK, ProcessNext
  PROVE  MisdirectedOnlyByReuse' /\ KilledTreeIsGone'
  <1>1. CASE HostMoves
    BY <1>1, HostCalls, SilentIsRight
  <1>2. CASE \E w \in Workers, p \in Pids : Requests(w, p)
    BY <1>2, RequestShape, SilentIsRight DEF Called
  <1>3. ASSUME NEW w \in Workers, Signals(w)
        PROVE  MisdirectedOnlyByReuse' /\ KilledTreeIsGone'
    <2>1. CASE Scan(w) \/ Check(w)
      BY <2>1, ScanShape, CheckShape, TriedFailed, SilentIsRight DEF Goes
    <2>2. CASE PidfdOpen(w) \/ DoubleCheck(w)
      BY <2>2, OpenShape, DoubleShape, TriedFailed, SilentIsRight DEF Goes
    <2>3. CASE PidfdSend(w)
      <3>1. call[w].kind \in ProcKinds /\ call[w].pc = "send"
        BY <2>3, SendShape
      <3>2. SignalOK(call[w], proc, born)
        BY <3>1 DEF SignalInv, WorkerOK
      <3>3. Signalled(w, Head(call[w].todo)) \/ Tried(w, FALSE, 0)
        BY <2>3, <3>1, <3>2, SendShape DEF SignalOK
      <3>4. QED
        BY <3>1, <3>3, SignalledRight, TriedFailed
    <2>4. CASE Fallback(w)
      <3>1. /\ call[w].kind \in ProcKinds /\ call[w].pc = "fallback"
            /\ Signalled(w, Head(call[w].todo)) \/ Tried(w, FALSE, 0)
        BY <2>4, FallbackShape
      <3>2. QED
        BY <3>1, SignalledRight, TriedFailed
    <2>5. CASE UpdateTable(w)
      <3>1. /\ call[w].kind \in ProcKinds /\ call[w].pc = "table"
            /\ outcome'.hit = 0 /\ outcome'.call.kind = call[w].kind
        BY <2>5, TableShape
      <3>2. call[w].kind \notin KillKinds
        BY <3>1 DEF SignalInv, WorkerOK, SignalOK
      <3>3. QED
        BY <3>1, <3>2 DEF MisdirectedOnlyByReuse, KilledTreeIsGone, KillKinds
    <2>6. QED
      BY <1>3, <2>1, <2>2, <2>3, <2>4, <2>5 DEF Signals
  <1>4. QED
    BY <1>1, <1>2, <1>3, ProcessCases

----------------------------------------------------------------------------
\* The map of suspended processes: the inductive invariant.

\* Worker v has sent its signal to p, and has the map left to update.
AtTable(v, kind, p) == call[v].kind = kind /\ call[v].pid = p /\ call[v].pc = "table"

\* Worker v suspends or resumes p.
Freezing(v, p) == call[v].kind \in FreezeKinds /\ call[v].pid = p

OneKind(p) ==
  \A v, w \in Workers : Freezing(v, p) /\ Freezing(w, p) => call[v].kind = call[w].kind

\* Where no Suspend and Resume have overlapped: the calls on p are of one kind,
\* and the map is right about p but for the calls that are about to update it.
FrozenOK(p) ==
  /\ OneKind(p)
  /\ proc[p].state = "stopped" =>
       (\E e \in suspended : e.pid = p) \/ \E v \in Workers : AtTable(v, "process_suspend", p)
  /\ \A e \in suspended :
       e.pid = p /\ e.inst = proc[p].inst =>
         proc[p].state # "running" \/ \E v \in Workers : AtTable(v, "process_resume", p)
  /\ \A v \in Workers :
       AtTable(v, "process_suspend", p) /\ call[v].fd = proc[p].inst => proc[p].state # "running"
  /\ \A v \in Workers : AtTable(v, "process_resume", p) => proc[p].state # "stopped"

FreezeInv ==
  /\ \A e \in suspended : e.inst \in Nat /\ e.inst <= born
  /\ \A v \in Workers : call[v].pc = "table" => call[v].fd \in Nat /\ call[v].fd <= born
  /\ \A p \in Pids \ crossed : FrozenOK(p)

\* No call on a process begins, sends its signal or updates the map.
CallsStay ==
  \A v \in Workers :
    /\ call'[v].kind \in FreezeKinds => call[v].kind = call'[v].kind /\ call[v].pid = call'[v].pid
    /\ call'[v].pc = "table" <=> call[v].pc = "table"
    /\ call'[v].pc = "table" => /\ call[v].kind = call'[v].kind
                                /\ call[v].pid = call'[v].pid /\ call[v].fd = call'[v].fd

\* Processes are born and die; none is stopped or continued.
RowsLive ==
  \A q \in Pids : \/ proc'[q].inst = proc[q].inst /\ proc'[q].state = proc[q].state
                  \/ proc'[q].state \in {"zombie", "free"}
                  \/ proc'[q].inst \in Nat /\ proc'[q].inst > born /\ proc'[q].state = "running"

LEMMA FreezeMembers == "process_suspend" \in FreezeKinds /\ "process_resume" \in FreezeKinds
  BY DEF FreezeKinds

LEMMA FreezeStays ==
  ASSUME FreezeInv, CallsStay, RowsLive, born \in Nat, born' \in Nat, born <= born',
         UNCHANGED <<suspended, crossed>>
  PROVE  FreezeInv'
  <1>1. \A i \in Nat : i <= born => i <= born'
    BY SMT
  <1>2. /\ \A e \in suspended : e.inst \in Nat /\ e.inst <= born
        /\ \A v \in Workers : call[v].pc = "table" => call[v].fd \in Nat /\ call[v].fd <= born
    BY DEF FreezeInv
  <1>3. \A e \in suspended' : e.inst \in Nat /\ e.inst <= born'
    BY <1>1, <1>2
  <1>4. \A v \in Workers : call'[v].pc = "table" => call'[v].fd \in Nat /\ call'[v].fd <= born'
    BY <1>1, <1>2 DEF CallsStay
  <1>5. ASSUME NEW p \in Pids \ crossed PROVE FrozenOK(p)'
    <2>1. FrozenOK(p)
      BY DEF FreezeInv
    <2>2. \A v \in Workers, kind \in FreezeKinds : AtTable(v, kind, p)' <=> AtTable(v, kind, p)
      BY DEF CallsStay, AtTable
    <2>3. OneKind(p)'
      <3>1. \A v \in Workers : Freezing(v, p)' => Freezing(v, p) /\ call'[v].kind = call[v].kind
        BY DEF Freezing, CallsStay
      <3>2. QED
        BY <2>1, <3>1 DEF FrozenOK, OneKind
    <2>4. CASE proc'[p].inst = proc[p].inst /\ proc'[p].state = proc[p].state
      <3>1. \A v \in Workers : AtTable(v, "process_suspend", p)' => call'[v].fd = call[v].fd
        BY DEF CallsStay, AtTable
      <3>2. QED
        BY <2>1, <2>2, <2>3, <2>4, <3>1, FreezeMembers DEF FrozenOK
    <2>5. CASE proc'[p].state \in {"zombie", "free"}
      BY <2>3, <2>5 DEF FrozenOK
    <2>6. CASE proc'[p].inst \in Nat /\ proc'[p].inst > born /\ proc'[p].state = "running"
      <3>1. \A i \in Nat : i <= born => i # proc'[p].inst
        BY SMT, <2>6
      <3>2. \A e \in suspended' : e.inst # proc'[p].inst
        BY <3>1, <1>2
      <3>3. \A v \in Workers : AtTable(v, "process_suspend", p)' => call'[v].fd # proc'[p].inst
        BY <3>1, <1>2 DEF CallsStay, AtTable
      <3>4. QED
        BY <2>3, <2>6, <3>2, <3>3 DEF FrozenOK
    <2>7. QED
      BY <2>4, <2>5, <2>6 DEF RowsLive
  <1>6. QED
    BY <1>3, <1>4, <1>5 DEF FreezeInv

\* A call about p begins: the pid is crossed if one of the other kind is under way.
LEMMA FreezeBegins ==
  ASSUME FreezeInv, CallsOK, NEW w \in Workers, NEW p \in Pids, Requests(w, p)
  PROVE  FreezeInv'
  <1>1. PICK kind \in ProcKinds, ids \in {Identities(p), {<<None, 0>>}} :
           Called(w, kind, p, ids) /\ SignalCall(w, kind, p, ids)
    BY RequestShape
  <1>2. /\ \A v \in Workers \ {w} : call'[v] = call[v]
        /\ call'[w].kind = kind /\ call'[w].pid = p /\ call'[w].pc # "table"
        /\ call[w].kind = "none"
    BY <1>1 DEF Called, Moved
  <1>3. call[w].pc # "table"
    BY <1>2, KindsApart DEF CallsOK, CallOK, KindOK, FireKinds
  <1>4. /\ UNCHANGED <<proc, born, suspended>>
        /\ crossed' = crossed \cup
             {q \in {p} : \E v \in Workers \ {w} :
                            call[v].pid = q /\ {kind, call[v].kind} = FreezeKinds}
    BY <1>1 DEF SignalCall
  <1>5. ASSUME NEW q \in Pids \ crossed' PROVE FrozenOK(q)'
    <2>1. FrozenOK(q) /\ q \notin crossed
      BY <1>4 DEF FreezeInv
    <2>2. \A v \in Workers, k \in FreezeKinds : AtTable(v, k, q)' <=> AtTable(v, k, q)
      BY <1>2, <1>3 DEF AtTable
    <2>3. ASSUME NEW v \in Workers \ {w}, call[v].kind \in FreezeKinds, call[v].pid = q,
                 kind \in FreezeKinds, p = q
          PROVE  call[v].kind = kind
      <3>1. {kind, call[v].kind} # FreezeKinds
        <4>1. q \notin {r \in {p} : \E u \in Workers \ {w} :
                            call[u].pid = r /\ {kind, call[u].kind} = FreezeKinds}
          BY <1>4, <1>5
        <4>2. ~ \E u \in Workers \ {w} : call[u].pid = q /\ {kind, call[u].kind} = FreezeKinds
          BY <2>3, <4>1
        <4> DEFINE Cross(k) == {kind, k} = FreezeKinds
        <4>3. ~ \E u \in Workers \ {w} : call[u].pid = q /\ Cross(call[u].kind)
          BY <4>2
        <4> HIDE DEF Cross
        <4>4. ~ Cross(call[v].kind)
          BY <2>3, <4>3
        <4>5. QED
          BY <4>4 DEF Cross
      <3>2. CASE kind # call[v].kind
        <4>1. \/ kind = "process_suspend" /\ call[v].kind = "process_resume"
              \/ kind = "process_resume" /\ call[v].kind = "process_suspend"
          BY <2>3, <3>2 DEF FreezeKinds
        <4>2. {kind, call[v].kind} = FreezeKinds
          BY <4>1 DEF FreezeKinds
        <4>3. QED
          BY <3>1, <4>2
      <3>3. QED
        BY <3>2
    <2>4. OneKind(q)'
      <3>1. SUFFICES ASSUME NEW u \in Workers, NEW v \in Workers,
                            call'[u].kind \in FreezeKinds, call'[u].pid = q,
                            call'[v].kind \in FreezeKinds, call'[v].pid = q
                     PROVE  call'[u].kind = call'[v].kind
        BY DEF OneKind, Freezing
      <3>2. CASE u # w /\ v # w
        <4>1. call'[u] = call[u] /\ call'[v] = call[v]
          BY <3>2, <1>2
        <4>2. Freezing(u, q) /\ Freezing(v, q)
          BY <3>1, <4>1 DEF Freezing
        <4>3. call[u].kind = call[v].kind
          BY <2>1, <4>2 DEF FrozenOK, OneKind
        <4>4. QED
          BY <4>1, <4>3
      <3>3. CASE u = w /\ v # w
        BY <3>1, <3>3, <1>2, <2>3
      <3>4. CASE u # w /\ v = w
        BY <3>1, <3>4, <1>2, <2>3
      <3>5. QED
        BY <3>2, <3>3, <3>4
    <2>5. \A v \in Workers : AtTable(v, "process_suspend", q) => call'[v].fd = call[v].fd
      BY <1>2, <1>3 DEF AtTable
    <2>6. QED
      BY <1>4, <2>1, <2>2, <2>4, <2>5, FreezeMembers DEF FrozenOK
  <1>6. \A v \in Workers : call'[v].pc = "table" => call'[v].fd \in Nat /\ call'[v].fd <= born'
    BY <1>2, <1>4 DEF FreezeInv
  <1>7. QED
    BY <1>4, <1>5, <1>6 DEF FreezeInv

\* The signal of a Suspend or a Resume is out.
LEMMA FreezeSignalled ==
  ASSUME FreezeInv, SignalInv, NEW w \in Workers, call[w].kind \in FreezeKinds,
         call[w].pc \in {"send", "fallback"}, Signalled(w, call[w].pid)
  PROVE  FreezeInv'
  <1>1. PICK p \in Pids : p = call[w].pid
    <2>1. SignalOK(call[w], proc, born)
      BY DEF SignalInv, WorkerOK, ProcKinds
    <2>2. QED
      BY <2>1 DEF SignalOK
  <1>2. call[w].kind \notin KillKinds /\ TableOK
    BY DEF FreezeKinds, KillKinds, SignalInv
  <1>3. /\ Deliver(call[w].kind, p)
        /\ \A v \in Workers \ {w} : call'[v] = call[v]
        /\ SameBut(call[w], call'[w], {"pc", "fd"})
        /\ call'[w].pc = "table" /\ call'[w].fd = proc[p].inst
    BY <1>1, <1>2 DEF Signalled, Moved
  <1>4. call'[w].kind = call[w].kind /\ call'[w].pid = p
    BY <1>1, <1>3 DEF SameBut, Fields
  <1>5. /\ TableOK'
        /\ \A q \in Pids \ {p} : proc'[q].inst = proc[q].inst /\ proc'[q].state = proc[q].state
        /\ UNCHANGED <<born, suspended, crossed>>
    BY <1>2, <1>3, DeliverKeeps
  <1>6. proc[p].inst \in Nat /\ proc[p].inst <= born
    BY <1>2 DEF TableOK, RowOK
  <1>7. /\ call[w].kind = "process_suspend" => proc'[p].state # "running"
        /\ call[w].kind = "process_resume" => proc'[p].state # "stopped"
    <2>1. CASE ~ Alive(p)
      <3>1. UNCHANGED proc
        BY <1>3, <2>1 DEF Deliver
      <3>2. QED
        BY <2>1, <3>1 DEF Alive
    <2>2. CASE Alive(p)
      <3>1. PICK state \in {"running", "stopped"} :
              /\ proc' = [proc EXCEPT ![p].state = state]
              /\ state = IF call[w].kind = "process_suspend" THEN "stopped" ELSE "running"
        BY <1>2, <1>3, <2>2 DEF Deliver
      <3>2. proc'[p].state = state
        BY <1>2, <1>5, <2>2, <3>1, StateKeeps
      <3>3. QED
        BY <3>1, <3>2
    <2>3. QED
      BY <2>1, <2>2
  <1>8. \A v \in Workers, q \in Pids : Freezing(v, q)' => Freezing(v, q) /\ call'[v].kind = call[v].kind
    BY <1>1, <1>3, <1>4 DEF Freezing
  <1>9. \A q \in Pids : OneKind(q) => OneKind(q)'
    BY <1>8 DEF OneKind
  <1>10. ASSUME NEW q \in Pids \ crossed PROVE FrozenOK(q)'
    <2>1. FrozenOK(q) /\ OneKind(q)'
      BY <1>9 DEF FreezeInv, FrozenOK
    <2>2. CASE q # p
      <3>6. "process_suspend" \in FreezeKinds /\ "process_resume" \in FreezeKinds
        BY DEF FreezeKinds
      <3>1. \A v \in Workers, k \in FreezeKinds : AtTable(v, k, q)' <=> AtTable(v, k, q) /\ v # w
        BY <1>1, <1>3, <1>4, <2>2 DEF AtTable
      <3>2. \A v \in Workers, k \in FreezeKinds : AtTable(v, k, q) => v # w
        BY <1>1, <2>2 DEF AtTable
      <3>3. \A v \in Workers : v # w => call'[v].fd = call[v].fd
        BY <1>3
      <3>4. proc'[q].inst = proc[q].inst /\ proc'[q].state = proc[q].state /\ suspended' = suspended
        BY <1>5, <2>2
      <3>7. \A v \in Workers, k \in FreezeKinds : AtTable(v, k, q)' <=> AtTable(v, k, q)
        BY <3>1, <3>2
      <3>5. QED
        BY <2>1, <3>2, <3>3, <3>4, <3>6, <3>7 DEF FrozenOK
    <2>3. CASE q = p
      <3>1. Freezing(w, q)'
        BY <1>4, <2>3 DEF Freezing
      <3>2. ASSUME NEW v \in Workers, NEW k \in FreezeKinds, AtTable(v, k, q)'
            PROVE  k = call[w].kind
        <4>1. Freezing(v, q)' /\ call'[v].kind = k
          BY <3>2 DEF AtTable, Freezing
        <4>2. call'[v].kind = call'[w].kind
          BY <2>1, <3>1, <4>1 DEF OneKind
        <4>3. QED
          BY <4>1, <4>2, <1>4
      <3>3. "process_suspend" \in FreezeKinds /\ "process_resume" \in FreezeKinds
        BY DEF FreezeKinds
      <3>4. CASE call[w].kind = "process_suspend"
        <4>1. AtTable(w, "process_suspend", q)' /\ proc'[q].state # "running"
          BY <1>3, <1>4, <1>7, <2>3, <3>4 DEF AtTable
        <4>2. \A v \in Workers : ~ AtTable(v, "process_resume", q)'
          BY <3>2, <3>3, <3>4
        <4>3. QED
          BY <2>1, <4>1, <4>2 DEF FrozenOK
      <3>5. CASE call[w].kind = "process_resume"
        <4>1. AtTable(w, "process_resume", q)' /\ proc'[q].state # "stopped"
          BY <1>3, <1>4, <1>7, <2>3, <3>5 DEF AtTable
        <4>2. \A v \in Workers : ~ AtTable(v, "process_suspend", q)'
          BY <3>2, <3>3, <3>5
        <4>3. QED
          BY <2>1, <4>1, <4>2 DEF FrozenOK
      <3>6. QED
        BY <3>4, <3>5 DEF FreezeKinds
    <2>4. QED
      BY <2>2, <2>3
  <1>11. \A v \in Workers : call'[v].pc = "table" => call'[v].fd \in Nat /\ call'[v].fd <= born'
    BY <1>3, <1>5, <1>6 DEF FreezeInv
  <1>12. QED
    BY <1>5, <1>10, <1>11 DEF FreezeInv

\* The map is updated.
LEMMA FreezeListed ==
  ASSUME FreezeInv, SignalInv, CallsOK, NEW w \in Workers, UpdateTable(w)
  PROVE  FreezeInv'
  <1> DEFINE c == call[w]
             e0 == [pid |-> c.pid, inst |-> c.fd]
  <1>1. /\ c.kind \in ProcKinds /\ c.pc = "table"
        /\ Moved(w, ProcKinds) /\ call'[w] = Idle
        /\ UNCHANGED <<proc, born, crossed>>
        /\ suspended' = {e \in suspended : e.pid # c.pid} \cup
              IF c.kind = "process_suspend" THEN {e0} ELSE {}
    BY TableShape
  <1>2. /\ \A v \in Workers \ {w} : call'[v] = call[v]
        /\ call'[w].kind = "none" /\ call'[w].pc = "idle"
    BY <1>1, IdleShape DEF Moved
  <1>3. c.kind \in FreezeKinds
    BY <1>1 DEF SignalInv, WorkerOK, SignalOK, ProcKinds
  <1>4. e0.pid = c.pid /\ e0.inst = c.fd
    BY SMT
  <1>5. c.fd \in Nat /\ c.fd <= born
    BY <1>1 DEF FreezeInv
  <1> HIDE DEF e0
  <1>6. \A e \in suspended' : e.inst \in Nat /\ e.inst <= born'
    BY <1>1, <1>4, <1>5 DEF FreezeInv
  <1>7. \A v \in Workers : call'[v].pc = "table" => call'[v].fd \in Nat /\ call'[v].fd <= born'
    BY <1>1, <1>2 DEF FreezeInv
  <1>8. \A v \in Workers, q \in Pids, k \in FreezeKinds : AtTable(v, k, q)' <=> AtTable(v, k, q) /\ v # w
    BY <1>2 DEF AtTable, FreezeKinds
  <1>9. \A v \in Workers : v # w => call'[v].fd = call[v].fd
    BY <1>2
  <1>10. ASSUME NEW q \in Pids \ crossed PROVE FrozenOK(q)'
    <2>1. FrozenOK(q)
      BY DEF FreezeInv
    <2>2. OneKind(q)'
      <3>1. \A v \in Workers : Freezing(v, q)' => Freezing(v, q) /\ call'[v].kind = call[v].kind
        BY <1>2 DEF Freezing, FreezeKinds
      <3>2. QED
        BY <2>1, <3>1 DEF FrozenOK, OneKind
    <2>3. "process_suspend" \in FreezeKinds /\ "process_resume" \in FreezeKinds
      BY DEF FreezeKinds
    <2>4. proc'[q].inst = proc[q].inst /\ proc'[q].state = proc[q].state
      BY <1>1
    <2>5. CASE q # c.pid
      <3>1. \A e \in suspended' : e.pid = q => e \in suspended
        BY <1>1, <1>4, <2>5
      <3>2. \A e \in suspended : e.pid = q => e \in suspended'
        BY <1>1, <2>5
      <3>3. \A v \in Workers, k \in FreezeKinds : AtTable(v, k, q) => v # w
        BY <2>5 DEF AtTable
      <3>4. \A v \in Workers, k \in FreezeKinds : AtTable(v, k, q)' <=> AtTable(v, k, q)
        BY <3>3, <1>8
      <3>5. QED
        BY <1>9, <2>1, <2>2, <2>3, <2>4, <3>1, <3>2, <3>3, <3>4 DEF FrozenOK
    <2>6. CASE q = c.pid /\ c.kind = "process_suspend"
      <3>1. AtTable(w, "process_suspend", q)
        BY <1>1, <2>6 DEF AtTable
      <3>2. e0 \in suspended' /\ e0.pid = q /\ \A e \in suspended' : e.pid = q => e = e0
        BY <1>1, <1>4, <2>6
      <3>3. c.fd = proc[q].inst => proc[q].state # "running"
        BY <2>1, <3>1 DEF FrozenOK
      <3>4. QED
        BY <1>4, <1>8, <1>9, <2>1, <2>2, <2>3, <2>4, <3>2, <3>3 DEF FrozenOK
    <2>7. CASE q = c.pid /\ c.kind = "process_resume"
      <3>1. AtTable(w, "process_resume", q)
        BY <1>1, <2>7 DEF AtTable
      <3>2. \A e \in suspended' : e.pid # q
        BY <1>1, <2>7
      <3>3. proc[q].state # "stopped"
        BY <2>1, <3>1 DEF FrozenOK
      <3>4. QED
        BY <1>8, <1>9, <2>1, <2>2, <2>3, <2>4, <3>2, <3>3 DEF FrozenOK
    <2>8. QED
      BY <1>3, <2>5, <2>6, <2>7 DEF FreezeKinds
  <1>11. QED
    BY <1>1, <1>6, <1>7, <1>10 DEF FreezeInv

\* A call is about to update the map only if it is one on processes.
LEMMA TableIsProcess ==
  ASSUME NEW c, CallOK(c), c.pc = "table"
  PROVE  c.kind \in ProcKinds
  BY DEF CallOK, KindOK

LEMMA FrameStays ==
  ASSUME CallsOK, CallsOK', Frame(ProcKinds)
  PROVE  CallsStay
  <1>1. SUFFICES ASSUME NEW v \in Workers, call'[v] # call[v]
                 PROVE  /\ call'[v].kind \notin FreezeKinds
                        /\ call'[v].pc # "table" /\ call[v].pc # "table"
    BY DEF CallsStay
  <1>2. call[v].kind \notin ProcKinds /\ call'[v].kind \notin ProcKinds
    BY <1>1 DEF Frame
  <1>3. CallOK(call[v]) /\ CallOK(call'[v])
    BY DEF CallsOK
  <1>4. QED
    BY <1>2, <1>3, TableIsProcess DEF ProcKinds

\* A step within a call that is not at its map, before or after.
LEMMA WithinStays ==
  ASSUME NEW w \in Workers, Moved(w, ProcKinds), call[w].pc # "table", call'[w].pc # "table",
         \/ call'[w].kind \notin FreezeKinds
         \/ call'[w].kind = call[w].kind /\ call'[w].pid = call[w].pid
  PROVE  CallsStay
  <1>1. SUFFICES ASSUME NEW v \in Workers
                 PROVE  /\ call'[v].kind \in FreezeKinds =>
                             call[v].kind = call'[v].kind /\ call[v].pid = call'[v].pid
                        /\ call'[v].pc = "table" <=> call[v].pc = "table"
                        /\ call'[v].pc = "table" =>
                             /\ call[v].kind = call'[v].kind
                             /\ call[v].pid = call'[v].pid /\ call[v].fd = call'[v].fd
    BY DEF CallsStay
  <1>2. CASE v = w
    BY <1>2
  <1>3. CASE v # w
    BY <1>3 DEF Moved
  <1>4. QED
    BY <1>2, <1>3

LEMMA GoesStays ==
  ASSUME NEW w \in Workers, NEW pc \in ProcPcs \ {"table"}, NEW S, S \cap {"kind", "pid"} = {},
         call[w].pc # "table", Goes(w, pc, S)
  PROVE  CallsStay
  <1>1. call'[w].kind = call[w].kind /\ call'[w].pid = call[w].pid
    BY DEF Goes, SameBut, Fields
  <1>2. QED
    BY <1>1, WithinStays DEF Goes

LEMMA TriedStays ==
  ASSUME NEW w \in Workers, NEW ok, NEW hit, call[w].pc # "table", Tried(w, ok, hit)
  PROVE  CallsStay
  <1>1. CASE call'[w] = Idle
    BY <1>1, IdleShape, WithinStays DEF Tried, FreezeKinds
  <1>2. CASE /\ SameBut(call[w], call'[w], {"pc", "fd", "todo", "killed", "failed", "checked"})
             /\ call'[w].pc = "check"
    <2>1. call'[w].kind = call[w].kind /\ call'[w].pid = call[w].pid
      BY <1>2 DEF SameBut, Fields
    <2>2. QED
      BY <1>2, <2>1, WithinStays DEF Tried
  <1>3. QED
    BY <1>1, <1>2 DEF Tried

\* The host by itself stops nobody.
LEMMA HostLives ==
  ASSUME TableOK, HostMoves
  PROVE  RowsLive
  <1>1. ASSUME NEW p \in Pids, NEW q \in Pids, Fork(p, q) PROVE RowsLive
    <2>1. /\ \A r \in Pids \ {p} : proc'[r] = proc[r]
          /\ proc'[p].inst = born + 1 /\ proc'[p].state = "running"
      BY <1>1, ForkShape
    <2>2. proc'[p].inst \in Nat /\ proc'[p].inst > born
      BY SMT, <2>1 DEF TableOK
    <2>3. QED
      BY <2>1, <2>2 DEF RowsLive
  <1>2. ASSUME NEW p \in Pids, NEW prog, Exec(p, prog) PROVE RowsLive
    BY <1>2, ExecKeeps DEF RowsLive
  <1>3. ASSUME NEW p \in Pids, Exit(p) \/ Reap(p) PROVE RowsLive
    <2>1. PICK left \in {"zombie", "free"} : proc' = Dead(p, left)
      BY <1>3 DEF Exit, Reap
    <2>2. QED
      BY <2>1, DeadShape DEF RowsLive
  <1>4. QED
    BY <1>1, <1>2, <1>3 DEF HostMoves

\* Nor does a kill.
LEMMA KillLives ==
  ASSUME TableOK, NEW kind \in KillKinds, NEW p \in Pids, Deliver(kind, p)
  PROVE  RowsLive
  <1>1. CASE ~ Alive(p)
    BY <1>1 DEF Deliver, RowsLive
  <1>2. CASE Alive(p)
    <2>1. PICK left \in {"zombie", "free"} : proc' = Dead(p, left)
      BY <1>2 DEF Deliver
    <2>2. QED
      BY <2>1, DeadShape DEF RowsLive
  <1>3. QED
    BY <1>1, <1>2

LEMMA FreezeQuiet ==
  ASSUME FreezeInv, TableOK, CallsStay, UNCHANGED <<proc, born, suspended, crossed>>
  PROVE  FreezeInv'
  <1>1. RowsLive
    BY DEF RowsLive
  <1>2. born \in Nat /\ born' = born
    BY DEF TableOK
  <1>3. born' \in Nat /\ born <= born'
    BY SMT, <1>2
  <1>4. QED
    BY <1>1, <1>2, <1>3, FreezeStays

LEMMA FreezeSent ==
  ASSUME FreezeInv, SignalInv, NEW w \in Workers, call[w].kind \in ProcKinds,
         call[w].pc \in {"send", "fallback"}, Signalled(w, Head(call[w].todo))
  PROVE  FreezeInv'
  <1>1. SignalOK(call[w], proc, born) /\ TableOK /\ call[w].pc # "table"
    BY DEF SignalInv, WorkerOK
  <1>2. CASE call[w].kind \in KillKinds
    <2>1. PICK p \in Pids : p = Head(call[w].todo)
      BY <1>1, HeadShape DEF SignalOK
    <2>2. Deliver(call[w].kind, p) /\ Tried(w, TRUE, HitOf(p))
      BY <1>2, <2>1 DEF Signalled
    <2>3. RowsLive /\ CallsStay /\ Evolves /\ UNCHANGED <<suspended, crossed>>
      BY <1>1, <1>2, <2>2, KillLives, TriedStays, DeliverKeeps
    <2>4. QED
      BY <1>1, <2>3, FreezeStays DEF Evolves, TableOK
  <1>3. CASE call[w].kind \notin KillKinds
    <2>1. call[w].kind \in FreezeKinds
      BY <1>3 DEF ProcKinds
    <2>2. call[w].todo = <<call[w].pid>>
      BY <1>1, <1>3 DEF SignalOK, KillKinds
    <2>3. Head(call[w].todo) = call[w].pid
      BY SMT, <2>2
    <2>4. QED
      BY <2>1, <2>3, FreezeSignalled
  <1>4. QED
    BY <1>2, <1>3

LEMMA FreezeSignals ==
  ASSUME FreezeInv, SignalInv, CallsOK, NEW w \in Workers, Signals(w)
  PROVE  FreezeInv'
  <1> USE DEF processVars
  <1>0. TableOK
    BY DEF SignalInv
  <1>1. CASE Scan(w)
    <2>1. /\ call[w].pc = "scan" /\ Goes(w, "check", {"todo", "scanned"})
          /\ UNCHANGED <<proc, born, suspended, crossed>>
      BY <1>1, ScanShape
    <2>2. CallsStay
      BY <2>1, GoesStays DEF ProcPcs
    <2>3. QED
      BY <1>0, <2>1, <2>2, FreezeQuiet
  <1>2. CASE Check(w)
    <2>1. /\ call[w].pc = "check" /\ UNCHANGED <<proc, born, suspended, crossed>>
          /\ Tried(w, FALSE, 0) \/ Goes(w, "open", {"checked"})
      BY <1>2, CheckShape
    <2>2. CallsStay
      BY <2>1, GoesStays, TriedStays DEF ProcPcs
    <2>3. QED
      BY <1>0, <2>1, <2>2, FreezeQuiet
  <1>3. CASE PidfdOpen(w)
    <2>1. /\ call[w].pc = "open" /\ UNCHANGED <<proc, born, suspended, crossed>>
          /\ \/ Tried(w, FALSE, 0) \/ Goes(w, "fallback", {})
             \/ Goes(w, "double", {"fd"}) \/ Goes(w, "send", {"fd"})
      BY <1>3, OpenShape
    <2>2. CallsStay
      BY <2>1, GoesStays, TriedStays DEF ProcPcs
    <2>3. QED
      BY <1>0, <2>1, <2>2, FreezeQuiet
  <1>4. CASE DoubleCheck(w)
    <2>1. /\ call[w].pc = "double" /\ UNCHANGED <<proc, born, suspended, crossed>>
          /\ Tried(w, FALSE, 0) \/ Goes(w, "send", {})
      BY <1>4, DoubleShape
    <2>2. CallsStay
      BY <2>1, GoesStays, TriedStays DEF ProcPcs
    <2>3. QED
      BY <1>0, <2>1, <2>2, FreezeQuiet
  <1>5. ASSUME call[w].pc # "table", UNCHANGED processVars, Tried(w, FALSE, 0) PROVE FreezeInv'
    BY <1>0, <1>5, TriedStays, FreezeQuiet
  <1>6. CASE PidfdSend(w)
    <2>1. /\ call[w].kind \in ProcKinds /\ call[w].pc = "send"
          /\ \/ \E p \in Pids : proc[p].inst = call[w].fd /\ Signalled(w, p)
             \/ UNCHANGED processVars /\ Tried(w, FALSE, 0)
      BY <1>6, SendShape
    <2>2. SignalOK(call[w], proc, born)
      BY <2>1 DEF SignalInv, WorkerOK
    <2>3. \A p \in Pids : proc[p].inst = call[w].fd => p = Head(call[w].todo)
      BY <2>1, <2>2 DEF SignalOK
    <2>4. QED
      BY <1>5, <2>1, <2>3, FreezeSent
  <1>7. CASE Fallback(w)
    <2>1. /\ call[w].kind \in ProcKinds /\ call[w].pc = "fallback"
          /\ \/ Signalled(w, Head(call[w].todo))
             \/ UNCHANGED processVars /\ Tried(w, FALSE, 0)
      BY <1>7, FallbackShape
    <2>2. QED
      BY <1>5, <2>1, FreezeSent
  <1>8. CASE UpdateTable(w)
    BY <1>8, FreezeListed
  <1>9. QED
    BY <1>1, <1>2, <1>3, <1>4, <1>6, <1>7, <1>8 DEF Signals

LEMMA FreezeKeeps ==
  ASSUME FreezeInv, SignalInv, CallsOK, ProcessNext
  PROVE  FreezeInv'
  <1>1. CASE HostMoves
    <2>1. RowsLive /\ Evolves /\ UNCHANGED <<call, suspended, crossed>>
      BY <1>1, HostLives, HostKeeps, HostCalls DEF SignalInv
    <2>2. CallsStay
      BY <2>1 DEF CallsStay
    <2>3. QED
      BY <2>1, <2>2, FreezeStays DEF SignalInv, TableOK, Evolves
  <1>2. QED
    BY <1>1, ProcessCases, FreezeBegins, FreezeSignals

\* The map is right wherever no call on the pid is under way.
LEMMA FreezeImplies ==
  ASSUME FreezeInv
  PROVE  FrozenTableIsTrue
  <1>1. SUFFICES ASSUME NEW p \in Pids \ crossed,
                        \A w \in Workers : ~ (InCall(w, FreezeKinds) /\ call[w].pid = p)
                 PROVE  /\ proc[p].state = "stopped" => \E e \in suspended : e.pid = p
                        /\ \A e \in suspended :
                             e = [pid |-> p, inst |-> proc[p].inst] => proc[p].state # "running"
    BY DEF FrozenTableIsTrue
  <1>2. FrozenOK(p)
    BY DEF FreezeInv
  <1>3. \A w \in Workers : ~ AtTable(w, "process_suspend", p) /\ ~ AtTable(w, "process_resume", p)
    BY <1>1, FreezeMembers DEF AtTable, InCall
  <1>4. proc[p].state = "stopped" => \E e \in suspended : e.pid = p
    BY <1>2, <1>3 DEF FrozenOK
  <1>5. ASSUME NEW e \in suspended, e = [pid |-> p, inst |-> proc[p].inst]
        PROVE  proc[p].state # "running"
    <2>1. e.pid = p /\ e.inst = proc[p].inst
      BY <1>5
    <2>2. QED
      BY <1>2, <1>3, <2>1 DEF FrozenOK
  <1>6. QED
    BY <1>4, <1>5

LEMMA ScanKeeps ==
  ASSUME Counting, SignalInv, CallsOK, NEW w \in Workers, Scan(w)
  PROVE  SignalInv'
  <1> DEFINE c == call[w]
             d == call'[w]
  <1>1. /\ c.kind \in ProcKinds /\ c.pc = "scan"
        /\ Goes(w, "check", {"todo", "scanned"})
        /\ d.todo \in KillOrders(c.pid)
        /\ d.scanned = {proc[q].inst : q \in {r \in Descendants(c.pid) : Present(r)}}
        /\ UNCHANGED processVars
    BY ScanShape
  <1>2. UNCHANGED <<proc, born>> /\ TableOK
    BY <1>1 DEF processVars, SignalInv
  <1>3. TableOK' /\ Evolves
    BY <1>2, TableStays
  <1>4. SignalOK(c, proc, born) /\ c.pid \in Pids
    BY <1>1 DEF SignalInv, WorkerOK, SignalOK
  <1>5. /\ d.kind = c.kind /\ d.pid = c.pid /\ d.ticks = c.ticks /\ d.target = c.target
        /\ d.checked = c.checked /\ d.pc = "check"
    BY <1>1 DEF Goes, SameBut, Fields
  <1>6. /\ d.todo \in Seq(Pids) /\ d.todo # <<>>
        /\ \A p \in Descendants(c.pid) : Listing(d.todo, p)
    BY <1>1, <1>2, <1>4, OrderComplete
  <1>7. TreeOK(d, proc', born')
    <2>1. ASSUME NEW i \in d.scanned PROVE i \in Nat \ {0} /\ i <= born
      <3>1. PICK q \in Descendants(c.pid) : Present(q) /\ i = proc[q].inst
        BY <1>1, <2>1
      <3>2. RowOK(q)
        BY <3>1, <1>2 DEF Descendants, TableOK
      <3>3. QED
        BY <3>1, <3>2 DEF RowOK, Present
    <2>2. ASSUME NEW p \in Pids, proc[p].inst \in d.scanned, proc[p].state \in {"running", "stopped"}
          PROVE  Listing(d.todo, p)
      <3>1. PICK q \in Descendants(c.pid) : Present(q) /\ proc[p].inst = proc[q].inst
        BY <1>1, <2>2
      <3>2. q \in Pids /\ proc[p].inst # 0
        BY <3>1, <2>2, <1>2 DEF Descendants, TableOK, RowOK
      <3>3. p = q
        BY <3>1, <3>2, <1>2 DEF TableOK
      <3>4. QED
        BY <3>1, <3>3, <1>6
    <2>3. QED
      BY <2>1, <2>2, <1>2 DEF TreeOK
  <1>8. SignalOK(d, proc', born')
    <2>1. c.kind = "kill_tree" /\ c.checked = 0
      BY <1>1, <1>4 DEF SignalOK
    <2>2. QED
      BY <1>2, <1>4, <1>5, <1>6, <2>1 DEF SignalOK
  <1>9. WorkerOK(d, proc', born')
    BY <1>7, <1>8 DEF WorkerOK
  <1>10. QED
    BY <1>1, <1>3, <1>9, SignalMoved DEF Goes

LEMMA ProcessKeeps ==
  ASSUME Counting, SignalInv, CallsOK, ProcessNext
  PROVE  SignalInv'
  <1>1. CASE HostMoves
    <2>1. TableOK' /\ Evolves /\ UNCHANGED call
      BY <1>1, HostKeeps, HostCalls DEF SignalInv
    <2>2. QED
      BY <2>1, SignalFrame DEF Frame
  <1>2. CASE \E w \in Workers, p \in Pids : Requests(w, p)
    BY <1>2, RequestKeeps
  <1>3. CASE \E w \in Workers : Signals(w)
    BY <1>3, ScanKeeps, CheckKeeps, OpenKeeps, DoubleKeeps, SendKeeps, FallbackKeeps,
       TableKeeps DEF Signals
  <1>4. QED
    BY <1>1, <1>2, <1>3, ProcessCases

----------------------------------------------------------------------------
\* The components together.

\* init and its descendants, before anything is forked.
LEMMA TableBegins ==
  ASSUME Counting, ProcessInit
  PROVE  TableOK
  <1>1. PICK n \in Nat : Pids = 2 .. n
    BY PidsRange
  <1>2. born \in Nat /\ \A p \in Pids : p \in Nat /\ p # 0 /\ p <= born
    <2>1. 2 \in Int /\ n \in Int
      BY SMT
    <2>2. Cardinality(Pids) = IF 2 > n THEN 0 ELSE n - 2 + 1
      BY <1>1, <2>1, CountRange
    <2>3. born = Cardinality(Pids) + 1
      BY DEF ProcessInit
    <2>4. QED
      BY SMT, <1>1, <2>2, <2>3
  <1>3. PICK prog \in Programs,
             live \in {S \in SUBSET Pids : \A p \in S, q \in Pids : q < p => q \in S} :
          proc = [p \in Pids |-> IF p \in live
                    THEN [inst |-> p, prog |-> prog, parent |-> p - 1, state |-> "running"]
                    ELSE NoProc]
    BY DEF ProcessInit
  <1>4. \A p \in live : /\ IsRow(proc[p]) /\ proc[p].inst = p /\ proc[p].parent = p - 1
                        /\ proc[p].state = "running"
    <2>1. SUFFICES ASSUME NEW p \in live
                   PROVE  /\ IsRow(proc[p]) /\ proc[p].inst = p /\ proc[p].parent = p - 1
                          /\ proc[p].state = "running"
      OBVIOUS
    <2>2. proc[p] = [inst |-> p, prog |-> prog, parent |-> p - 1, state |-> "running"]
      BY <1>3
    <2>3. QED
      BY SMT, <2>2 DEF IsRow
  <1>5. \A p \in Pids \ live : IsRow(proc[p]) /\ proc[p].inst = 0 /\ proc[p].state = "free"
    BY SMT, <1>3 DEF NoProc, IsRow
  <1>6. ASSUME NEW p \in Pids PROVE RowOK(p)
    <2>1. CASE p \in live
      <3>1. p \in Nat /\ p # 0 /\ p <= born
        BY <1>2
      <3>2. ASSUME p - 1 \in Pids PROVE p - 1 \in live /\ p - 1 < p
        <4>1. p - 1 < p
          BY SMT, <3>1
        <4>2. QED
          BY <1>3, <2>1, <3>2, <4>1
      <3>3. QED
        BY <1>4, <2>1, <3>1, <3>2 DEF RowOK, Present, States
    <2>2. CASE p \notin live
      <3>1. 0 \in Nat /\ 0 <= born
        BY SMT, <1>2
      <3>2. QED
        BY <1>5, <2>2, <3>1 DEF RowOK, Present, States
    <2>3. QED
      BY <2>1, <2>2
  <1>7. ASSUME NEW p \in Pids, NEW q \in Pids, proc[p].inst = proc[q].inst, p # q
        PROVE  proc[p].inst = 0
    <2>1. CASE p \in live /\ q \in live
      BY <1>4, <1>7, <2>1
    <2>2. CASE p \notin live \/ q \notin live
      BY <1>5, <1>7, <2>2
    <2>3. QED
      BY <2>1, <2>2
  <1>8. DOMAIN proc = Pids
    BY <1>3
  <1>9. QED
    BY <1>2, <1>6, <1>7, <1>8 DEF TableOK

\* Two sets with one element between them.
LEMMA OneBetween ==
  ASSUME Counting, NEW A, NEW B, NEW x, (A = {x} /\ B = {}) \/ (A = {} /\ B = {x})
  PROVE  Cardinality(A) + Cardinality(B) = 1
  <1>1. Cardinality({x}) = 1 /\ Cardinality({}) = 0
    BY DEF Counting
  <1>2. 1 + 0 = 1 /\ 0 + 1 = 1
    BY SMT
  <1>3. QED
    BY <1>1, <1>2

\* The two promises about files are in the invariant.
LEMMA FileImplies ==
  ASSUME Counting, FileInv
  PROVE  KeptIsSealedAndListed /\ NothingVanishes
  <1>1. KeptIsSealedAndListed
    <2>1. ASSUME NEW e \in dir, HasMeta(meta, e.name) PROVE \E m \in Listed : m.name = e.name
      BY <2>1 DEF HasMeta, Listed, InDir
    <2>2. ASSUME NEW e \in dir, NEW w \in Workers, Keeps(call[w], e.name)
          PROVE  InCall(w, {"quarantine"}) /\ call[w].entry = e.name
      BY <2>2 DEF Keeps, InCall
    <2>3. QED
      BY <2>1, <2>2 DEF KeptIsSealedAndListed, FileInv, SealInv, Sealed
  <1>2. ASSUME NEW i \in DOMAIN inode, i \notin unlinked
        PROVE  Cardinality({f \in Files : at[f] = i}) + Cardinality({e \in dir : e.inode = i}) = 1
    <2>1. i \in 1 .. Len(inode) /\ i # 0
      <3>1. DOMAIN inode = 1 .. Len(inode) /\ Len(inode) \in Nat
        BY SequenceLength DEF FileInv, PlacesInv
      <3>2. QED
        BY <3>1, Numbers
    <2>2. (\E f \in Files : at[f] = i) \/ (\E e \in dir : e.inode = i)
      BY <1>2, <2>1 DEF FileInv, PlacesInv
    <2>3. \A f \in Files, e \in dir : at[f] # e.inode
      BY DEF FileInv, PlacesInv
    <2>4. CASE \E f \in Files : at[f] = i
      <3>1. PICK f \in Files : at[f] = i
        BY <2>4
      <3>2. \A g \in Files : at[g] = i => g = f
        BY <2>1, <3>1 DEF FileInv, PlacesInv
      <3>3. {g \in Files : at[g] = i} = {f} /\ {e \in dir : e.inode = i} = {}
        BY <2>3, <3>1, <3>2
      <3>4. QED
        BY <3>3, OneBetween
    <2>5. CASE \E e \in dir : e.inode = i
      <3>1. PICK x \in dir : x.inode = i
        BY <2>5
      <3>2. \A e \in dir : e.inode = i => e = x
        BY <3>1 DEF FileInv, PlacesInv
      <3>3. {g \in Files : at[g] = i} = {} /\ {e \in dir : e.inode = i} = {x}
        BY <2>3, <3>1, <3>2
      <3>4. QED
        BY <3>3, OneBetween
    <2>6. QED
      BY <2>2, <2>4, <2>5
  <1>3. QED
    BY <1>1, <1>2 DEF NothingVanishes

\* Processes and the firewall leave the count of calls on files alone.
LEMMA BeginCounts ==
  ASSUME DOMAIN calls = Components, NEW w, NEW c, NEW k \in {"process", "firewall"}, Begin(w, k, c)
  PROVE  CountsStay
  BY DEF Begin, CountsStay, Components

LEMMA ProcessCounts ==
  ASSUME DOMAIN calls = Components, CallsOK, ProcessNext
  PROVE  CountsStay
  <1>1. CASE UNCHANGED calls
    BY <1>1 DEF CountsStay
  <1>2. ASSUME NEW w \in Workers, NEW p \in Pids, Requests(w, p) PROVE CountsStay
    <2>1. PICK kind \in ProcKinds, ids \in {Identities(p), {<<None, 0>>}} : SignalCall(w, kind, p, ids)
      BY <1>2, RequestShape
    <2>2. \E c : Begin(w, "process", c)
      BY <2>1 DEF SignalCall
    <2>3. QED
      BY <2>2, BeginCounts
  <1>3. ASSUME NEW w \in Workers, Signals(w) PROVE UNCHANGED calls
    <2>1. \A ok, hit : Attempted(w, ok, hit) => UNCHANGED calls
      BY DEF Attempted, Return
    <2>2. \A p : Sent(w, p) => UNCHANGED calls
      BY <2>1 DEF Sent
    <2>3. Scan(w) \/ Check(w) \/ PidfdOpen(w) \/ DoubleCheck(w) => UNCHANGED calls
      BY <2>1 DEF Scan, Check, PidfdOpen, DoubleCheck, Step
    <2>4. PidfdSend(w) \/ Fallback(w) \/ UpdateTable(w) => UNCHANGED calls
      BY <2>1, <2>2 DEF PidfdSend, Fallback, UpdateTable, Return
    <2>5. QED
      BY <1>3, <2>3, <2>4 DEF Signals
  <1>4. QED
    BY <1>1, <1>2, <1>3, ProcessCases, HostCalls

LEMMA FireCounts ==
  ASSUME DOMAIN calls = Components, FirewallNext
  PROVE  CountsStay
  <1>1. CASE UNCHANGED calls
    BY <1>1 DEF CountsStay
  <1>2. \A w, kind : FirewallCall(w, kind) => CountsStay
    <2>1. SUFFICES ASSUME NEW w, NEW kind, FirewallCall(w, kind) PROVE CountsStay
      OBVIOUS
    <2>2. \E c : Begin(w, "firewall", c)
      BY <2>1 DEF FirewallCall
    <2>3. QED
      BY <2>2, BeginCounts
  <1>3. \A w : DryRun(w) \/ RunCommand(w) \/ Rollback(w) => UNCHANGED calls
    BY DEF DryRun, RunCommand, Rollback, Return, Step
  <1>4. QED
    BY <1>1, <1>2, <1>3
       DEF FirewallNext, ApplyToNetwork, IsolateHandler, RestoreNetworkHandler

\* The inductive invariant.
ResponderInv ==
  /\ CallsOK
  /\ SignalInv /\ FreezeInv /\ MisdirectedOnlyByReuse /\ KilledTreeIsGone
  /\ FileInv
  /\ FireInv /\ IsolationReported

LEMMA ResponderBegins ==
  ASSUME Counting
  PROVE  Init => ResponderInv
  <1> SUFFICES ASSUME Init PROVE ResponderInv
    BY SMT
  <1>1. CallsInit /\ ProcessInit /\ FileInit /\ FirewallInit
    BY DEF Init
  <1>2. /\ DOMAIN call = Workers /\ outcome = Silent
        /\ \A w \in Workers : call[w] = Idle /\ call[w].kind = "none" /\ call[w].pc = "idle"
    BY <1>1, IdleShape DEF CallsInit
  <1>3. CallsOK
    BY <1>2, IdleShape DEF CallsOK, CallOK, KindOK
  <1>4. SignalInv
    BY <1>1, <1>2, TableBegins, KindsApart DEF SignalInv, WorkerOK
  <1>5. FreezeInv
    <2>1. suspended = {} /\ crossed = {}
      BY <1>1 DEF ProcessInit
    <2>2. \A p \in Pids : proc[p].state # "stopped"
      <3>1. PICK prog \in Programs, live \in SUBSET Pids :
              proc = [p \in Pids |-> IF p \in live
                        THEN [inst |-> p, prog |-> prog, parent |-> p - 1, state |-> "running"]
                        ELSE NoProc]
        BY <1>1 DEF ProcessInit
      <3>2. \A p \in Pids : proc[p].state = "running" \/ proc[p].state = "free"
        BY <3>1 DEF NoProc
      <3>3. QED
        BY <3>2
    <2>3. \A p \in Pids, k \in FreezeKinds, v \in Workers : ~ AtTable(v, k, p)
      BY <1>2 DEF AtTable
    <2>4. \A p \in Pids : OneKind(p)
      BY <1>2 DEF OneKind, Freezing, FreezeKinds
    <2>5. QED
      BY <1>2, <2>1, <2>2, <2>3, <2>4, FreezeMembers DEF FreezeInv, FrozenOK
  <1>6. MisdirectedOnlyByReuse /\ KilledTreeIsGone
    BY <1>2, SilentShape DEF MisdirectedOnlyByReuse, KilledTreeIsGone
  <1>7. QED
    BY <1>1, <1>3, <1>4, <1>5, <1>6, FileBegins, FireBegins DEF ResponderInv

\* A step of another component leaves what is said of processes.
LEMMA ProcessFrame ==
  ASSUME SignalInv, FreezeInv, CallsOK, CallsOK', Frame(ProcKinds), UNCHANGED processVars,
         outcome'.hit = 0, outcome'.call.kind # "kill_tree"
  PROVE  SignalInv' /\ FreezeInv' /\ MisdirectedOnlyByReuse' /\ KilledTreeIsGone'
  <1>1. UNCHANGED <<proc, born, suspended, crossed>>
    BY DEF processVars
  <1>2. TableOK' /\ Evolves
    BY <1>1, TableStays DEF SignalInv
  <1>3. SignalInv'
    BY <1>2, SignalFrame
  <1>4. CallsStay /\ RowsLive
    BY <1>1, FrameStays DEF RowsLive
  <1>5. FreezeInv'
    BY <1>1, <1>2, <1>4, FreezeStays DEF SignalInv, TableOK, Evolves
  <1>6. QED
    BY <1>3, <1>5 DEF MisdirectedOnlyByReuse, KilledTreeIsGone

LEMMA StillCalls ==
  ASSUME CallsOK, UNCHANGED call, NEW kinds
  PROVE  CallsOK' /\ Frame(kinds)
  <1>1. CallsOK'
    BY DEF CallsOK
  <1>2. Frame(kinds)
    BY DEF Frame, CallsOK
  <1>3. QED
    BY <1>1, <1>2

LEMMA ProcessSteps ==
  ASSUME Counting, ResponderInv, ProcessNext, UNCHANGED <<fileVars, firewallVars>>
  PROVE  ResponderInv'
  <1>1. CallsOK /\ SignalInv /\ FreezeInv /\ FileInv /\ FireInv
    BY DEF ResponderInv
  <1>2. /\ CallsOK' /\ Frame(FileKinds) /\ Frame(FireKinds)
        /\ outcome'.call.kind \in ProcKinds \cup {"none"} /\ UNCHANGED host
    <2>1. CASE UNCHANGED <<call, host>> /\ outcome' = Silent
      BY <1>1, <2>1, StillCalls, SilentShape, IdleShape
    <2>2. CASE \E w \in Workers : Moved(w, ProcKinds)
      <3>1. PICK w \in Workers : Moved(w, ProcKinds)
        BY <2>2
      <3>2. outcome'.call.kind \in ProcKinds \cup {"none"} /\ UNCHANGED host
        BY <3>1 DEF Moved
      <3>3. QED
        BY <1>1, <3>1, <3>2, MovedOK, MovedFrame, KindsDisjoint
    <2>3. QED
      BY <1>1, <2>1, <2>2, ProcessMoves
  <1>3. CountsStay
    BY <1>1, ProcessCounts DEF FileInv, NamesInv
  <1>4. FileInv'
    BY <1>1, <1>2, <1>3, FileFrame
  <1>5. outcome'.call.kind # "network_isolate"
    BY <1>2, KindsApart
  <1>6. FireInv' /\ IsolationReported'
    BY <1>1, <1>2, <1>5, FireFrame
  <1>7. SignalInv' /\ FreezeInv' /\ MisdirectedOnlyByReuse' /\ KilledTreeIsGone'
    BY <1>1, ProcessKeeps, FreezeKeeps, ProcessReports
  <1>8. QED
    BY <1>2, <1>4, <1>6, <1>7 DEF ResponderInv

LEMMA FilesStep ==
  ASSUME ResponderInv, FileNext, UNCHANGED <<processVars, firewallVars>>
  PROVE  ResponderInv'
  <1>1. CallsOK /\ SignalInv /\ FreezeInv /\ FileInv /\ FireInv
    BY DEF ResponderInv
  <1>2. /\ CallsOK' /\ Frame(ProcKinds) /\ Frame(FireKinds)
        /\ outcome'.hit = 0 /\ outcome'.call.kind \in FileKinds \cup {"none"} /\ UNCHANGED host
    <2>1. CASE UNCHANGED <<call, host>> /\ outcome' = Silent
      BY <1>1, <2>1, StillCalls, SilentShape, IdleShape
    <2>2. CASE \E w \in Workers : FilesMove(w)
      <3>1. PICK w \in Workers : Moved(w, FileKinds) /\ outcome'.hit = 0
        BY <2>2 DEF FilesMove
      <3>2. outcome'.call.kind \in FileKinds \cup {"none"} /\ UNCHANGED host
        BY <3>1 DEF Moved
      <3>3. QED
        BY <1>1, <3>1, <3>2, MovedOK, MovedFrame, KindsDisjoint
    <2>3. QED
      BY <1>1, <2>1, <2>2, FileKeeps
  <1>3. outcome'.call.kind # "network_isolate" /\ outcome'.call.kind # "kill_tree"
    BY <1>2 DEF FileKinds
  <1>4. SignalInv' /\ FreezeInv' /\ MisdirectedOnlyByReuse' /\ KilledTreeIsGone'
    BY <1>1, <1>2, <1>3, ProcessFrame
  <1>5. FireInv' /\ IsolationReported'
    BY <1>1, <1>2, <1>3, FireFrame
  <1>6. FileInv'
    BY <1>1, FileKeeps
  <1>7. QED
    BY <1>2, <1>4, <1>5, <1>6 DEF ResponderInv

LEMMA FireStep ==
  ASSUME ResponderInv, FirewallNext, UNCHANGED <<processVars, fileVars>>
  PROVE  ResponderInv'
  <1>1. CallsOK /\ SignalInv /\ FreezeInv /\ FileInv /\ FireInv
    BY DEF ResponderInv
  <1>2. FireInv' /\ IsolationReported' /\ FireMoves
    BY <1>1, FireKeeps DEF FireKept
  <1>3. /\ CallsOK' /\ Frame(ProcKinds) /\ Frame(FileKinds)
        /\ outcome'.hit = 0 /\ outcome'.call.kind # "kill_tree"
    BY <1>2 DEF FireMoves, FireKinds
  <1>4. SignalInv' /\ FreezeInv' /\ MisdirectedOnlyByReuse' /\ KilledTreeIsGone'
    BY <1>1, <1>3, ProcessFrame
  <1>5. CountsStay
    BY <1>1, FireCounts DEF FileInv, NamesInv
  <1>6. FileInv'
    BY <1>1, <1>3, <1>5, FileFrame
  <1>7. QED
    BY <1>2, <1>3, <1>4, <1>6 DEF ResponderInv

LEMMA RestartSteps ==
  ASSUME ResponderInv, Restart
  PROVE  ResponderInv'
  <1>1. CallsOK /\ SignalInv /\ FreezeInv /\ FileInv /\ FireInv
    BY DEF ResponderInv
  <1>2. /\ DOMAIN call' = Workers /\ outcome' = Silent
        /\ \A w \in Workers : call'[w] = Idle /\ call'[w].kind = "none" /\ call'[w].pc = "idle"
        /\ suspended' = {} /\ crossed' = Pids /\ UNCHANGED <<proc, born>>
    BY IdleShape DEF Restart
  <1>3. CallsOK'
    BY <1>2, IdleShape DEF CallsOK, CallOK, KindOK
  <1>4. TableOK'
    BY <1>1, <1>2, TableStays DEF SignalInv
  <1>5. SignalInv'
    BY <1>2, <1>4, KindsApart DEF SignalInv, WorkerOK
  <1>6. FreezeInv'
    BY <1>2 DEF FreezeInv
  <1>7. MisdirectedOnlyByReuse' /\ KilledTreeIsGone'
    BY <1>2, SilentIsRight
  <1>8. QED
    BY <1>1, <1>3, <1>5, <1>6, <1>7, FileRestarts, FireRestarts DEF ResponderInv

\* Nothing happens.
LEMMA ResponderStutters ==
  ASSUME ResponderInv, UNCHANGED vars
  PROVE  ResponderInv'
  <1>1. UNCHANGED <<host, call, outcome, calls, processVars, fileVars, firewallVars>>
    BY DEF vars, callVars
  <1>2. UNCHANGED <<proc, born, suspended, crossed, table, chains, rules, broken>>
    BY <1>1 DEF processVars, firewallVars
  <1>3. CallsOK /\ SignalInv /\ FreezeInv /\ FileInv /\ FireInv
    BY DEF ResponderInv
  <1>4. CallsOK' /\ Frame(ProcKinds) /\ Frame(FileKinds) /\ Frame(FireKinds)
    BY <1>1, <1>3, StillCalls
  <1>5. SignalInv' /\ FreezeInv'
    <2>1. TableOK' /\ Evolves /\ CallsStay /\ RowsLive
      BY <1>2, <1>3, <1>4, TableStays, FrameStays DEF SignalInv, RowsLive
    <2>2. QED
      BY <1>2, <1>3, <1>4, <2>1, SignalFrame, FreezeStays DEF SignalInv, TableOK, Evolves
  <1>6. CountsStay
    BY <1>1, <1>3 DEF CountsStay, FileInv, NamesInv
  <1>7. FileInv'
    BY <1>1, <1>3, <1>4, <1>6, FileFrame
  <1>8. FireInv'
    BY <1>1, <1>2, <1>3 DEF FireInv
  <1>9. MisdirectedOnlyByReuse' /\ KilledTreeIsGone' /\ IsolationReported'
    BY <1>1, <1>2
       DEF ResponderInv, MisdirectedOnlyByReuse, KilledTreeIsGone, IsolationReported, Alive
  <1>10. QED
    BY <1>4, <1>5, <1>7, <1>8, <1>9 DEF ResponderInv

LEMMA ResponderSteps ==
  ASSUME Counting
  PROVE  ResponderInv /\ [Next]_vars => ResponderInv'
  BY ProcessSteps, FilesStep, FireStep, RestartSteps, ResponderStutters DEF Next

LEMMA ResponderAlways ==
  ASSUME Counting
  PROVE  Spec => []ResponderInv
  <1>1. Init => ResponderInv
    BY ResponderBegins
  <1>2. ResponderInv /\ [Next]_vars => ResponderInv'
    BY ResponderSteps
  <1>3. QED
    BY <1>1, <1>2, PTL DEF Spec

----------------------------------------------------------------------------
\* The hypothesis on finite sets and numbers holds.
INSTANCE FiniteSetTheorems

LEMMA CountingHolds == Counting
<1>1. IsFiniteSet({}) /\ Cardinality({}) = 0
  BY FS_EmptySet
<1>2. \A x : Cardinality({x}) = 1
  BY FS_Singleton
<1>3. ASSUME NEW S, IsFiniteSet(S) PROVE Cardinality(S) \in Nat /\ (Cardinality(S) = 0 <=> S = {})
  BY <1>3, FS_CardinalityType, FS_EmptySet
<1>4. ASSUME NEW a \in Int, NEW b \in Int
      PROVE  IsFiniteSet(a .. b) /\ Cardinality(a .. b) = IF a > b THEN 0 ELSE b - a + 1
  BY FS_Interval
<1>5. ASSUME NEW S, NEW x, IsFiniteSet(S), x \notin S
      PROVE  IsFiniteSet(S \cup {x}) /\ Cardinality(S \cup {x}) = Cardinality(S) + 1
  BY <1>5, FS_AddElement
<1>6. ASSUME NEW S, NEW x, IsFiniteSet(S), x \in S
      PROVE  IsFiniteSet(S \ {x}) /\ Cardinality(S \ {x}) = Cardinality(S) - 1
  BY <1>6, FS_RemoveElement
<1>7. ASSUME NEW S, NEW T, IsFiniteSet(S), T \subseteq S
      PROVE  IsFiniteSet(T) /\ Cardinality(T) <= Cardinality(S)
  <2>1. T \in SUBSET S
    BY <1>7
  <2> QED BY <1>7, <2>1, FS_Subset
<1>8. ASSUME NEW S \in SUBSET Nat, S # {} PROVE \E x \in S : \A y \in S : x <= y
  <2> DEFINE R == OpToRel(<, Nat)
  <2>1. IsWellFoundedOn(R, Nat)
    BY NatLessThanWellFounded
  <2>2. \A x, y \in Nat : y < x => <<y, x>> \in R
    BY DEF OpToRel
  <2> HIDE DEF R
  <2>3. PICK x \in S : \A y \in S : ~ (<<y, x>> \in R)
    BY <1>8, <2>1, WFMin
  <2>4. \A y \in S : ~ (y < x)
    BY <2>2, <2>3
  <2>5. \A y \in S : x <= y
    BY SMT, <2>4
  <2> QED BY <2>5
<1> QED BY <1>1, <1>2, <1>3, <1>4, <1>5, <1>6, <1>7, <1>8 DEF Counting

LEMMA AlwaysKept == Spec => []ResponderInv
BY ResponderAlways, CountingHolds

\* However many goroutines respond at once and whatever the processes of the
\* host do meanwhile, a signal meant for one process reaches another only where
\* no identity was checked, none was given, or the pid was given to a later
\* process after sameProcess had passed (response.go, killtree.go, suspend.go).
THEOREM MisdirectedByReuseOnly == Spec => []MisdirectedOnlyByReuse
<1>1. ResponderInv => MisdirectedOnlyByReuse
  BY DEF ResponderInv
<1> QED BY <1>1, AlwaysKept, PTL

\* A kill_tree without errors leaves nobody alive of the tree it read, however
\* deep the tree is and in whatever order its members die or fork meanwhile
\* (KillTree in killtree.go, whose walk over /proc is one step here).
THEOREM TreeIsGone == Spec => []KilledTreeIsGone
<1>1. ResponderInv => KilledTreeIsGone
  BY DEF ResponderInv
<1> QED BY <1>1, AlwaysKept, PTL

\* The map behind /v0/process/frozen is right outside a Suspend or Resume of the
\* pid, overlapping ones and a restart: the signal and the update of the map are
\* two steps, and any number of other calls run between them (Suspend and Resume
\* in suspend.go).
THEOREM FrozenMapIsTrue == Spec => []FrozenTableIsTrue
<1>1. ResponderInv => FrozenTableIsTrue
  BY FreezeImplies DEF ResponderInv
<1> QED BY <1>1, AlwaysKept, PTL

\* Whatever is in the quarantine directory is sealed and listed, unless its call
\* is under way, failed or died, or a Restore has begun on it: no other call takes
\* its name, opens it to permissions or removes its sidecar (ApplyQuarantine and
\* Restore in quarantine.go, chmodNoFollow in response.go).
THEOREM QuarantineIsSealed == Spec => []KeptIsSealedAndListed
<1>1. ResponderInv => KeptIsSealedAndListed
  BY FileImplies, CountingHolds DEF ResponderInv
<1> QED BY <1>1, AlwaysKept, PTL

\* No file is lost or duplicated by Quarantine and Restore, however they alternate
\* with users who replace the file, unless a Restore writes over it (the renames of
\* ApplyQuarantine and Restore in quarantine.go).
THEOREM FilesAreKept == Spec => []NothingVanishes
<1>1. ResponderInv => NothingVanishes
  BY FileImplies, CountingHolds DEF ResponderInv
<1> QED BY <1>1, AlwaysKept, PTL

\* An isolation in force, or reported as applied, has all of its exceptions,
\* however the commands of several isolations, blocks and rollbacks alternate,
\* unless one of them failed, died or was crossed by a rollback (ApplyIsolate,
\* ApplyBlock and Rollback in nft.go).
THEOREM IsolationStaysWhole == Spec => []IsolationIsWhole
<1>1. ResponderInv => IsolationIsWhole
  BY FireImplies DEF ResponderInv
<1> QED BY <1>1, AlwaysKept, PTL
=============================================================================
