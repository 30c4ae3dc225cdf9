------------------------- MODULE PolicyEngineProofs -------------------------
(***************************************************************************)
(* The rule engine answers with the rule that its reference names, for     *)
(* every policy that Load accepts, every minute of the day and every view. *)
(***************************************************************************)
EXTENDS PolicyEngine, FiniteSetTheorems, WellFoundedInduction, TLAPS

\* A set of natural numbers that is not empty has a least element.
LEMMA Least ==
  ASSUME NEW S \in SUBSET Nat, S # {}
  PROVE  \E x \in S : \A y \in S : x <= y
<1> DEFINE R == OpToRel(<, Nat)
<1>1. IsWellFoundedOn(R, Nat)
  BY Zenon, NatLessThanWellFounded
<1>2. \A x, y \in Nat : y < x => <<y, x>> \in R
  BY Zenon DEF OpToRel
<1> HIDE DEF R
<1>3. PICK x \in S : \A y \in S : ~(<<y, x>> \in R)
  BY Zenon, <1>1, WFMin
<1>4. \A y \in S : ~(y < x)
  BY Zenon, <1>2, <1>3
<1>5. \A y \in S : x <= y
  BY <1>4
<1> QED BY Zenon, <1>5

IsMinute(c) == c \in Int /\ 0 <= c /\ c <= 1439

LEMMA ClockBounds ==
  ASSUME NEW c \in ClockTimes
  PROVE  IsMinute(c)
BY DEF ClockTimes, MinutesPerDay, IsMinute

\* A window is in force exactly when a clock shows one of its minutes, the
\* windows that run over midnight included.
THEOREM WindowByClock ==
  ASSUME NEW now \in ClockTimes, NEW tw, tw = << >> \/ tw \in ClockTimes \X ClockTimes
  PROVE  inWindow(now, tw) <=> ByClock(now, tw)
<1>1. CASE tw = << >>
  BY Zenon, <1>1 DEF inWindow, ByClock
<1>2. CASE tw # << >>
  <2>0. PICK a \in ClockTimes, b \in ClockTimes : tw = <<a, b>>
    BY SMTT(30), <1>2
  <2>1. IsMinute(a) /\ IsMinute(b)
    BY Zenon, ClockBounds
  <2>2. \A d \in Int : -1439 <= d /\ d <= 1439 => d % 1440 = IF d >= 0 THEN d ELSE d + 1440
    OBVIOUS
  <2>3. IsMinute(now)
    BY Zenon, ClockBounds
  <2>4. /\ now - a \in Int /\ -1439 <= now - a /\ now - a <= 1439
        /\ b - a \in Int /\ -1439 <= b - a /\ b - a <= 1439
    BY <2>1, <2>3 DEF IsMinute
  <2>5. PICK x, y : /\ x = (now - a) % 1440 /\ x = IF now - a >= 0 THEN now - a ELSE now - a + 1440
                    /\ y = (b - a) % 1440 /\ y = IF b - a >= 0 THEN b - a ELSE b - a + 1440
    BY <2>2, <2>4
  <2>6. ByClock(now, tw) <=> x <= y
    BY <1>2, <2>0, <2>5 DEF ByClock, MinutesPerDay
  <2>7. inWindow(now, tw) <=> \/ a <= b /\ now >= a /\ now <= b
                              \/ a > b /\ (now >= a \/ now <= b)
    BY Zenon, <1>2, <2>0 DEF inWindow
  <2>8. x <= y <=> \/ a <= b /\ now >= a /\ now <= b
                   \/ a > b /\ (now >= a \/ now <= b)
    BY <2>1, <2>3, <2>5 DEF IsMinute
  <2> QED BY Zenon, <2>6, <2>7, <2>8
<1> QED BY Zenon, <1>1, <1>2

----------------------------------------------------------------------------
(***************************************************************************)
(* The stable sort                                                         *)
(***************************************************************************)

\* Rule i comes before rule j.
Before(rules, i, j) ==
  \/ EffectivePriority(rules[i]) < EffectivePriority(rules[j])
  \/ EffectivePriority(rules[i]) = EffectivePriority(rules[j]) /\ i < j

IsOrder(rules, S, order) ==
  /\ order \in [1 .. Cardinality(S) -> S]
  /\ Range(order) = S
  /\ \A k, l \in DOMAIN order : k < l => Before(rules, order[k], order[l])

\* Places of rules whose priorities can be compared.
Sortable(rules, S) ==
  /\ IsFiniteSet(S)
  /\ S \subseteq Nat
  /\ \A i \in S : EffectivePriority(rules[i]) \in Nat

\* A set of places has one that comes before all others.
LEMMA FirstPlace ==
  ASSUME NEW rules, NEW S, Sortable(rules, S), S # {}
  PROVE  \E m \in S : \A i \in S \ {m} : Before(rules, m, i)
<1> DEFINE Pr(i) == EffectivePriority(rules[i])
           P == {Pr(i) : i \in S}
<1>1. P \in SUBSET Nat /\ P # {}
  BY Zenon DEF Sortable
<1>2. PICK p \in P : \A q \in P : p <= q
  BY Zenon, <1>1, Least
<1> DEFINE T == {i \in S : Pr(i) = p}
<1>3. T \in SUBSET Nat /\ T # {}
  BY Zenon, <1>2 DEF Sortable
<1>4. PICK m \in T : \A i \in T : m <= i
  BY Zenon, <1>3, Least
<1>5. m \in S /\ Pr(m) = p
  BY Zenon, <1>4
<1>6. ASSUME NEW i \in S \ {m}
      PROVE  Before(rules, m, i)
  <2>1. Pr(i) \in Nat /\ Pr(m) \in Nat /\ i \in Nat /\ m \in Nat /\ Pr(m) <= Pr(i)
    BY Zenon, <1>2, <1>5 DEF Sortable
  <2>2. Pr(i) = Pr(m) => m <= i
    BY Zenon, <1>4, <1>5
  <2>3. Pr(m) < Pr(i) \/ (Pr(m) = Pr(i) /\ m < i)
    <3> HIDE DEF Pr
    <3> QED BY <2>1, <2>2
  <2> QED BY Zenon, <2>3 DEF Before
<1> QED BY Zenon, <1>5, <1>6

\* An order of all places but the first becomes one of all places.
LEMMA Prepended ==
  ASSUME NEW rules, NEW S, Sortable(rules, S), NEW m \in S,
         \A i \in S \ {m} : Before(rules, m, i),
         NEW g, IsOrder(rules, S \ {m}, g)
  PROVE  \E f : IsOrder(rules, S, f)
<1> DEFINE n == Cardinality(S)
           f == [k \in 1 .. n |-> IF k = 1 THEN m ELSE g[k - 1]]
<1>1. n \in Nat /\ Cardinality(S \ {m}) = n - 1
  BY Zenon, FS_CardinalityType, FS_RemoveElement DEF Sortable
<1>2. n # 0
  BY Zenon, FS_EmptySet DEF Sortable
<1> HIDE DEF n
<1>3. /\ g \in [1 .. n - 1 -> S \ {m}]
      /\ Range(g) = S \ {m}
      /\ \A k, l \in 1 .. n - 1 : k < l => Before(rules, g[k], g[l])
  BY Zenon, <1>1 DEF IsOrder
<1>4. f[1] = m /\ \A k \in 2 .. n : k - 1 \in 1 .. n - 1 /\ f[k] = g[k - 1]
  BY <1>1, <1>2
<1>5. 1 \in 1 .. n /\ \A k \in 1 .. n : k = 1 \/ k \in 2 .. n
  BY <1>1, <1>2
<1>6. f \in [1 .. n -> S]
  BY Zenon, <1>3, <1>4, <1>5
<1>7. DOMAIN f = 1 .. n /\ DOMAIN g = 1 .. n - 1
  BY Zenon, <1>3
<1> HIDE DEF f
<1>8. Range(f) = S
  <2>1. Range(f) \subseteq S
    BY Zenon, <1>6, <1>7 DEF Range
  <2>2. ASSUME NEW i \in S
        PROVE  i \in Range(f)
    <3>1. CASE i = m
      BY Zenon, <1>4, <1>5, <1>7, <3>1 DEF Range
    <3>2. CASE i # m
      <4>1. PICK k \in 1 .. n - 1 : i = g[k]
        BY Zenon, <1>3, <1>7, <3>2 DEF Range
      <4>2. k + 1 \in 2 .. n /\ (k + 1) - 1 = k /\ k + 1 \in 1 .. n
        BY <1>1
      <4>3. f[k + 1] = i
        BY Zenon, <1>4, <4>1, <4>2
      <4> QED BY Zenon, <1>7, <4>2, <4>3 DEF Range
    <3> QED BY Zenon, <3>1, <3>2
  <2> QED BY Zenon, <2>1, <2>2
<1>9. ASSUME NEW k \in 1 .. n, NEW l \in 1 .. n, k < l
      PROVE  Before(rules, f[k], f[l])
  <2>1. l \in 2 .. n /\ l - 1 \in 1 .. n - 1
    BY <1>1, <1>9
  <2>2. f[l] = g[l - 1] /\ g[l - 1] \in S \ {m}
    BY Zenon, <1>3, <1>4, <2>1
  <2>3. CASE k = 1
    BY Zenon, <1>4, <2>2, <2>3
  <2>4. CASE k \in 2 .. n
    <3>1. k - 1 \in 1 .. n - 1 /\ k - 1 < l - 1
      BY <1>1, <1>9, <2>4
    <3>2. f[k] = g[k - 1]
      BY Zenon, <1>4, <2>4
    <3> QED BY Zenon, <1>3, <2>1, <2>2, <3>1, <3>2
  <2> QED BY Zenon, <1>5, <2>3, <2>4
<1> QED BY Zenon, <1>6, <1>7, <1>8, <1>9 DEF IsOrder, n

\* Every finite set of places has an order.
LEMMA OrderExists ==
  ASSUME NEW rules, NEW S, Sortable(rules, S)
  PROVE  \E f : IsOrder(rules, S, f)
<1> DEFINE Bad == {n \in Nat : \E T \in SUBSET S : Cardinality(T) = n /\ ~\E f : IsOrder(rules, T, f)}
<1> SUFFICES Bad = {}
  <2>1. Cardinality(S) \in Nat /\ S \in SUBSET S
    BY Zenon, FS_CardinalityType DEF Sortable
  <2> QED BY Zenon, <2>1
<1> SUFFICES ASSUME Bad # {}
             PROVE  FALSE
  BY Zenon
<1>1. Bad \in SUBSET Nat
  BY Zenon
<1>2. PICK n \in Bad : \A y \in Bad : n <= y
  <2> HIDE DEF Bad
  <2> QED BY Zenon, <1>1, Least
<1>3. PICK T \in SUBSET S : Cardinality(T) = n /\ ~\E f : IsOrder(rules, T, f)
  BY Zenon, <1>2
<1>4. Sortable(rules, T) /\ n \in Nat
  BY Zenon, <1>1, <1>2, FS_Subset DEF Sortable
<1>5. CASE T = {}
  <2> DEFINE e == [k \in 1 .. 0 |-> 0]
  <2>1. Cardinality(T) = 0 /\ 1 .. 0 = {}
    BY <1>5, FS_EmptySet
  <2>2. DOMAIN e = {} /\ e \in [1 .. Cardinality(T) -> T] /\ Range(e) = T
    BY Zenon, <1>5, <2>1 DEF Range
  <2> HIDE DEF e
  <2>3. IsOrder(rules, T, e)
    BY Zenon, <2>2 DEF IsOrder
  <2> QED BY Zenon, <1>3, <2>3
<1>6. CASE T # {}
  <2>1. PICK m \in T : \A i \in T \ {m} : Before(rules, m, i)
    BY Zenon, <1>4, <1>6, FirstPlace
  <2>2. Cardinality(T \ {m}) = n - 1 /\ IsFiniteSet(T \ {m})
    BY Zenon, <1>3, <1>4, FS_RemoveElement DEF Sortable
  <2>3. n - 1 \in Nat /\ ~(n <= n - 1)
    BY <1>4, <2>2, FS_CardinalityType
  <2>4. n - 1 \notin Bad
    <3> HIDE DEF Bad
    <3> QED BY Zenon, <1>2, <2>3
  <2>5. T \ {m} \in SUBSET S
    BY Zenon
  <2>6. \E g : IsOrder(rules, T \ {m}, g)
    BY Zenon, <2>2, <2>3, <2>4, <2>5
  <2> QED BY Zenon, <1>3, <1>4, <2>1, <2>6, Prepended
<1> QED BY Zenon, <1>5, <1>6

\* Ordered is such an order: Before is what its definition asks for.
LEMMA OrderedIsOrder ==
  ASSUME NEW rules, NEW S, Sortable(rules, S)
  PROVE  IsOrder(rules, S, Ordered(rules, S))
<1> DEFINE Sorted(order) ==
      /\ Range(order) = S
      /\ \A k, l \in DOMAIN order : k < l =>
           \/ EffectivePriority(rules[order[k]]) < EffectivePriority(rules[order[l]])
           \/ EffectivePriority(rules[order[k]]) = EffectivePriority(rules[order[l]])
              /\ order[k] < order[l]
<1>1. \A f : IsOrder(rules, S, f) <=> f \in [1 .. Cardinality(S) -> S] /\ Sorted(f)
  BY Zenon DEF IsOrder, Before
<1>2. Ordered(rules, S) = CHOOSE order \in [1 .. Cardinality(S) -> S] : Sorted(order)
  BY Zenon DEF Ordered
<1> HIDE DEF Sorted
<1> QED BY Zenon, <1>1, <1>2, OrderExists

----------------------------------------------------------------------------
(***************************************************************************)
(* The response                                                            *)
(***************************************************************************)

\* The places of the rules that evaluateAll returns.
Hits(p, now, view) ==
  {i \in DOMAIN p.rules : /\ p.rules[i].enabled
                          /\ inWindow(now, p.rules[i].window)
                          /\ matches(p.rules[i].match, view)}

Loaded(p) == Decoded(p) /\ Validate(p)

LEMMA LoadedRules ==
  ASSUME NEW p, Loaded(p)
  PROVE  /\ IsFiniteSet(DOMAIN p.rules) /\ DOMAIN p.rules \subseteq Nat
         /\ \A i \in DOMAIN p.rules :
              /\ EffectivePriority(p.rules[i]) \in Nat
              /\ DOMAIN p.rules[i] = RuleFields
              /\ \/ p.rules[i].window = << >>
                 \/ p.rules[i].window \in ClockTimes \X ClockTimes
<1>1. \A i \in DOMAIN p.rules : p.rules[i] \in Range(p.rules)
  BY Zenon DEF Range
<1>2. Len(p.rules) \in Nat /\ DOMAIN p.rules = 1 .. Len(p.rules)
  BY Zenon DEF Loaded, Decoded
<1>3. IsFiniteSet(DOMAIN p.rules) /\ DOMAIN p.rules \subseteq Nat
  <2>1. PICK n \in Nat : DOMAIN p.rules = 1 .. n
    BY Zenon, <1>2
  <2>2. 1 \in Int /\ n \in Int /\ 1 .. n \subseteq Nat
    OBVIOUS
  <2>3. IsFiniteSet(1 .. n)
    BY Zenon, <2>2, FS_Interval
  <2> QED BY Zenon, <2>1, <2>2, <2>3
<1>4. ASSUME NEW i \in DOMAIN p.rules
      PROVE  EffectivePriority(p.rules[i]) \in Nat
  <2>1. p.rules[i].priority \in 0 .. MaxPriority
    BY Zenon, <1>1 DEF Loaded, Validate
  <2>2. PICK q \in 0 .. MaxPriority : q = p.rules[i].priority
    BY Zenon, <2>1
  <2>3. q \in Nat
    BY DEF MaxPriority
  <2>4. EffectivePriority(p.rules[i]) = 100 \/ EffectivePriority(p.rules[i]) = q
    BY Zenon, <2>2 DEF EffectivePriority, DefaultPriority
  <2> QED BY <2>3, <2>4
<1> QED BY Zenon, <1>1, <1>3, <1>4 DEF Loaded, Decoded

\* The rules in this order, each through its own whitelist.
Through(p, view, order) == [k \in DOMAIN order |-> Override(p.rules[order[k]], view)]

\* What evaluateAll returns: the hits, each through its own whitelist, in order.
LEMMA FoundIsOrdered ==
  ASSUME NEW p, Loaded(p), NEW now, NEW view
  PROVE  \E order : /\ IsOrder(p.rules, Hits(p, now, view), order)
                    /\ evaluateAll(p, now, view) = Through(p, view, order)
<1> DEFINE H == Hits(p, now, view)
<1>1. Sortable(p.rules, H)
  <2>1. H \subseteq DOMAIN p.rules
    BY Zenon DEF Hits
  <2> HIDE DEF H
  <2> QED BY Zenon, <2>1, LoadedRules, FS_Subset DEF Sortable
<1>2. IsOrder(p.rules, H, Ordered(p.rules, H))
  BY Zenon, <1>1, OrderedIsOrder
<1>3. evaluateAll(p, now, view) = Through(p, view, Ordered(p.rules, H))
  BY Zenon DEF evaluateAll, Hits, Through
<1> HIDE DEF H
<1> QED BY Zenon, <1>2, <1>3 DEF H

\* A hit responds after its whitelist exactly when the reference lets it answer.
LEMMA RespondsIffAnswering ==
  ASSUME NEW p, Loaded(p), NEW now \in ClockTimes, NEW view, NEW i \in Hits(p, now, view)
  PROVE  /\ Responds(Override(p.rules[i], view)) <=> i \in Answering(p, now, view)
         /\ i \in Answering(p, now, view) => Override(p.rules[i], view) = p.rules[i]
<1> DEFINE r == p.rules[i]
           white == \E m \in r.whitelist : matches(m, view)
<1>1. /\ i \in DOMAIN p.rules /\ r.enabled
      /\ inWindow(now, r.window) /\ matches(r.match, view)
  BY Zenon DEF Hits
<1>2. inWindow(now, r.window) <=> ByClock(now, r.window)
  BY Zenon, <1>1, LoadedRules, WindowByClock
<1>3. CASE white
  <2>1. Override(r, view) = [r EXCEPT !.decision = "allow", !.action = "none"]
    BY Zenon, <1>3 DEF Override
  <2>2. "decision" \in DOMAIN r
    BY Zenon, <1>1, LoadedRules DEF RuleFields
  <2>3. Override(r, view).decision = "allow"
    <3> HIDE DEF r
    <3> QED BY Zenon, <2>1, <2>2
  <2>4. ~Responds(Override(r, view))
    BY Zenon, <2>3 DEF Responds
  <2>5. i \notin Answering(p, now, view)
    BY Zenon, <1>3 DEF Answering, Applies
  <2> QED BY Zenon, <2>4, <2>5
<1>4. CASE ~white
  <2>1. Override(r, view) = r
    BY Zenon, <1>4 DEF Override
  <2>2. Applies(r, now, view)
    BY Zenon, <1>1, <1>2, <1>4 DEF Applies
  <2>3. Responds(r) <=> i \in Answering(p, now, view)
    BY Zenon, <1>1, <2>2 DEF Answering, Responds
  <2> QED BY Zenon, <2>1, <2>3
<1> QED BY Zenon, <1>3, <1>4

LEMMA AnsweringHits ==
  ASSUME NEW p, Loaded(p), NEW now \in ClockTimes, NEW view
  PROVE  Answering(p, now, view) \subseteq Hits(p, now, view)
<1> SUFFICES ASSUME NEW i \in Answering(p, now, view)
             PROVE  i \in Hits(p, now, view)
  BY Zenon
<1>1. i \in DOMAIN p.rules /\ Applies(p.rules[i], now, view)
  BY Zenon DEF Answering
<1>2. inWindow(now, p.rules[i].window) <=> ByClock(now, p.rules[i].window)
  BY Zenon, <1>1, LoadedRules, WindowByClock
<1> QED BY Zenon, <1>1, <1>2 DEF Hits, Applies

\* The first answering rule of the reference.
FirstAnswering(p, now, view) ==
  CHOOSE i \in Answering(p, now, view) : \A j \in Answering(p, now, view) : Precedes(p, i, j)

\* The engine: of every policy that Load accepts, at every minute and for every
\* view, evaluateAll and the response it leads to (the sorting, the filtering and
\* the whitelists of the rules included) name the rule that the reference names:
\* the applying rule of the least priority, and of these the first in the file.
THEOREM EngineIsReference ==
  ASSUME NEW p, Loaded(p), NEW now \in ClockTimes, NEW view
  PROVE  ResponseRule(evaluateAll(p, now, view))
           = IF Answering(p, now, view) = {} THEN NoRule
             ELSE p.rules[FirstAnswering(p, now, view)]
<1> DEFINE A == Answering(p, now, view)
           H == Hits(p, now, view)
           found == evaluateAll(p, now, view)
           responding == {k \in DOMAIN found : Responds(found[k])}
<1>1. PICK order : /\ IsOrder(p.rules, H, order)
                   /\ found = Through(p, view, order)
  BY Zenon, FoundIsOrdered
<1>2. /\ DOMAIN found = DOMAIN order
      /\ DOMAIN order \subseteq Nat
      /\ \A k \in DOMAIN order : order[k] \in H /\ found[k] = Override(p.rules[order[k]], view)
      /\ \A i \in H : \E k \in DOMAIN order : order[k] = i
      /\ \A k, l \in DOMAIN order : k < l => Before(p.rules, order[k], order[l])
  <2>1. order \in [1 .. Cardinality(H) -> H] /\ Range(order) = H
    BY Zenon, <1>1 DEF IsOrder
  <2>2. DOMAIN order = 1 .. Cardinality(H)
    BY Zenon, <2>1
  <2>3. DOMAIN order \subseteq Nat
    BY <2>2
  <2>4. \A k \in DOMAIN order : order[k] \in H
    BY Zenon, <2>1, <2>2
  <2>5. \A i \in H : \E k \in DOMAIN order : order[k] = i
    BY Zenon, <2>1 DEF Range
  <2>6. DOMAIN found = DOMAIN order
        /\ \A k \in DOMAIN order : found[k] = Override(p.rules[order[k]], view)
    BY Zenon, <1>1 DEF Through
  <2>7. \A k, l \in DOMAIN order : k < l => Before(p.rules, order[k], order[l])
    BY Zenon, <1>1 DEF IsOrder
  <2> QED BY Zenon, <2>3, <2>4, <2>5, <2>6, <2>7
<1>3. \A i \in H : /\ Responds(Override(p.rules[i], view)) <=> i \in A
                   /\ i \in A => Override(p.rules[i], view) = p.rules[i]
  BY Zenon, RespondsIffAnswering
<1>4. A \subseteq H
  BY Zenon, AnsweringHits
<1>5. ResponseRule(found) = IF responding = {} THEN NoRule ELSE found[Min(responding)]
  BY Zenon DEF ResponseRule
<1>6. \A k \in DOMAIN order : k \in responding <=> order[k] \in A
  <2> HIDE DEF found, A, H
  <2> QED BY Zenon, <1>2, <1>3
<1>7. responding \subseteq DOMAIN order
  <2> HIDE DEF found
  <2> QED BY Zenon, <1>2
<1>8. FirstAnswering(p, now, view) = CHOOSE i \in A : \A j \in A : Precedes(p, i, j)
  BY Zenon DEF FirstAnswering
<1>9. \A i \in A : i \in Nat /\ EffectivePriority(p.rules[i]) \in Nat
  BY Zenon, LoadedRules DEF Answering
<1> HIDE DEF A, H, found, responding
<1>10. CASE A = {}
  <2>1. responding = {}
    BY Zenon, <1>6, <1>7, <1>10
  <2> QED BY Zenon, <1>5, <1>10, <2>1 DEF A, found
<1>11. CASE A # {}
  <2>1. responding # {}
    BY Zenon, <1>2, <1>4, <1>6, <1>11
  <2>2. responding \in SUBSET Nat
    BY Zenon, <1>2, <1>7
  <2>3. PICK m \in responding : m = Min(responding) /\ \A l \in responding : m <= l
    <3>1. \E x \in responding : \A y \in responding : x <= y
      BY Zenon, <2>1, <2>2, Least
    <3> QED BY Zenon, <3>1 DEF Min
  <2> DEFINE i == order[m]
  <2>4. m \in DOMAIN order /\ i \in A
    BY Zenon, <1>6, <1>7
  <2>5. ASSUME NEW j \in A
        PROVE  Precedes(p, i, j)
    <3>1. PICK l \in DOMAIN order : order[l] = j
      BY Zenon, <1>2, <1>4
    <3>2. l \in responding
      BY Zenon, <1>6, <3>1
    <3>3. m \in Nat /\ l \in Nat /\ m <= l
      BY Zenon, <2>2, <2>3, <3>2
    <3>4. m = l \/ m < l
      BY <3>3
    <3>5. CASE m = l
      <4>1. i = j /\ j \in Nat
        BY Zenon, <1>9, <3>1, <3>5
      <4>2. i <= j
        <5> HIDE DEF i
        <5> QED BY <4>1
      <4> QED BY Zenon, <4>1, <4>2 DEF Precedes
    <3>6. CASE m < l
      <4>1. Before(p.rules, i, j)
        BY Zenon, <1>2, <2>4, <3>1, <3>6
      <4>2. i \in Nat /\ j \in Nat
        BY Zenon, <1>9, <2>4
      <4>3. i < j => i <= j
        <5> HIDE DEF i
        <5> QED BY <4>2
      <4> QED BY Zenon, <4>1, <4>3 DEF Before, Precedes
    <3> QED BY Zenon, <3>4, <3>5, <3>6
  <2>6. \A x, y \in A : Precedes(p, x, y) /\ Precedes(p, y, x) => x = y
    <3> SUFFICES ASSUME NEW x \in A, NEW y \in A, Precedes(p, x, y), Precedes(p, y, x)
                 PROVE  x = y
      BY Zenon
    <3>1. /\ x \in Nat /\ EffectivePriority(p.rules[x]) \in Nat
          /\ y \in Nat /\ EffectivePriority(p.rules[y]) \in Nat
      BY Zenon, <1>9
    <3> QED BY <3>1 DEF Precedes
  <2>7. FirstAnswering(p, now, view) = i
    <3> HIDE DEF i
    <3> QED BY Zenon, <1>8, <2>4, <2>5, <2>6
  <2>8. found[m] = p.rules[i]
    BY Zenon, <1>2, <1>3, <2>4
  <2> QED BY Zenon, <1>5, <1>11, <2>1, <2>3, <2>7, <2>8 DEF A, found
<1> QED BY Zenon, <1>10, <1>11

\* The identifiers agree.
THEOREM ResponseIsReference ==
  ASSUME NEW p, Loaded(p), NEW now \in ClockTimes, NEW view
  PROVE  ResponseRule(evaluateAll(p, now, view)).id = ReferenceResponse(p, now, view)
<1>1. NoRule.id = ""
  BY Zenon DEF NoRule
<1>2. ReferenceResponse(p, now, view)
        = IF Answering(p, now, view) = {} THEN "" ELSE p.rules[FirstAnswering(p, now, view)].id
  BY Zenon DEF ReferenceResponse, FirstAnswering
<1>3. CASE Answering(p, now, view) = {}
  BY Zenon, <1>1, <1>2, <1>3, EngineIsReference
<1>4. CASE Answering(p, now, view) # {}
  BY Zenon, <1>2, <1>4, EngineIsReference
<1> QED BY Zenon, <1>3, <1>4

LEMMA FirstAnsweringAnswers ==
  ASSUME NEW p, Loaded(p), NEW now, NEW view, Answering(p, now, view) # {}
  PROVE  FirstAnswering(p, now, view) \in Answering(p, now, view)
<1> DEFINE A == Answering(p, now, view)
<1>1. A \subseteq DOMAIN p.rules
  BY Zenon DEF Answering
<1> HIDE DEF A
<1>2. Sortable(p.rules, A)
  BY Zenon, <1>1, LoadedRules, FS_Subset DEF Sortable
<1>3. PICK m \in A : \A i \in A \ {m} : Before(p.rules, m, i)
  BY Zenon, <1>2, FirstPlace DEF A
<1>4. \A i \in A : i \in Nat /\ (m < i => m <= i) /\ m <= m
  BY <1>2 DEF Sortable
<1>5. ASSUME NEW j \in A
      PROVE  Precedes(p, m, j)
  BY Zenon, <1>3, <1>4 DEF Before, Precedes
<1> QED BY Zenon, <1>3, <1>5 DEF A, FirstAnswering

\* What the engine blocks: its response blocks exactly if the rule that the
\* reference names has the decision to block.
THEOREM BlockIsReference ==
  ASSUME NEW p, Loaded(p), NEW now \in ClockTimes, NEW view
  PROVE  ResponseRule(evaluateAll(p, now, view)).decision = "block"
           <=> \E r \in Range(p.rules) : /\ r.id = ReferenceResponse(p, now, view)
                                         /\ r.decision = "block"
<1> DEFINE resp == ResponseRule(evaluateAll(p, now, view))
           id == ReferenceResponse(p, now, view)
<1>1. \A r \in Range(p.rules) : r.id # ""
  BY Zenon DEF Loaded, Validate
<1>2. CASE Answering(p, now, view) = {}
  <2>1. NoRule.decision # "block"
    BY Zenon DEF NoRule
  <2>2. resp = NoRule
    BY Zenon, <1>2, EngineIsReference
  <2>3. id = ""
    BY Zenon, <1>2 DEF ReferenceResponse
  <2> QED BY Zenon, <1>1, <2>1, <2>2, <2>3
<1>3. CASE Answering(p, now, view) # {}
  <2> DEFINE i == FirstAnswering(p, now, view)
  <2>1. i \in DOMAIN p.rules
    BY Zenon, <1>3, FirstAnsweringAnswers DEF Answering
  <2>2. resp = p.rules[i]
    BY Zenon, <1>3, EngineIsReference
  <2>3. id = p.rules[i].id
    BY Zenon, <1>3 DEF ReferenceResponse, FirstAnswering
  <2>4. \A j \in DOMAIN p.rules : p.rules[j].id = p.rules[i].id => j = i
    BY Zenon, <2>1 DEF Loaded, Validate
  <2>5. p.rules[i] \in Range(p.rules)
        /\ \A r \in Range(p.rules) : \E j \in DOMAIN p.rules : r = p.rules[j]
    BY Zenon, <2>1 DEF Range
  <2> HIDE DEF i, resp, id
  <2>6. \A r \in Range(p.rules) : r.id = id => r = p.rules[i]
    BY Zenon, <2>3, <2>4, <2>5
  <2> QED BY Zenon, <2>2, <2>3, <2>5, <2>6 DEF resp, id
<1> QED BY Zenon, <1>2, <1>3

\* The policy has a rule with the identifier and the effect of r.
OfPolicy(p, r) == \E s \in Range(p.rules) : r.id = s.id /\ r.effect = s.effect

\* Every rule that evaluateAll returns is such a rule.
LEMMA FoundIsOfPolicy ==
  ASSUME NEW p, Loaded(p), NEW now, NEW view, NEW r \in Range(evaluateAll(p, now, view))
  PROVE  OfPolicy(p, r)
<1>1. PICK order : /\ IsOrder(p.rules, Hits(p, now, view), order)
                   /\ evaluateAll(p, now, view) = Through(p, view, order)
  BY Zenon, FoundIsOrdered
<1>2. PICK k \in DOMAIN order : r = Override(p.rules[order[k]], view)
  BY Zenon, <1>1 DEF Range, Through
<1>3. order[k] \in DOMAIN p.rules
  <2>1. order \in [1 .. Cardinality(Hits(p, now, view)) -> Hits(p, now, view)]
    BY Zenon, <1>1 DEF IsOrder
  <2> QED BY Zenon, <2>1 DEF Hits
<1>4. PICK s : s = p.rules[order[k]]
  BY Zenon
<1>5. s \in Range(p.rules) /\ DOMAIN s = RuleFields
  BY Zenon, <1>3, <1>4, LoadedRules DEF Range
<1>6. r = s \/ r = [s EXCEPT !.decision = "allow", !.action = "none"]
  BY Zenon, <1>2, <1>4 DEF Override
<1>7. "id" \in DOMAIN s /\ "effect" \in DOMAIN s
  BY Zenon, <1>5 DEF RuleFields
<1>8. r.id = s.id /\ r.effect = s.effect
  BY Zenon, <1>6, <1>7
<1> QED BY Zenon, <1>5, <1>8 DEF OfPolicy
=============================================================================
