-------------------------- MODULE PolicyStoreProofs --------------------------
(***************************************************************************)
(* The policy files under concurrent requests, for every number of         *)
(* requests, paths, policies, operator writes and mishaps.                 *)
(***************************************************************************)
EXTENDS PolicyStore, SequenceTheorems, TLAPS

Version == [name : Nat, bytes : Content]

Stage == {"idle", "create", "copy", "truncate", "restore",
          "load", "sig", "raw", "replace", "done"}

Request == [pc : Stage,
            kind : {"none", "reload", "rollback"}, path : Paths,
            asked : Nat \cup {None}, version : Nat \cup {None},
            backup : Nat \cup {None}, loaded : Valid \cup {None},
            sigData : Signed \cup {None}]

StoreType ==
  /\ file \in [Paths -> Content]
  /\ sig \in [Paths -> Signed \cup {None}]
  /\ versions \in Seq(Version)
  /\ policy \in Policies \cup {None}
  /\ req \in [Reqs -> Request]
  /\ before = [r \in Reqs |-> before[r]]
  /\ crowded \in BOOLEAN
  /\ mishap \in BOOLEAN
  /\ mishaps \in Nat

\* Names are those of the places, each once, whatever the order.
WellNamed(vs) ==
  /\ \A i \in DOMAIN vs : vs[i].name \in 1 .. Len(vs)
  /\ \A i, j \in DOMAIN vs : vs[i].name = vs[j].name => i = j

Has(vs, name) == \E i \in DOMAIN vs : vs[i].name = name

\* What a request knows at each of its steps.
RequestOK(r) ==
  /\ req[r].pc = "copy" => Has(versions, req[r].backup)
  /\ req[r].pc \in {"create", "copy", "truncate", "restore"} /\ req[r].kind = "rollback"
       => Has(versions, req[r].version)
  /\ req[r].pc \in {"truncate", "restore"} => req[r].kind = "rollback"
  /\ req[r].kind = "rollback" => req[r].path = Main
  /\ req[r].pc \in {"sig", "raw", "replace"} => req[r].loaded \in Valid

RequestInv == \A r \in Reqs : RequestOK(r)

\* Requests that have not met run one at a time.
AloneInv == ~crowded => \A r, x \in Reqs : Busy(r) /\ Busy(x) => r = x

\* What is loaded stays what the file holds, and is signed once checked.
SignedInv ==
  ~crowded /\ mishaps = 0 =>
    /\ policy \in Signed
    /\ \A r \in Reqs :
         /\ req[r].pc \in {"sig", "raw", "replace"} => req[r].loaded = file[req[r].path]
         /\ req[r].pc = "raw" => req[r].sigData \in Signed
         /\ req[r].pc = "replace" => req[r].loaded \in Signed

\* Torn bytes are in a backup that is being copied, or in the policy file that
\* is being restored.
TornInv ==
  ~crowded /\ ~mishap =>
    /\ file[Main] = Torn <=> \E r \in Reqs : req[r].pc = "restore"
    /\ \A i \in DOMAIN versions : versions[i].bytes = Torn =>
         \E r \in Reqs : req[r].pc = "copy" /\ req[r].backup = versions[i].name

StoreInv ==
  /\ StoreType
  /\ WellNamed(versions)
  /\ RequestInv
  /\ AloneInv
  /\ SignedInv
  /\ TornInv

\* The bytes a rollback is to restore.
Chosen(b, q) == IF q.asked = None THEN Newest(b) ELSE Asked(b, q.asked)

WithBackup(b, bytes) == Append(b.versions, [name |-> Len(b.versions) + 1, bytes |-> bytes])

\* How far request q, which nobody has disturbed, has taken the store b.
Progress(b, q) ==
  /\ b.versions \in Seq(Version)
  /\ WellNamed(b.versions)
  /\ b.file \in [Paths -> Content]
  /\ sig = b.sig
  /\ policy # None
  /\ q.pc # "idle" /\ q.kind # "none"
  /\ q.pc # "done" => policy = b.policy
  /\ q.pc \in {"create", "copy", "truncate", "restore"} /\ q.kind = "rollback" =>
       \E i \in DOMAIN b.versions :
         b.versions[i].name = q.version /\ b.versions[i].bytes = Chosen(b, q)
  /\ q.pc = "create" => file = b.file /\ versions = b.versions
  /\ q.pc = "copy" => /\ file = b.file
                      /\ versions = WithBackup(b, Torn)
                      /\ q.backup = Len(b.versions) + 1
  /\ q.pc \notin {"create", "copy"} => versions = WithBackup(b, b.file[Main])
  /\ q.pc = "truncate" => file = b.file
  /\ q.pc = "restore" => file = [b.file EXCEPT ![Main] = Torn]
  /\ q.pc \in {"load", "sig", "raw", "replace", "done"} => file = FileAfter(b, q)
  /\ q.pc \in {"sig", "raw", "replace"} => q.loaded = file[q.path]
  /\ q.pc = "raw" => q.sigData = sig[q.path]
  /\ q.pc = "replace" => q.loaded = sig[q.path]
  /\ q.pc = "done" => policy = PolicyAfter(b, q)

AtomicInv == \A r \in Reqs : before[r] # None => Progress(before[r], req[r])
-----------------------------------------------------------------------------
(***************************************************************************)
(* Versions: a new one at the end, and one that moves to the end.          *)
(***************************************************************************)
LEMMA AddedVersion ==
  ASSUME NEW vs \in Seq(Version), WellNamed(vs), NEW bytes \in Content
  PROVE  LET ws == Append(vs, [name |-> Len(vs) + 1, bytes |-> bytes])
         IN  /\ ws \in Seq(Version)
             /\ Len(ws) = Len(vs) + 1
             /\ DOMAIN ws = 1 .. Len(vs) + 1
             /\ WellNamed(ws)
             /\ \A i \in DOMAIN vs : ws[i] = vs[i]
             /\ ws[Len(vs) + 1] = [name |-> Len(vs) + 1, bytes |-> bytes]
<1> DEFINE e == [name |-> Len(vs) + 1, bytes |-> bytes]
           ws == Append(vs, e)
<1>1. Len(vs) \in Nat /\ DOMAIN vs = 1 .. Len(vs)
  BY Zenon, LenProperties
<1>2. e \in Version
  BY <1>1 DEF Version
<1>3. /\ ws \in Seq(Version)
      /\ Len(ws) = Len(vs) + 1
      /\ \A i \in 1 .. Len(vs) : ws[i] = vs[i]
      /\ ws[Len(vs) + 1] = e
  BY <1>2, AppendProperties
<1>4. DOMAIN ws = 1 .. Len(vs) + 1
  BY Zenon, <1>3, LenProperties
<1>5. e.name = Len(vs) + 1
  BY Zenon
<1> HIDE DEF e, ws
<1>6. WellNamed(ws)
  BY SMTT(30), <1>1, <1>3, <1>4, <1>5 DEF WellNamed
<1> QED BY Zenon, <1>1, <1>3, <1>4, <1>6 DEF ws, e

LEMMA MovedVersion ==
  ASSUME NEW vs \in Seq(Version), WellNamed(vs), NEW n \in DOMAIN vs, NEW bytes \in Content
  PROVE  LET ws == Append(RemoveAt(vs, n), [name |-> vs[n].name, bytes |-> bytes])
         IN  /\ ws \in Seq(Version)
             /\ Len(ws) = Len(vs)
             /\ WellNamed(ws)
             /\ \A i \in DOMAIN vs \ {n} : \E j \in DOMAIN ws : ws[j] = vs[i]
             /\ ws[Len(vs)] = [name |-> vs[n].name, bytes |-> bytes]
             /\ \A j \in DOMAIN ws : j = Len(vs) \/ \E i \in DOMAIN vs \ {n} : ws[j] = vs[i]
<1> DEFINE e == [name |-> vs[n].name, bytes |-> bytes]
           l == SubSeq(vs, 1, n - 1)
           m == SubSeq(vs, n + 1, Len(vs))
           us == l \o m
           ws == Append(us, e)
<1>1. /\ Len(vs) \in Nat /\ DOMAIN vs = 1 .. Len(vs)
      /\ n \in 1 .. Len(vs)
      /\ \A i \in 1 .. Len(vs) : vs[i] \in Version
  BY Zenon, LenProperties
<1>2. /\ l \in Seq(Version)
      /\ Len(l) = n - 1
      /\ \A i \in 1 .. n - 1 : l[i] = vs[i]
  <2>1. n - 1 \in Int /\ \A i \in 1 .. n - 1 : vs[i] \in Version
    BY <1>1
  <2>2. /\ l \in Seq(Version)
        /\ Len(l) = IF 1 <= n - 1 THEN (n - 1) - 1 + 1 ELSE 0
        /\ \A i \in 1 .. (n - 1) - 1 + 1 : l[i] = vs[1 + i - 1]
    BY <2>1, SubSeqProperties
  <2> HIDE DEF l
  <2> QED BY <1>1, <2>2
<1>3. /\ m \in Seq(Version)
      /\ Len(m) = Len(vs) - n
      /\ \A i \in 1 .. Len(vs) - n : m[i] = vs[n + i]
  <2>1. n + 1 \in Int /\ Len(vs) \in Int /\ \A i \in n + 1 .. Len(vs) : vs[i] \in Version
    BY <1>1
  <2>2. /\ m \in Seq(Version)
        /\ Len(m) = IF n + 1 <= Len(vs) THEN Len(vs) - (n + 1) + 1 ELSE 0
        /\ \A i \in 1 .. Len(vs) - (n + 1) + 1 : m[i] = vs[(n + 1) + i - 1]
    BY <2>1, SubSeqProperties
  <2> HIDE DEF m
  <2>3. Len(m) = Len(vs) - n
    BY <1>1, <2>2
  <2>4. ASSUME NEW i \in 1 .. Len(vs) - n
        PROVE  m[i] = vs[n + i]
    <3>1. i \in 1 .. Len(vs) - (n + 1) + 1 /\ (n + 1) + i - 1 = n + i
      BY <1>1
    <3> QED BY Zenon, <2>2, <3>1
  <2> QED BY Zenon, <2>2, <2>3, <2>4
<1> HIDE DEF l, m
<1>4. /\ us \in Seq(Version)
      /\ Len(us) = Len(vs) - 1
      /\ \A i \in 1 .. Len(vs) - 1 : us[i] = IF i < n THEN vs[i] ELSE vs[i + 1]
  <2>1. /\ us \in Seq(Version)
        /\ Len(us) = Len(l) + Len(m)
        /\ \A i \in 1 .. Len(l) + Len(m) : us[i] = IF i <= Len(l) THEN l[i] ELSE m[i - Len(l)]
    BY ZenonT(30), <1>2, <1>3, ConcatProperties
  <2> HIDE DEF us
  <2>2. Len(l) + Len(m) = Len(vs) - 1
    BY <1>1, <1>2, <1>3
  <2>3. ASSUME NEW i \in 1 .. Len(vs) - 1, i < n
        PROVE  us[i] = vs[i]
    <3>1. i <= Len(l) /\ i \in 1 .. n - 1
      BY <1>1, <1>2, <2>3
    <3> QED BY Zenon, <1>2, <2>1, <2>2, <3>1
  <2>4. ASSUME NEW i \in 1 .. Len(vs) - 1, ~(i < n)
        PROVE  us[i] = vs[i + 1]
    <3>1. ~(i <= Len(l)) /\ i - Len(l) = i - (n - 1) /\ i - (n - 1) \in 1 .. Len(vs) - n
          /\ n + (i - (n - 1)) = i + 1
      BY <1>1, <1>2, <2>4
    <3>2. us[i] = m[i - (n - 1)]
      BY Zenon, <2>1, <2>2, <3>1
    <3>3. m[i - (n - 1)] = vs[n + (i - (n - 1))]
      BY Zenon, <1>3, <3>1
    <3> QED BY Zenon, <3>1, <3>2, <3>3
  <2> QED BY Zenon, <2>1, <2>2, <2>3, <2>4
<1> HIDE DEF us
<1>5. e \in Version /\ e.name = vs[n].name
  BY Zenon, <1>1 DEF Version
<1>6. /\ ws \in Seq(Version)
      /\ Len(ws) = Len(vs)
      /\ \A i \in 1 .. Len(vs) - 1 : ws[i] = us[i]
      /\ ws[Len(vs)] = e
  <2>1. /\ ws \in Seq(Version)
        /\ Len(ws) = Len(us) + 1
        /\ \A i \in 1 .. Len(us) : ws[i] = us[i]
        /\ ws[Len(us) + 1] = e
    BY <1>4, <1>5, AppendProperties
  <2> HIDE DEF ws
  <2> QED BY <1>1, <1>4, <2>1
<1>7. DOMAIN ws = 1 .. Len(vs)
  BY Zenon, <1>6, LenProperties
<1> HIDE DEF ws, e
<1>8. \A i \in DOMAIN vs \ {n} : \E j \in DOMAIN ws : ws[j] = vs[i]
  <2> TAKE i \in DOMAIN vs \ {n}
  <2>1. CASE i < n
    BY SMTT(30), <1>1, <1>4, <1>6, <1>7, <2>1
  <2>2. CASE i > n
    <3>1. i - 1 \in 1 .. Len(vs) - 1 /\ ~(i - 1 < n) /\ (i - 1) + 1 = i
      BY <1>1, <2>2
    <3>2. ws[i - 1] = vs[i]
      BY Zenon, <1>4, <1>6, <3>1
    <3> QED BY <1>1, <1>7, <3>1, <3>2
  <2> QED BY <1>1, <2>1, <2>2
<1>9. \A j \in DOMAIN ws : j = Len(vs) \/ \E i \in DOMAIN vs \ {n} : ws[j] = vs[i]
  <2> TAKE j \in DOMAIN ws
  <2>1. CASE j < Len(vs) /\ j < n
    BY SMTT(30), <1>1, <1>4, <1>6, <1>7, <2>1
  <2>2. CASE j < Len(vs) /\ ~(j < n)
    <3>1. j \in 1 .. Len(vs) - 1 /\ j + 1 \in DOMAIN vs \ {n}
      BY <1>1, <1>7, <2>2
    <3>2. ws[j] = vs[j + 1]
      BY Zenon, <1>4, <1>6, <2>2, <3>1
    <3> QED BY Zenon, <3>1, <3>2
  <2> QED BY <1>1, <1>7, <2>1, <2>2
<1>10. WellNamed(ws)
  <2>1. \A j \in DOMAIN ws : ws[j].name \in 1 .. Len(ws)
    BY <1>1, <1>5, <1>6, <1>9 DEF WellNamed
  <2> DEFINE at(j) == IF j < Len(vs) THEN IF j < n THEN j ELSE j + 1 ELSE n
  <2>2. \A j \in 1 .. Len(vs) : at(j) \in DOMAIN vs /\ ws[j].name = vs[at(j)].name
    <3> TAKE j \in 1 .. Len(vs)
    <3>1. CASE ~(j < Len(vs))
      <4>1. j = Len(vs)
        <5>1. Len(vs) \in Nat
          BY Zenon, <1>1
        <5> QED BY <3>1, <5>1
      <4> QED BY Zenon, <1>1, <1>5, <1>6, <3>1, <4>1
    <3>2. CASE j < Len(vs)
      <4>1. j \in 1 .. Len(vs) - 1
        BY <1>1, <3>2
      <4>2. ws[j] = IF j < n THEN vs[j] ELSE vs[j + 1]
        BY Zenon, <1>4, <1>6, <4>1
      <4> QED BY <1>1, <3>2, <4>1, <4>2
    <3> QED BY Zenon, <3>1, <3>2
  <2>3. \A j, k \in 1 .. Len(vs) : at(j) = at(k) => j = k
    <3>1. Len(vs) \in Nat /\ n \in 1 .. Len(vs)
      BY Zenon, <1>1
    <3> TAKE j, k \in 1 .. Len(vs)
    <3>2. CASE j < Len(vs) /\ k < Len(vs)
      BY <3>1, <3>2
    <3>3. CASE j < Len(vs) /\ ~(k < Len(vs))
      BY <3>1, <3>3
    <3>4. CASE ~(j < Len(vs)) /\ k < Len(vs)
      BY <3>1, <3>4
    <3>5. CASE ~(j < Len(vs)) /\ ~(k < Len(vs))
      BY <3>1, <3>5
    <3> QED BY Zenon, <3>2, <3>3, <3>4, <3>5
  <2> HIDE DEF at
  <2>4. ASSUME NEW j \in DOMAIN ws, NEW k \in DOMAIN ws, ws[j].name = ws[k].name
        PROVE  j = k
    <3>1. j \in 1 .. Len(vs) /\ k \in 1 .. Len(vs)
      BY Zenon, <1>7
    <3>2. at(j) \in DOMAIN vs /\ at(k) \in DOMAIN vs /\ vs[at(j)].name = vs[at(k)].name
      BY Zenon, <2>2, <2>4, <3>1
    <3>3. at(j) = at(k)
      BY Zenon, <3>2 DEF WellNamed
    <3> QED BY Zenon, <2>3, <3>1, <3>3
  <2> QED BY Zenon, <2>1, <2>4 DEF WellNamed
<1> QED BY Zenon, <1>6, <1>8, <1>9, <1>10 DEF ws, e, us, l, m, RemoveAt

LEMMA PlaceOf ==
  ASSUME NEW name, Has(versions, name)
  PROVE  Place(name) \in DOMAIN versions /\ versions[Place(name)].name = name
BY Zenon DEF Has, Place

\* A version is created or moved to the end, or the versions stay as they are.
LEMMA VersionsNext ==
  ASSUME StoreType, WellNamed(versions), RequestInv, [Next]_vars
  PROVE  /\ versions' \in Seq(Version)
         /\ WellNamed(versions')
         /\ \A name : Has(versions, name) => Has(versions', name)
<1>1. ASSUME NEW r \in Reqs, BackupCreate(r)
      PROVE  /\ versions' \in Seq(Version)
             /\ WellNamed(versions')
             /\ \A name : Has(versions, name) => Has(versions', name)
  <2>1. Torn \in Content /\ versions \in Seq(Version)
    BY Zenon DEF Content, StoreType
  <2>2. Len(versions) \in Nat /\ DOMAIN versions = 1 .. Len(versions)
    BY Zenon, <2>1, LenProperties
  <2>3. versions' = Append(versions, [name |-> Len(versions) + 1, bytes |-> Torn])
    BY Zenon, <1>1 DEF BackupCreate
  <2>4. /\ versions' \in Seq(Version)
        /\ DOMAIN versions' = 1 .. Len(versions) + 1
        /\ WellNamed(versions')
        /\ \A i \in DOMAIN versions : versions'[i] = versions[i]
    BY ZenonT(30), <2>1, <2>3, AddedVersion
  <2> QED BY <2>2, <2>4 DEF Has
<1>2. ASSUME NEW r \in Reqs, BackupCopy(r)
      PROVE  /\ versions' \in Seq(Version)
             /\ WellNamed(versions')
             /\ \A name : Has(versions, name) => Has(versions', name)
  <2>1. CASE file[Main] = Torn
    BY Zenon, <1>2, <2>1 DEF BackupCopy, StoreType
  <2>2. CASE file[Main] # Torn
    <3> DEFINE n == Place(req[r].backup)
    <3>1. n \in DOMAIN versions /\ versions[n].name = req[r].backup
      BY Zenon, <1>2, PlaceOf DEF BackupCopy, RequestInv, RequestOK
    <3>2. versions' = Append(RemoveAt(versions, n), [name |-> versions[n].name, bytes |-> file[Main]])
      BY Zenon, <1>2, <2>2, <3>1 DEF BackupCopy
    <3>3. file[Main] \in Content /\ versions \in Seq(Version)
      BY Zenon, StoreAssumption DEF StoreType
    <3> HIDE DEF n
    <3>4. /\ versions' \in Seq(Version)
          /\ Len(versions') = Len(versions)
          /\ WellNamed(versions')
          /\ \A i \in DOMAIN versions \ {n} : \E j \in DOMAIN versions' : versions'[j] = versions[i]
          /\ versions'[Len(versions)] = [name |-> versions[n].name, bytes |-> file[Main]]
      BY <3>1, <3>2, <3>3, MovedVersion
    <3>5. Len(versions) \in DOMAIN versions'
      <4>1. DOMAIN versions' = 1 .. Len(versions) /\ DOMAIN versions = 1 .. Len(versions)
            /\ Len(versions) \in Nat
        BY Zenon, <3>3, <3>4, LenProperties
      <4> QED BY <3>1, <4>1
    <3>6. versions'[Len(versions)].name = versions[n].name
      BY <3>4
    <3> QED BY ZenonT(30), <3>4, <3>5, <3>6 DEF Has
  <2> QED BY Zenon, <2>1, <2>2
<1>3. ASSUME UNCHANGED versions
      PROVE  /\ versions' \in Seq(Version)
             /\ WellNamed(versions')
             /\ \A name : Has(versions, name) => Has(versions', name)
  BY Zenon, <1>3 DEF StoreType
<1>4. ASSUME ~(\E r \in Reqs : BackupCreate(r) \/ BackupCopy(r))
      PROVE  UNCHANGED versions
  BY Zenon, <1>4 DEF Next, vars, Reload, Rollback, Begin, RollbackTruncate, RollbackCopy,
              OperationFails, Load, ReadSig, VerifyRaw, ReplacePolicy, OperatorWrites, Crash, Boot
<1> QED BY ZenonT(30), <1>1, <1>2, <1>3, <1>4
-----------------------------------------------------------------------------
(***************************************************************************)
(* Types                                                                   *)
(***************************************************************************)
LEMMA ReturnedIsRequest ==
  ASSUME NEW q \in Request
  PROVE  Returned(q) \in Request
BY ZenonT(30) DEF Request, Returned, Stage

LEMMA IdleIsRequest == Idle \in Request
BY Zenon, StoreAssumption DEF Idle, Request, Stage

LEMMA GoToType ==
  ASSUME req \in [Reqs -> Request], NEW r \in Reqs, NEW pc \in Stage, GoTo(r, pc)
  PROVE  req' \in [Reqs -> Request]
BY DEF GoTo, Request

LEMMA ReturnType ==
  ASSUME req \in [Reqs -> Request], NEW r \in Reqs, Return(r)
  PROVE  req' \in [Reqs -> Request]
BY Zenon, ReturnedIsRequest DEF Return

LEMMA AfterBackupType ==
  ASSUME req \in [Reqs -> Request], NEW r \in Reqs, NEW ok, AfterBackup(r, ok)
  PROVE  req' \in [Reqs -> Request]
BY Zenon, GoToType, ReturnType DEF AfterBackup, Stage

\* The three steps that keep something for later.
LEMMA NotedType ==
  ASSUME req \in [Reqs -> Request], NEW r \in Reqs
  PROVE  /\ \A n \in Nat :
              [req EXCEPT ![r] = [@ EXCEPT !.pc = "copy", !.backup = n]] \in [Reqs -> Request]
         /\ \A p \in Valid :
              [req EXCEPT ![r] = [@ EXCEPT !.pc = "sig", !.loaded = p]] \in [Reqs -> Request]
         /\ \A s \in Signed :
              [req EXCEPT ![r] = [@ EXCEPT !.pc = "raw", !.sigData = s]] \in [Reqs -> Request]
<1>1. \A n \in Nat : [req[r] EXCEPT !.pc = "copy", !.backup = n] \in Request
  BY ZenonT(30) DEF Request, Stage
<1>2. \A p \in Valid : [req[r] EXCEPT !.pc = "sig", !.loaded = p] \in Request
  BY ZenonT(60) DEF Request, Stage
<1>3. \A s \in Signed : [req[r] EXCEPT !.pc = "raw", !.sigData = s] \in Request
  BY ZenonT(60) DEF Request, Stage
<1> QED BY Zenon, <1>1, <1>2, <1>3

LEMMA VersionType ==
  ASSUME versions \in Seq(Version)
  PROVE  /\ Len(versions) \in Nat
         /\ DOMAIN versions = 1 .. Len(versions)
         /\ \A i \in DOMAIN versions : versions[i].name \in Nat /\ versions[i].bytes \in Content
<1>1. Len(versions) \in Nat /\ DOMAIN versions = 1 .. Len(versions)
  BY Zenon, LenProperties
<1>2. \A i \in DOMAIN versions : versions[i] \in Version
  BY Zenon, <1>1, ElementOfSeq
<1> QED BY Zenon, <1>1, <1>2 DEF Version

LEMMA TypeNext ==
  ASSUME StoreType, WellNamed(versions), RequestInv, [Next]_vars
  PROVE  StoreType'
<1> USE DEF StoreType
<1>0. versions' \in Seq(Version)
  BY Zenon, VersionsNext
<1>1. ASSUME NEW r \in Reqs, Reload(r)
      PROVE  StoreType'
  <2>1. PICK p \in Paths : Begin(r, [Idle EXCEPT !.kind = "reload", !.path = p])
    BY Zenon, <1>1 DEF Reload
  <2>2. req' \in [Reqs -> Request]
    <3> DEFINE q == [[Idle EXCEPT !.kind = "reload", !.path = p] EXCEPT !.pc = "create"]
    <3>1. q \in Request
      BY ZenonT(30), IdleIsRequest DEF Request, Stage
    <3>2. req' = [req EXCEPT ![r] = q]
      BY Zenon, <2>1 DEF Begin
    <3> HIDE DEF q
    <3> QED BY Zenon, <3>1, <3>2
  <2> QED BY Zenon, <1>0, <2>1, <2>2 DEF Begin
<1>2. ASSUME NEW r \in Reqs, Rollback(r)
      PROVE  StoreType'
  <2>1. PICK asked \in {None} \cup {v.name : v \in Range(listPolicyVersions)} :
          Begin(r, [Idle EXCEPT !.kind = "rollback", !.asked = asked,
                                !.version = SelectVersion(asked)])
    BY Zenon, <1>2 DEF Rollback
  <2>2. asked \in Nat \cup {None} /\ SelectVersion(asked) \in Nat \cup {None}
    <3>1. Len(versions) \in Nat /\ versions # << >>
      BY Zenon, <1>2, LenProperties DEF Rollback
    <3>2. \A i \in 1 .. Len(versions) : versions[i].name \in Nat
      BY Zenon, VersionType
    <3>3. listPolicyVersions = [i \in 1 .. Len(versions) |-> versions[(Len(versions) - i) + 1]]
      BY Zenon DEF listPolicyVersions
    <3>4. \A v \in Range(listPolicyVersions) : v.name \in Nat
      BY <3>1, <3>2, <3>3 DEF Range
    <3>5. Len(versions) >= 1
      BY <3>1, EmptySeq
    <3>6. Head(listPolicyVersions) = versions[Len(versions)]
      BY <3>1, <3>3, <3>5
    <3>7. Head(listPolicyVersions).name \in Nat
      BY <3>1, <3>2, <3>5, <3>6
    <3> QED BY Zenon, <3>4, <3>7 DEF SelectVersion
  <2>3. req' \in [Reqs -> Request]
    <3> DEFINE q == [[Idle EXCEPT !.kind = "rollback", !.asked = asked,
                                  !.version = SelectVersion(asked)] EXCEPT !.pc = "create"]
    <3>1. q \in Request
      BY ZenonT(30), <2>2, IdleIsRequest DEF Request, Stage
    <3>2. req' = [req EXCEPT ![r] = q]
      BY Zenon, <2>1 DEF Begin
    <3> HIDE DEF q
    <3> QED BY Zenon, <3>1, <3>2
  <2> QED BY Zenon, <1>0, <2>1, <2>3 DEF Begin
<1>3. ASSUME NEW r \in Reqs, BackupCreate(r)
      PROVE  StoreType'
  <2>1. Len(versions) + 1 \in Nat
    BY LenProperties
  <2>2. req' \in [Reqs -> Request]
    BY ZenonT(30), <1>3, <2>1, NotedType DEF BackupCreate
  <2> QED BY Zenon, <1>0, <1>3, <2>2 DEF BackupCreate, Disturb
<1>4. ASSUME NEW r \in Reqs, BackupCopy(r)
      PROVE  StoreType'
  <2>1. req' \in [Reqs -> Request]
    BY Zenon, <1>4, AfterBackupType DEF BackupCopy
  <2> QED BY Zenon, <1>0, <1>4, <2>1 DEF BackupCopy, Disturb
<1>5. ASSUME NEW r \in Reqs, RollbackTruncate(r)
      PROVE  StoreType'
  <2>1. req' \in [Reqs -> Request]
    BY Zenon, <1>5, GoToType DEF RollbackTruncate, Stage
  <2> QED BY ZenonT(30), <1>0, <1>5, <2>1 DEF RollbackTruncate, Disturb, Content
<1>6. ASSUME NEW r \in Reqs, RollbackCopy(r)
      PROVE  StoreType'
  <2>1. req' \in [Reqs -> Request]
    BY Zenon, <1>6, GoToType DEF RollbackCopy, Stage
  <2>2. Bytes(req[r].version) \in Content
    <3>1. PICK i \in DOMAIN versions : versions[i].name = req[r].version
      BY Zenon, <1>6 DEF RollbackCopy, RequestInv, RequestOK, Has
    <3>2. \E v \in Range(versions) : v.name = req[r].version
      BY Zenon, <3>1 DEF Range
    <3>3. \A v \in Range(versions) : v.bytes \in Content
      BY Zenon, VersionType DEF Range
    <3> QED BY Zenon, <3>2, <3>3 DEF Bytes
  <2>3. file' \in [Paths -> Content]
    BY Zenon, <1>6, <2>2 DEF RollbackCopy, Content
  <2> QED BY Zenon, <1>0, <1>6, <2>1, <2>3 DEF RollbackCopy, Disturb
<1>7. ASSUME NEW r \in Reqs, OperationFails(r)
      PROVE  StoreType'
  <2>1. req' \in [Reqs -> Request]
    BY ZenonT(60), <1>7, AfterBackupType, ReturnedIsRequest DEF OperationFails, Return
  <2> QED BY <1>0, <1>7, <2>1 DEF OperationFails, Disturb
<1>8. ASSUME NEW r \in Reqs, Load(r) \/ ReadSig(r) \/ VerifyRaw(r)
      PROVE  StoreType'
  <2>1. CASE Load(r)
    <3>1. req' \in [Reqs -> Request]
      <4> DEFINE p == file[req[r].path]
      <4>1. CASE p \in Valid
        <5>1. req' = [req EXCEPT ![r] = [req[r] EXCEPT !.pc = "sig", !.loaded = p]]
          BY Zenon, <2>1, <4>1 DEF Load
        <5> QED BY ZenonT(30), <4>1, <5>1, NotedType
      <4>2. CASE p \notin Valid
        BY Zenon, <2>1, <4>2, ReturnType DEF Load
      <4> QED BY Zenon, <4>1, <4>2
    <3> QED BY Zenon, <1>0, <2>1, <3>1 DEF Load
  <2>2. CASE ReadSig(r)
    <3>1. sig[req[r].path] \in Signed \cup {None}
      BY Zenon DEF Request
    <3>2. req' \in [Reqs -> Request]
      <4> DEFINE s == sig[req[r].path]
      <4>1. CASE s # None
        <5>1. req' = [req EXCEPT ![r] = [req[r] EXCEPT !.pc = "raw", !.sigData = s]]
          BY Zenon, <2>2, <4>1 DEF ReadSig
        <5> QED BY ZenonT(30), <3>1, <4>1, <5>1, NotedType
      <4>2. CASE s = None
        BY Zenon, <2>2, <4>2, ReturnType DEF ReadSig
      <4> QED BY Zenon, <4>1, <4>2
    <3> QED BY Zenon, <1>0, <2>2, <3>2 DEF ReadSig
  <2>3. CASE VerifyRaw(r)
    <3>1. req' \in [Reqs -> Request]
      BY Zenon, <2>3, GoToType, ReturnType DEF VerifyRaw, Stage
    <3> QED BY Zenon, <1>0, <2>3, <3>1 DEF VerifyRaw
  <2> QED BY Zenon, <1>8, <2>1, <2>2, <2>3
<1>9. ASSUME NEW r \in Reqs, ReplacePolicy(r)
      PROVE  StoreType'
  <2>1. req' \in [Reqs -> Request]
    BY Zenon, <1>9, ReturnedIsRequest DEF ReplacePolicy, Return
  <2>2. policy' \in Policies
    BY Zenon, <1>9, StoreAssumption DEF ReplacePolicy, RequestInv, RequestOK
  <2> QED BY Zenon, <1>0, <1>9, <2>1, <2>2 DEF ReplacePolicy, Disturb
<1>10. CASE OperatorWrites
  <2>1. file' \in [Paths -> Content] /\ sig' \in [Paths -> Signed \cup {None}]
    BY ZenonT(30), <1>10 DEF OperatorWrites, Content
  <2> QED BY Zenon, <1>0, <1>10, <2>1 DEF OperatorWrites, Disturb
<1>11. CASE Crash
  <2>1. req' \in [Reqs -> Request]
    BY Zenon, <1>11, ReturnedIsRequest DEF Crash
  <2> QED BY <1>0, <1>11, <2>1 DEF Crash, Disturb
<1>12. CASE Boot
  BY Zenon, <1>0, <1>12, StoreAssumption DEF Boot
<1>13. CASE UNCHANGED vars
  BY Zenon, <1>13 DEF vars
<1> QED BY ZenonT(30), <1>1, <1>2, <1>3, <1>4, <1>5, <1>6, <1>7, <1>8, <1>9, <1>10, <1>11, <1>12, <1>13 DEF Next
-----------------------------------------------------------------------------
(***************************************************************************)
(* What a step does to the requests.                                       *)
(***************************************************************************)
SameRest(r) ==
  /\ req'[r].kind = req[r].kind
  /\ req'[r].path = req[r].path
  /\ req'[r].asked = req[r].asked
  /\ req'[r].version = req[r].version

OthersKept(r) == \A x \in Reqs \ {r} : req'[x] = req[x]

LEMMA GoToShape ==
  ASSUME req \in [Reqs -> Request], NEW r \in Reqs, NEW pc, GoTo(r, pc)
  PROVE  /\ OthersKept(r)
         /\ SameRest(r)
         /\ req'[r].pc = pc
         /\ req'[r].backup = req[r].backup
         /\ req'[r].loaded = req[r].loaded
         /\ req'[r].sigData = req[r].sigData
BY ZenonT(30) DEF GoTo, Request, OthersKept, SameRest

LEMMA ReturnShape ==
  ASSUME req \in [Reqs -> Request], NEW r \in Reqs, Return(r)
  PROVE  /\ OthersKept(r)
         /\ req'[r].pc = "done"
         /\ req'[r].kind = req[r].kind
         /\ req'[r].path = req[r].path
         /\ req'[r].asked = req[r].asked
BY SMTT(30) DEF Return, Returned, Request, OthersKept

LEMMA AfterBackupShape ==
  ASSUME req \in [Reqs -> Request], NEW r \in Reqs, NEW ok \in BOOLEAN, AfterBackup(r, ok)
  PROVE  /\ OthersKept(r)
         /\ req'[r].kind = req[r].kind
         /\ req'[r].path = req[r].path
         /\ req'[r].asked = req[r].asked
         /\ \/ req'[r].pc = "load" /\ req[r].kind = "reload"
            \/ req'[r].pc = "truncate" /\ req[r].kind = "rollback" /\ ok /\ SameRest(r)
            \/ req'[r].pc = "done" /\ (req[r].kind = "rollback" => ~ok) /\ req[r].kind # "reload"
<1>1. CASE req[r].kind = "reload"
  BY Zenon, <1>1, GoToShape DEF AfterBackup, SameRest
<1>2. CASE req[r].kind = "rollback" /\ ok
  BY Zenon, <1>2, GoToShape DEF AfterBackup, SameRest
<1>3. CASE req[r].kind # "reload" /\ ~(req[r].kind = "rollback" /\ ok)
  BY Zenon, <1>3, ReturnShape DEF AfterBackup
<1> QED BY Zenon, <1>1, <1>2, <1>3

LEMMA CreateShape ==
  ASSUME req \in [Reqs -> Request], NEW r \in Reqs, BackupCreate(r)
  PROVE  /\ OthersKept(r)
         /\ SameRest(r)
         /\ req'[r].pc = "copy"
         /\ req'[r].backup = Len(versions) + 1
BY ZenonT(30) DEF BackupCreate, Request, OthersKept, SameRest

LEMMA LoadShape ==
  ASSUME req \in [Reqs -> Request], NEW r \in Reqs, Load(r)
  PROVE  /\ OthersKept(r)
         /\ req'[r].kind = req[r].kind
         /\ req'[r].path = req[r].path
         /\ req'[r].asked = req[r].asked
         /\ \/ /\ file[req[r].path] \in Valid
               /\ req'[r].pc = "sig"
               /\ req'[r].loaded = file[req[r].path]
            \/ file[req[r].path] \notin Valid /\ req'[r].pc = "done"
<1>1. CASE file[req[r].path] \in Valid
  <2>1. PICK p : p = file[req[r].path] /\ p \in Valid
    BY Zenon, <1>1
  <2>2. req' = [req EXCEPT ![r] = [@ EXCEPT !.pc = "sig", !.loaded = p]]
    BY Zenon, <2>1 DEF Load
  <2> QED BY ZenonT(30), <2>1, <2>2 DEF Request, OthersKept
<1>2. CASE file[req[r].path] \notin Valid
  BY Zenon, <1>2, ReturnShape DEF Load
<1> QED BY Zenon, <1>1, <1>2

LEMMA ReadSigShape ==
  ASSUME req \in [Reqs -> Request], NEW r \in Reqs, ReadSig(r)
  PROVE  /\ OthersKept(r)
         /\ req'[r].kind = req[r].kind
         /\ req'[r].path = req[r].path
         /\ req'[r].asked = req[r].asked
         /\ \/ /\ sig[req[r].path] # None
               /\ req'[r].pc = "raw"
               /\ req'[r].loaded = req[r].loaded
               /\ req'[r].sigData = sig[req[r].path]
            \/ sig[req[r].path] = None /\ req'[r].pc = "done"
<1>1. CASE sig[req[r].path] # None
  <2>1. PICK s : s = sig[req[r].path] /\ s # None
    BY Zenon, <1>1
  <2>2. req' = [req EXCEPT ![r] = [@ EXCEPT !.pc = "raw", !.sigData = s]]
    BY Zenon, <2>1 DEF ReadSig
  <2> QED BY ZenonT(30), <2>1, <2>2 DEF Request, OthersKept
<1>2. CASE sig[req[r].path] = None
  BY Zenon, <1>2, ReturnShape DEF ReadSig
<1> QED BY Zenon, <1>1, <1>2

LEMMA VerifyRawShape ==
  ASSUME req \in [Reqs -> Request], NEW r \in Reqs, VerifyRaw(r)
  PROVE  /\ OthersKept(r)
         /\ req'[r].kind = req[r].kind
         /\ req'[r].path = req[r].path
         /\ req'[r].asked = req[r].asked
         /\ \/ /\ file[req[r].path] = req[r].sigData
               /\ req'[r].pc = "replace"
               /\ req'[r].loaded = req[r].loaded
            \/ file[req[r].path] # req[r].sigData /\ req'[r].pc = "done"
<1>1. CASE file[req[r].path] = req[r].sigData
  BY Zenon, <1>1, GoToShape DEF VerifyRaw, Verify, SameRest
<1>2. CASE file[req[r].path] # req[r].sigData
  BY Zenon, <1>2, ReturnShape DEF VerifyRaw, Verify
<1> QED BY Zenon, <1>1, <1>2

\* A request begins with nothing in hand; a rollback has selected a version
\* that exists, the newest unless one was asked for.
LEMMA ReloadShape ==
  ASSUME req \in [Reqs -> Request], NEW r \in Reqs, Reload(r)
  PROVE  /\ OthersKept(r)
         /\ req[r].pc = "idle"
         /\ req'[r].pc = "create"
         /\ req'[r].kind = "reload"
         /\ req'[r].path \in Paths
BY SMTT(30) DEF Reload, Begin, Idle, Request, OthersKept

LEMMA RollbackShape ==
  ASSUME req \in [Reqs -> Request], versions \in Seq(Version), NEW r \in Reqs, Rollback(r)
  PROVE  /\ OthersKept(r)
         /\ req[r].pc = "idle"
         /\ req'[r].pc = "create"
         /\ req'[r].kind = "rollback"
         /\ req'[r].path = Main
         /\ \/ /\ req'[r].asked = None
               /\ Len(versions) \in DOMAIN versions
               /\ req'[r].version = versions[Len(versions)].name
            \/ /\ req'[r].asked # None
               /\ req'[r].version = req'[r].asked
               /\ Has(versions, req'[r].version)
<1>1. PICK asked \in {None} \cup {v.name : v \in Range(listPolicyVersions)} :
        Begin(r, [Idle EXCEPT !.kind = "rollback", !.asked = asked,
                              !.version = SelectVersion(asked)])
  BY Zenon DEF Rollback
<1>2. /\ OthersKept(r)
      /\ req[r].pc = "idle"
      /\ req'[r].pc = "create"
      /\ req'[r].kind = "rollback"
      /\ req'[r].path = Main
      /\ req'[r].asked = asked
      /\ req'[r].version = SelectVersion(asked)
  BY <1>1 DEF Begin, Idle, Request, OthersKept
<1>3. Len(versions) \in Nat /\ DOMAIN versions = 1 .. Len(versions)
  BY Zenon, VersionType
<1>4. Len(versions) >= 1
  BY <1>3, EmptySeq DEF Rollback
<1>5. listPolicyVersions = [i \in 1 .. Len(versions) |-> versions[(Len(versions) - i) + 1]]
  BY Zenon DEF listPolicyVersions
<1>6. CASE asked = None
  <2>1. Head(listPolicyVersions) = versions[Len(versions)]
    BY <1>3, <1>4, <1>5
  <2> QED BY <1>2, <1>3, <1>4, <1>6, <2>1 DEF SelectVersion
<1>7. CASE asked # None
  <2>1. PICK v \in Range(listPolicyVersions) : asked = v.name
    BY Zenon, <1>7
  <2>2. PICK i \in 1 .. Len(versions) : v = versions[(Len(versions) - i) + 1]
    BY Zenon, <1>5, <2>1 DEF Range
  <2>3. (Len(versions) - i) + 1 \in DOMAIN versions
    BY <1>3
  <2> QED BY ZenonT(30), <1>2, <1>7, <2>1, <2>2, <2>3 DEF SelectVersion, Has
<1> QED BY Zenon, <1>2, <1>6, <1>7
-----------------------------------------------------------------------------
(***************************************************************************)
(* The parts of the invariant, one at a time.                              *)
(***************************************************************************)
LEMMA RequestNext ==
  ASSUME StoreType, WellNamed(versions), RequestInv, [Next]_vars
  PROVE  RequestInv'
<1>1. req \in [Reqs -> Request] /\ versions \in Seq(Version)
  BY Zenon DEF StoreType
<1>2. \A name : Has(versions, name) => Has(versions', name)
  BY Zenon, VersionsNext
<1>3. ASSUME NEW x \in Reqs, req'[x] = req[x]
      PROVE  RequestOK(x)'
  BY Zenon, <1>2, <1>3 DEF RequestInv, RequestOK
<1>4. ASSUME NEW r \in Reqs, OthersKept(r), RequestOK(r)'
      PROVE  RequestInv'
  BY Zenon, <1>3, <1>4 DEF RequestInv, OthersKept
<1>5. ASSUME NEW r \in Reqs, Reload(r)
      PROVE  RequestInv'
  BY Zenon, <1>1, <1>4, <1>5, ReloadShape DEF RequestOK
<1>6. ASSUME NEW r \in Reqs, Rollback(r)
      PROVE  RequestInv'
  <2>1. Has(versions, req'[r].version)
    BY Zenon, <1>1, <1>6, RollbackShape DEF Has
  <2> QED BY Zenon, <1>1, <1>2, <1>4, <1>6, <2>1, RollbackShape DEF RequestOK
<1>7. ASSUME NEW r \in Reqs, BackupCreate(r)
      PROVE  RequestInv'
  <2>1. Torn \in Content
    BY Zenon DEF Content
  <2>2. versions' = Append(versions, [name |-> Len(versions) + 1, bytes |-> Torn])
    BY <1>7 DEF BackupCreate
  <2>3. /\ DOMAIN versions' = 1 .. Len(versions) + 1
        /\ versions'[Len(versions) + 1].name = Len(versions) + 1
    BY <1>1, <2>1, <2>2, AddedVersion
  <2>4. Len(versions) + 1 \in DOMAIN versions'
    BY <1>1, <2>3, VersionType
  <2>5. Has(versions', Len(versions) + 1)
    BY Zenon, <2>3, <2>4 DEF Has
  <2>6. RequestOK(r) /\ req[r].pc = "create"
    BY Zenon, <1>7 DEF BackupCreate, RequestInv
  <2> QED BY ZenonT(30), <1>1, <1>2, <1>4, <1>7, <2>5, <2>6, CreateShape DEF RequestOK, SameRest
<1>8. ASSUME NEW r \in Reqs, BackupCopy(r)
      PROVE  RequestInv'
  <2>1. RequestOK(r) /\ req[r].pc = "copy" /\ AfterBackup(r, TRUE)
    BY ZenonT(30), <1>8 DEF BackupCopy, RequestInv
  <2> QED BY Zenon, <1>1, <1>2, <1>4, <2>1, AfterBackupShape DEF RequestOK, SameRest
<1>9. ASSUME NEW r \in Reqs, RollbackTruncate(r) \/ RollbackCopy(r)
      PROVE  RequestInv'
  <2>1. RequestOK(r)
    BY Zenon DEF RequestInv
  <2>2. \/ req[r].pc = "truncate" /\ GoTo(r, "restore")
        \/ req[r].pc = "restore" /\ GoTo(r, "load")
    BY Zenon, <1>9 DEF RollbackTruncate, RollbackCopy
  <2> QED BY <1>1, <1>2, <1>4, <2>1, <2>2, GoToShape DEF RequestOK, SameRest
<1>10. ASSUME NEW r \in Reqs, OperationFails(r)
       PROVE  RequestInv'
  <2>1. RequestOK(r)
    BY DEF RequestInv
  <2>2. AfterBackup(r, FALSE) \/ Return(r)
    BY ZenonT(30), <1>10 DEF OperationFails
  <2> QED BY ZenonT(30), <1>1, <1>4, <2>1, <2>2, AfterBackupShape, ReturnShape DEF RequestOK
<1>11. ASSUME NEW r \in Reqs, Load(r) \/ ReadSig(r) \/ VerifyRaw(r)
       PROVE  RequestInv'
  <2>1. RequestOK(r)
    BY DEF RequestInv
  <2>2. CASE Load(r)
    BY Zenon, <1>1, <1>4, <2>1, <2>2, LoadShape DEF RequestOK
  <2>3. CASE ReadSig(r)
    <3>1. req[r].pc = "sig"
      BY Zenon, <2>3 DEF ReadSig
    <3> QED BY Zenon, <1>1, <1>4, <2>1, <2>3, <3>1, ReadSigShape DEF RequestOK
  <2>4. CASE VerifyRaw(r)
    <3>1. req[r].pc = "raw"
      BY Zenon, <2>4 DEF VerifyRaw
    <3> QED BY Zenon, <1>1, <1>4, <2>1, <2>4, <3>1, VerifyRawShape DEF RequestOK
  <2> QED BY Zenon, <1>11, <2>2, <2>3, <2>4
<1>12. ASSUME NEW r \in Reqs, ReplacePolicy(r)
       PROVE  RequestInv'
  <2>1. RequestOK(r) /\ Return(r)
    BY Zenon, <1>12 DEF RequestInv, ReplacePolicy
  <2> QED BY ZenonT(30), <1>1, <1>4, <2>1, ReturnShape DEF RequestOK
<1>13. CASE Crash
  <2> SUFFICES ASSUME NEW x \in Reqs
               PROVE  RequestOK(x)'
    BY Zenon DEF RequestInv
  <2>1. CASE ~Busy(x)
    BY ZenonT(30), <1>1, <1>3, <1>13, <2>1 DEF Crash
  <2>2. CASE Busy(x)
    <3>1. req'[x] = Returned(req[x])
      BY Zenon, <1>13, <2>2 DEF Crash
    <3>2. req'[x].pc = "done" /\ req'[x].kind = req[x].kind /\ req'[x].path = req[x].path
      BY <1>1, <3>1 DEF Returned, Request
    <3> QED BY Zenon, <3>2 DEF RequestInv, RequestOK
  <2> QED BY Zenon, <2>1, <2>2
<1>14. ASSUME UNCHANGED req
       PROVE  RequestInv'
  BY Zenon, <1>3, <1>14 DEF RequestInv
<1>15. CASE OperatorWrites \/ Boot \/ UNCHANGED vars
  BY Zenon, <1>14, <1>15 DEF OperatorWrites, Boot, vars
<1> QED BY Zenon, <1>5, <1>6, <1>7, <1>8, <1>9, <1>10, <1>11, <1>12, <1>13, <1>15 DEF Next

\* A step that begins no request makes no request busy.
LEMMA AloneNext ==
  ASSUME StoreType, AloneInv, [Next]_vars
  PROVE  AloneInv'
<1>1. req \in [Reqs -> Request]
  BY Zenon DEF StoreType
<1>2. ASSUME NEW r \in Reqs, Reload(r) \/ Rollback(r)
      PROVE  AloneInv'
  <2>1. OthersKept(r)
    BY Zenon, <1>1, <1>2, ReloadShape, RollbackShape DEF StoreType
  <2>2. ~crowded' => \A x \in Reqs : ~Busy(x)
    BY ZenonT(30), <1>2 DEF Reload, Rollback, Begin
  <2> QED BY ZenonT(30), <2>1, <2>2 DEF AloneInv, Busy, OthersKept
<1>3. ASSUME crowded => crowded', \A x \in Reqs : Busy(x)' => Busy(x)
      PROVE  AloneInv'
  BY Zenon, <1>3 DEF AloneInv
<1>4. ASSUME NEW r \in Reqs, OthersKept(r), Busy(r), UNCHANGED crowded
      PROVE  AloneInv'
  BY Zenon, <1>3, <1>4 DEF Busy, OthersKept
<1>5. ASSUME NEW r \in Reqs, BackupCreate(r) \/ BackupCopy(r)
      PROVE  AloneInv'
  BY ZenonT(30), <1>1, <1>4, <1>5, CreateShape, AfterBackupShape DEF BackupCreate, BackupCopy, Busy
<1>6. ASSUME NEW r \in Reqs, RollbackTruncate(r) \/ RollbackCopy(r)
      PROVE  AloneInv'
  BY Zenon, <1>1, <1>4, <1>6, GoToShape DEF RollbackTruncate, RollbackCopy, Busy
<1>7. ASSUME NEW r \in Reqs, OperationFails(r)
      PROVE  AloneInv'
  <2>1. Busy(r) /\ UNCHANGED crowded
    BY Zenon, <1>7 DEF OperationFails, Busy
  <2>2. AfterBackup(r, FALSE) \/ Return(r)
    BY ZenonT(30), <1>7 DEF OperationFails
  <2> QED BY ZenonT(30), <1>1, <1>4, <2>1, <2>2, AfterBackupShape, ReturnShape
<1>8. ASSUME NEW r \in Reqs, Load(r) \/ ReadSig(r) \/ VerifyRaw(r)
      PROVE  AloneInv'
  <2>1. Busy(r) /\ UNCHANGED crowded
    BY Zenon, <1>8 DEF Load, ReadSig, VerifyRaw, Busy
  <2> QED BY Zenon, <1>1, <1>4, <1>8, <2>1, LoadShape, ReadSigShape, VerifyRawShape
<1>9. ASSUME NEW r \in Reqs, ReplacePolicy(r)
      PROVE  AloneInv'
  BY Zenon, <1>1, <1>4, <1>9, ReturnShape DEF ReplacePolicy, Busy
<1>10. CASE Crash
  <2>1. \A x \in Reqs : ~Busy(x)'
    BY ZenonT(30), <1>1, <1>10 DEF Crash, Busy, Returned, Request
  <2> QED BY Zenon, <1>3, <1>10, <2>1 DEF Crash
<1>11. CASE OperatorWrites \/ Boot \/ UNCHANGED vars
  <2>1. CASE OperatorWrites
    <3>1. req' = req /\ crowded' = (crowded \/ \E r \in Reqs : Busy(r))
      BY Zenon, <2>1 DEF OperatorWrites
    <3>2. crowded => crowded'
      BY <3>1, Zenon
    <3> QED BY Zenon, <1>3, <3>1, <3>2 DEF Busy
  <2>2. CASE Boot \/ UNCHANGED vars
    <3>1. UNCHANGED <<req, crowded>>
      BY Zenon, <2>2 DEF Boot, vars
    <3> QED BY Zenon, <1>3, <3>1 DEF Busy
  <2> QED BY Zenon, <1>11, <2>1, <2>2
<1> QED BY Zenon, <1>2, <1>5, <1>6, <1>7, <1>8, <1>9, <1>10, <1>11 DEF Next

LEMMA SignedNext ==
  ASSUME StoreType, RequestInv, AloneInv, SignedInv, [Next]_vars
  PROVE  SignedInv'
<1> SUFFICES ASSUME ~crowded', mishaps' = 0
             PROVE  /\ policy' \in Signed
                    /\ \A x \in Reqs :
                         /\ req'[x].pc \in {"sig", "raw", "replace"}
                              => req'[x].loaded = file'[req'[x].path]
                         /\ req'[x].pc = "raw" => req'[x].sigData \in Signed
                         /\ req'[x].pc = "replace" => req'[x].loaded \in Signed
  BY Zenon DEF SignedInv
<1> DEFINE Good(x) == /\ req[x].pc \in {"sig", "raw", "replace"}
                            => req[x].loaded = file[req[x].path]
                      /\ req[x].pc = "raw" => req[x].sigData \in Signed
                      /\ req[x].pc = "replace" => req[x].loaded \in Signed
<1>1. req \in [Reqs -> Request] /\ mishaps \in Nat
  BY Zenon DEF StoreType
<1>2. ASSUME ~crowded, mishaps = 0
      PROVE  policy \in Signed /\ \A x \in Reqs : Good(x)
  BY Zenon, <1>2 DEF SignedInv
<1>3. ASSUME NEW r \in Reqs, OthersKept(r), ~crowded, UNCHANGED <<file, policy, mishaps>>,
             req'[r].pc \notin {"sig", "raw", "replace"}
      PROVE  policy' \in Signed /\ \A x \in Reqs : Good(x)'
  BY ZenonT(30), <1>2, <1>3 DEF OthersKept
<1>4. ASSUME NEW r \in Reqs, Reload(r) \/ Rollback(r)
      PROVE  policy' \in Signed /\ \A x \in Reqs : Good(x)'
  <2>1. /\ UNCHANGED <<file, policy, mishaps>>
        /\ crowded' = (crowded \/ \E x \in Reqs : Busy(x))
    BY Zenon, <1>4 DEF Reload, Rollback, Begin
  <2>2. ~crowded
    BY <2>1, ZenonT(40)
  <2> QED BY ZenonT(30), <1>1, <1>3, <1>4, <2>1, <2>2, ReloadShape, RollbackShape DEF StoreType
<1>5. ASSUME NEW r \in Reqs, BackupCreate(r) \/ BackupCopy(r)
      PROVE  policy' \in Signed /\ \A x \in Reqs : Good(x)'
  <2>1. ~crowded /\ UNCHANGED <<file, policy, mishaps>>
    <3>1. CASE BackupCreate(r)
      BY ZenonT(30), <3>1 DEF BackupCreate
    <3>2. CASE BackupCopy(r)
      BY Zenon, <3>2 DEF BackupCopy
    <3> QED BY ZenonT(30), <1>5, <3>1, <3>2
  <2>2. OthersKept(r) /\ req'[r].pc \notin {"sig", "raw", "replace"}
    BY Zenon, <1>1, <1>5, CreateShape, AfterBackupShape DEF BackupCopy
  <2> QED BY ZenonT(30), <1>3, <2>1, <2>2
<1>6. ASSUME NEW r \in Reqs, RollbackTruncate(r) \/ RollbackCopy(r)
      PROVE  policy' \in Signed /\ \A x \in Reqs : Good(x)'
  <2>1. ~crowded /\ UNCHANGED <<policy, mishaps>> /\ Busy(r)
    BY SMTT(30), <1>6 DEF RollbackTruncate, RollbackCopy, Busy
  <2>2. OthersKept(r) /\ req'[r].pc \notin {"sig", "raw", "replace"}
    BY <1>1, <1>6, GoToShape DEF RollbackTruncate, RollbackCopy
  <2>3. \A x \in Reqs \ {r} : ~Busy(x)
    BY Zenon, <2>1 DEF AloneInv
  <2> QED BY ZenonT(30), <1>2, <2>1, <2>2, <2>3 DEF OthersKept, Busy
<1>7. ASSUME NEW r \in Reqs, OperationFails(r)
      PROVE  FALSE
  BY SMTT(30), <1>1, <1>7 DEF OperationFails
<1>8. ASSUME NEW r \in Reqs, Load(r) \/ ReadSig(r) \/ VerifyRaw(r)
      PROVE  policy' \in Signed /\ \A x \in Reqs : Good(x)'
  <2>1. ~crowded /\ UNCHANGED <<file, policy, mishaps>>
    BY <1>8 DEF Load, ReadSig, VerifyRaw
  <2>2. policy \in Signed /\ \A x \in Reqs : Good(x)
    BY Zenon, <1>2, <2>1
  <2>3. sig[req[r].path] \in Signed \cup {None}
    BY ZenonT(30) DEF StoreType, Request
  <2>4. OthersKept(r)
    BY ZenonT(30), <1>1, <1>8, LoadShape, ReadSigShape, VerifyRawShape
  <2>5. Good(r)'
    <3>1. CASE Load(r)
      BY ZenonT(30), <1>1, <2>1, <3>1, LoadShape
    <3>2. CASE ReadSig(r)
      <4>1. req[r].pc = "sig"
        BY Zenon, <3>2 DEF ReadSig
      <4> QED BY ZenonT(30), <1>1, <2>1, <2>2, <2>3, <3>2, <4>1, ReadSigShape
    <3>3. CASE VerifyRaw(r)
      <4>1. req[r].pc = "raw"
        BY Zenon, <3>3 DEF VerifyRaw
      <4> QED BY ZenonT(30), <1>1, <2>1, <2>2, <3>3, <4>1, VerifyRawShape
    <3> QED BY ZenonT(30), <1>8, <3>1, <3>2, <3>3
  <2> QED BY ZenonT(30), <2>1, <2>2, <2>4, <2>5 DEF OthersKept
<1>9. ASSUME NEW r \in Reqs, ReplacePolicy(r)
      PROVE  policy' \in Signed /\ \A x \in Reqs : Good(x)'
  <2>1. ~crowded /\ UNCHANGED <<file, mishaps>> /\ req[r].pc = "replace" /\ policy' = req[r].loaded
    BY Zenon, <1>9 DEF ReplacePolicy
  <2>2. \A x \in Reqs : Good(x)
    BY Zenon, <1>2, <2>1
  <2>3. OthersKept(r) /\ req'[r].pc = "done"
    BY ZenonT(30), <1>1, <1>9, ReturnShape DEF ReplacePolicy
  <2> QED BY ZenonT(30), <2>1, <2>2, <2>3 DEF OthersKept
<1>10. CASE OperatorWrites
  <2>1. UNCHANGED <<policy, req, mishaps>> /\ crowded' = (crowded \/ \E r \in Reqs : Busy(r))
    BY Zenon, <1>10 DEF OperatorWrites
  <2>2. ~crowded /\ \A r \in Reqs : ~Busy(r)
    BY <2>1, ZenonT(40)
  <2> QED BY Zenon, <1>2, <2>1, <2>2 DEF Busy
<1>11. CASE Crash
  BY <1>1, <1>11 DEF Crash
<1>12. CASE Boot
  <2>1. policy = None /\ ~crowded /\ mishaps = 0
    BY Zenon, <1>12 DEF Boot
  <2> QED BY Zenon, <1>2, <2>1, StoreAssumption
<1>13. CASE UNCHANGED vars
  BY Zenon, <1>2, <1>13 DEF vars
<1> QED BY ZenonT(30), <1>4, <1>5, <1>6, <1>7, <1>8, <1>9, <1>10, <1>11, <1>12, <1>13 DEF Next

LEMMA TornNext ==
  ASSUME StoreType, WellNamed(versions), RequestInv, AloneInv, TornInv, [Next]_vars
  PROVE  TornInv'
<1> DEFINE Restoring == \E r \in Reqs : req[r].pc = "restore"
           Copied(v) == \E r \in Reqs : req[r].pc = "copy" /\ req[r].backup = v.name
           Whole == /\ file[Main] = Torn <=> Restoring
                    /\ \A i \in DOMAIN versions : versions[i].bytes = Torn => Copied(versions[i])
<1> SUFFICES ASSUME ~crowded', ~mishap'
             PROVE  Whole'
  BY Zenon DEF TornInv
<1>1. /\ req \in [Reqs -> Request] /\ versions \in Seq(Version)
      /\ file \in [Paths -> Content] /\ Main \in Paths
      /\ Torn \in Content /\ Torn \notin Policies
  BY Zenon, StoreAssumption DEF StoreType, Content
<1>2. ASSUME ~crowded, ~mishap
      PROVE  Whole
  BY Zenon, <1>2 DEF TornInv
<1>3. ASSUME NEW r \in Reqs, ~crowded, Busy(r)
      PROVE  \A x \in Reqs : Busy(x) => x = r
  BY Zenon, <1>3 DEF AloneInv
<1>4. ASSUME NEW r \in Reqs, ~crowded, ~mishap, OthersKept(r), UNCHANGED <<file, versions>>,
             req[r].pc \notin {"copy", "restore"}, req'[r].pc \notin {"copy", "restore"}
      PROVE  Whole'
  <2>1. Whole
    BY Zenon, <1>2, <1>4
  <2>2. Restoring' <=> Restoring
    BY Zenon, <1>4 DEF OthersKept
  <2>3. \A v : Copied(v) => \E x \in Reqs : req'[x].pc = "copy" /\ req'[x].backup = v.name
    BY Zenon, <1>4 DEF OthersKept
  <2> QED BY ZenonT(30), <1>4, <2>1, <2>2, <2>3
<1>5. ASSUME NEW r \in Reqs, Reload(r) \/ Rollback(r)
      PROVE  Whole'
  <2>1. /\ UNCHANGED <<file, versions, mishap>>
        /\ crowded' = (crowded \/ \E x \in Reqs : Busy(x))
    BY Zenon, <1>5 DEF Reload, Rollback, Begin
  <2>2. ~crowded
    BY <2>1, ZenonT(40)
  <2>3. OthersKept(r) /\ req[r].pc = "idle" /\ req'[r].pc = "create"
    BY ZenonT(30), <1>1, <1>5, ReloadShape, RollbackShape
  <2> QED BY Zenon, <1>4, <2>1, <2>2, <2>3
<1>6. ASSUME NEW r \in Reqs, BackupCreate(r)
      PROVE  Whole'
  <2>1. /\ ~crowded /\ ~mishap /\ file' = file /\ req[r].pc = "create"
        /\ versions' = Append(versions, [name |-> Len(versions) + 1, bytes |-> Torn])
    BY Zenon, <1>6 DEF BackupCreate
  <2>2. /\ DOMAIN versions' = 1 .. Len(versions) + 1
        /\ \A i \in DOMAIN versions : versions'[i] = versions[i]
        /\ versions'[Len(versions) + 1].name = Len(versions) + 1
    BY SMTT(30), <1>1, <2>1, AddedVersion
  <2>3. OthersKept(r) /\ req'[r].pc = "copy" /\ req'[r].backup = Len(versions) + 1
    BY Zenon, <1>1, <1>6, CreateShape
  <2>4. Restoring' <=> Restoring
    BY Zenon, <2>1, <2>3 DEF OthersKept
  <2>5. ASSUME NEW i \in DOMAIN versions', versions'[i].bytes = Torn
        PROVE  \E x \in Reqs : req'[x].pc = "copy" /\ req'[x].backup = versions'[i].name
    <3>1. CASE i \in DOMAIN versions
      BY ZenonT(30), <1>2, <2>1, <2>2, <2>3, <2>5, <3>1 DEF OthersKept
    <3>2. CASE i \notin DOMAIN versions
      <4>1. i = Len(versions) + 1
        BY SMTT(30), <1>1, <2>2, <3>2, VersionType
      <4> QED BY Zenon, <2>2, <2>3, <4>1
    <3> QED BY Zenon, <3>1, <3>2
  <2> QED BY Zenon, <1>2, <2>1, <2>4, <2>5
<1>7. ASSUME NEW r \in Reqs, BackupCopy(r)
      PROVE  Whole'
  <2>1. ~crowded /\ ~mishap /\ file' = file /\ req[r].pc = "copy" /\ Busy(r) /\ AfterBackup(r, TRUE)
    BY ZenonT(30), <1>7 DEF BackupCopy, Busy
  <2>2. Whole
    BY Zenon, <1>2, <2>1
  <2>3. ~Restoring
    BY Zenon, <1>3, <2>1 DEF Busy
  <2>4. file[Main] # Torn
    BY Zenon, <2>2, <2>3
  <2>5. ~Restoring'
    BY ZenonT(30), <1>1, <2>1, <2>3, AfterBackupShape DEF OthersKept
  <2> DEFINE n == Place(req[r].backup)
  <2>6. n \in DOMAIN versions /\ versions[n].name = req[r].backup
    BY ZenonT(30), <2>1, PlaceOf DEF RequestInv, RequestOK
  <2>7. versions' = Append(RemoveAt(versions, n), [name |-> versions[n].name, bytes |-> file[Main]])
    BY Zenon, <1>7, <2>4, <2>6 DEF BackupCopy
  <2>8. file[Main] \in Content
    BY Zenon, <1>1
  <2> HIDE DEF n
  <2>9. /\ versions'[Len(versions)] = [name |-> versions[n].name, bytes |-> file[Main]]
        /\ \A j \in DOMAIN versions' :
             j = Len(versions) \/ \E i \in DOMAIN versions \ {n} : versions'[j] = versions[i]
    BY SMTT(30), <1>1, <2>6, <2>7, <2>8, MovedVersion
  <2>10. versions'[Len(versions)].bytes # Torn
    BY SMTT(30), <2>4, <2>9
  <2>11. \A i \in DOMAIN versions \ {n} : versions[i].bytes # Torn
    <3> SUFFICES ASSUME NEW i \in DOMAIN versions \ {n}, versions[i].bytes = Torn
                 PROVE  FALSE
      BY Zenon
    <3>1. PICK x \in Reqs : req[x].pc = "copy" /\ req[x].backup = versions[i].name
      BY Zenon, <2>2
    <3>2. x = r
      BY ZenonT(30), <1>3, <2>1, <3>1 DEF Busy
    <3> QED BY Zenon, <2>6, <3>1, <3>2 DEF WellNamed
  <2>12. \A j \in DOMAIN versions' : versions'[j].bytes # Torn
    BY ZenonT(30), <2>9, <2>10, <2>11
  <2> QED BY Zenon, <2>1, <2>4, <2>5, <2>12
<1>8. ASSUME NEW r \in Reqs, RollbackTruncate(r)
      PROVE  Whole'
  <2>1. /\ ~crowded /\ ~mishap /\ versions' = versions /\ req[r].pc = "truncate" /\ Busy(r)
        /\ file'[Main] = Torn /\ GoTo(r, "restore")
    BY ZenonT(30), <1>1, <1>8 DEF RollbackTruncate, Busy
  <2>2. req'[r].pc = "restore"
    BY ZenonT(30), <1>1, <2>1, GoToShape
  <2>3. \A i \in DOMAIN versions : versions[i].bytes # Torn
    BY ZenonT(30), <1>2, <1>3, <2>1 DEF Busy
  <2> QED BY ZenonT(30), <2>1, <2>2, <2>3
<1>9. ASSUME NEW r \in Reqs, RollbackCopy(r)
      PROVE  Whole'
  <2>1. ~crowded /\ ~mishap /\ versions' = versions /\ req[r].pc = "restore" /\ Busy(r) /\ GoTo(r, "load")
    BY Zenon, <1>9 DEF RollbackCopy, Busy
  <2>2. file[Main] = Torn /\ \A i \in DOMAIN versions : versions[i].bytes # Torn
    BY ZenonT(30), <1>2, <1>3, <2>1 DEF Busy
  <2>3. ~Restoring'
    BY <1>1, <1>3, <2>1, GoToShape DEF OthersKept, Busy
  <2>4. file'[Main] = Bytes(req[r].version)
    BY Zenon, <1>1, <1>9, <2>2 DEF RollbackCopy
  <2>5. PICK i \in DOMAIN versions : versions[i].name = req[r].version
    BY Zenon, <2>1 DEF RequestInv, RequestOK, Has
  <2>6. \E v \in Range(versions) : v.name = req[r].version
    BY Zenon, <2>5 DEF Range
  <2>7. \A v \in Range(versions) : v.bytes # Torn
    BY Zenon, <2>2 DEF Range
  <2>8. Bytes(req[r].version) # Torn
    BY Zenon, <2>6, <2>7 DEF Bytes
  <2> QED BY ZenonT(30), <2>1, <2>2, <2>3, <2>4, <2>8
<1>10. ASSUME NEW r \in Reqs, OperationFails(r)
       PROVE  FALSE
  BY Zenon, <1>10 DEF OperationFails
<1>11. ASSUME NEW r \in Reqs, Load(r) \/ ReadSig(r) \/ VerifyRaw(r) \/ ReplacePolicy(r)
       PROVE  Whole'
  <2>1. ~crowded /\ ~mishap /\ UNCHANGED <<file, versions>> /\ req[r].pc \notin {"copy", "restore"}
    BY SMTT(30), <1>11 DEF Load, ReadSig, VerifyRaw, ReplacePolicy
  <2>2. OthersKept(r) /\ req'[r].pc \notin {"copy", "restore"}
    BY ZenonT(40), <1>1, <1>11, LoadShape, ReadSigShape, VerifyRawShape, ReturnShape DEF ReplacePolicy
  <2> QED BY Zenon, <1>4, <2>1, <2>2
<1>12. CASE OperatorWrites
  <2>1. UNCHANGED <<versions, req, mishap>> /\ crowded' = (crowded \/ \E r \in Reqs : Busy(r))
    BY Zenon, <1>12 DEF OperatorWrites
  <2>2. ~crowded /\ \A r \in Reqs : ~Busy(r)
    BY <2>1, Zenon
  <2>3. ~Restoring /\ file[Main] # Torn /\ \A i \in DOMAIN versions : versions[i].bytes # Torn
    BY Zenon, <1>2, <2>1, <2>2 DEF Busy
  <2>4. file'[Main] # Torn
    BY Zenon, <1>1, <1>12, <2>3 DEF OperatorWrites
  <2> QED BY Zenon, <2>1, <2>3, <2>4
<1>13. CASE Crash
  <2>1. /\ UNCHANGED <<file, versions, crowded>>
        /\ mishap' = (mishap \/ \E r \in Reqs : req[r].pc \in {"copy", "restore"})
    BY Zenon, <1>13 DEF Crash
  <2>2. ~mishap /\ \A r \in Reqs : req[r].pc \notin {"copy", "restore"}
    BY <2>1, Zenon
  <2>3. file[Main] # Torn /\ \A i \in DOMAIN versions : versions[i].bytes # Torn
    BY Zenon, <1>2, <2>1, <2>2
  <2>4. \A r \in Reqs : req'[r].pc # "restore"
    BY ZenonT(30), <1>1, <1>13, <2>2 DEF Crash, Returned, Request
  <2> QED BY Zenon, <2>1, <2>3, <2>4
<1>14. CASE Boot \/ UNCHANGED vars
  <2>1. UNCHANGED <<file, versions, req, crowded, mishap>>
    BY Zenon, <1>14 DEF Boot, vars
  <2> QED BY ZenonT(30), <1>2, <2>1
<1> QED BY ZenonT(30), <1>5, <1>6, <1>7, <1>8, <1>9, <1>10, <1>11, <1>12, <1>13, <1>14 DEF Next
-----------------------------------------------------------------------------
LEMMA StoreInvInit == Init => StoreInv
<1> SUFFICES ASSUME Init
             PROVE  StoreInv
  BY Zenon
<1>1. PICK p \in Valid \cap Signed, q \in Policies :
        /\ file = [f \in Paths |-> IF f = Main THEN p ELSE q]
        /\ sig = [f \in Paths |-> IF f = Main THEN p ELSE None]
        /\ policy = p
  BY Zenon DEF Init
<1>2. req = [r \in Reqs |-> Idle] /\ Idle.pc = "idle" /\ Idle.kind = "none"
  BY Zenon DEF Init, Idle
<1>3. /\ versions \in Seq(Version)
      /\ WellNamed(versions)
      /\ \A i \in DOMAIN versions : versions[i].bytes # Torn
  <2>1. CASE versions = << >>
    BY <2>1 DEF WellNamed
  <2>2. ASSUME NEW v \in Policies, versions = <<[name |-> 1, bytes |-> v]>>
        PROVE  /\ versions \in Seq(Version)
               /\ WellNamed(versions)
               /\ \A i \in DOMAIN versions : versions[i].bytes # Torn
    <3>1. [name |-> 1, bytes |-> v] \in Version
      BY Zenon DEF Version, Content
    <3>2. versions \in Seq(Version) /\ Len(versions) = 1 /\ DOMAIN versions = {1}
      BY <2>2, <3>1
    <3>3. versions[1].name = 1 /\ versions[1].bytes = v
      BY Zenon, <2>2
    <3> QED BY <3>2, <3>3, StoreAssumption DEF WellNamed
  <2> QED BY Zenon, <2>1, <2>2 DEF Init
<1>4. StoreType
  <2>1. file \in [Paths -> Content] /\ sig \in [Paths -> Signed \cup {None}] /\ policy \in Policies
    BY Zenon, <1>1, StoreAssumption DEF Content
  <2>2. req \in [Reqs -> Request]
    BY Zenon, <1>2, IdleIsRequest
  <2> QED BY ZenonT(30), <1>3, <2>1, <2>2 DEF Init, StoreType
<1>5. RequestInv /\ AloneInv
  BY Zenon, <1>2 DEF RequestInv, RequestOK, AloneInv, Busy
<1>6. SignedInv
  BY Zenon, <1>1, <1>2 DEF SignedInv
<1>7. TornInv
  BY Zenon, <1>1, <1>2, <1>3, StoreAssumption DEF TornInv
<1> QED BY ZenonT(30), <1>3, <1>4, <1>5, <1>6, <1>7 DEF StoreInv

LEMMA StoreInvNext == StoreInv /\ [Next]_vars => StoreInv'
<1> SUFFICES ASSUME StoreInv, [Next]_vars
             PROVE  StoreInv'
  BY Zenon
<1>1. /\ StoreType /\ WellNamed(versions) /\ RequestInv /\ AloneInv /\ SignedInv /\ TornInv
  BY Zenon DEF StoreInv
<1>2. StoreType' /\ WellNamed(versions')
  BY Zenon, <1>1, TypeNext, VersionsNext
<1>3. RequestInv' /\ AloneInv'
  BY Zenon, <1>1, RequestNext, AloneNext
<1>4. SignedInv' /\ TornInv'
  BY Zenon, <1>1, SignedNext, TornNext
<1> QED BY Zenon, <1>2, <1>3, <1>4 DEF StoreInv

LEMMA StoreInvAlways == Spec => []StoreInv
BY StoreInvInit, StoreInvNext, PTL DEF Spec

\* However requests, operators and restarts interleave, a policy without a
\* signature comes into force only through a race on the file or a start of the
\* agent (the two reads of Load and verifyPolicySig in server.go).
THEOREM UnsignedNeedsRaceOrBoot == Spec => []UnsignedOnlyByRaceOrBoot
<1>1. StoreInv => UnsignedOnlyByRaceOrBoot
  <2> SUFFICES ASSUME StoreInv, policy \notin Signed, ~crowded, ~(mishaps > 0)
               PROVE  FALSE
    BY Zenon DEF UnsignedOnlyByRaceOrBoot
  <2>1. mishaps = 0
    BY SMTT(30) DEF StoreInv, StoreType
  <2> QED BY Zenon, <2>1 DEF StoreInv, SignedInv
<1> QED BY <1>1, StoreInvAlways, PTL

\* Outside the truncation and the copy of a rollback the policy file is torn
\* only by a failed operation, a crash inside a copy or requests that have met
\* (backupPolicy and rollbackPolicy in server.go).
THEOREM TornNeedsMishap == Spec => []TornOnlyByMishap
<1>1. StoreInv => TornOnlyByMishap
  BY Zenon DEF StoreInv, TornInv, TornOnlyByMishap
<1> QED BY <1>1, StoreInvAlways, PTL
-----------------------------------------------------------------------------
(***************************************************************************)
(* A request that nobody disturbs                                          *)
(***************************************************************************)
LEMMA RemoveLast ==
  ASSUME NEW vs \in Seq(Version), NEW e \in Version
  PROVE  RemoveAt(Append(vs, e), Len(vs) + 1) = vs
<1> DEFINE ws == Append(vs, e)
           n == Len(vs)
           us == SubSeq(ws, 1, n)
<1>1. n \in Nat
  BY Zenon, LenProperties
<1>2. ws \in Seq(Version) /\ Len(ws) = n + 1 /\ \A i \in 1 .. n : ws[i] = vs[i]
  BY AppendProperties
<1>3. \A i \in 1 .. n : vs[i] \in Version
  BY Zenon, ElementOfSeq
<1> HIDE DEF ws, n
<1>4. us \in Seq(Version) /\ Len(us) = n /\ \A i \in 1 .. n : us[i] = vs[i]
  <2>1. 1 \in Int /\ n \in Int /\ \A i \in 1 .. n : ws[i] \in Version
    BY SMTT(30), <1>1, <1>2, <1>3
  <2>2. /\ us \in Seq(Version)
        /\ Len(us) = IF 1 <= n THEN n - 1 + 1 ELSE 0
        /\ \A i \in 1 .. n - 1 + 1 : us[i] = ws[1 + i - 1]
    BY <2>1, SubSeqProperties
  <2> HIDE DEF us
  <2>3. Len(us) = n
    BY <1>1, <2>2
  <2>4. ASSUME NEW i \in 1 .. n
        PROVE  us[i] = vs[i]
    <3>1. i \in 1 .. n - 1 + 1 /\ 1 + i - 1 = i
      BY <1>1
    <3> QED BY Zenon, <1>2, <2>2, <3>1
  <2> QED BY Zenon, <2>2, <2>3, <2>4
<1> HIDE DEF us
<1>5. us = vs
  BY Zenon, <1>4, SeqEqual DEF n
<1>6. SubSeq(ws, (n + 1) + 1, Len(ws)) = << >>
  <2>1. (n + 1) + 1 \in Int /\ Len(ws) \in Int /\ Len(ws) < (n + 1) + 1
    BY <1>1, <1>2
  <2> QED BY Zenon, <2>1, SubSeqEmpty
<1>7. (n + 1) - 1 = n
  BY <1>1
<1>8. RemoveAt(ws, n + 1) = us \o << >>
  BY Zenon, <1>6, <1>7 DEF RemoveAt, us
<1> QED BY Zenon, <1>5, <1>8, ConcatEmptySeq DEF ws, n

\* The version of a name is unique.
LEMMA TheVersion ==
  ASSUME NEW vs \in Seq(Version), WellNamed(vs), NEW i \in DOMAIN vs
  PROVE  (CHOOSE v \in Range(vs) : v.name = vs[i].name) = vs[i]
<1>1. \E v \in Range(vs) : v.name = vs[i].name
  BY Zenon DEF Range
<1>2. \A v \in Range(vs) : v.name = vs[i].name => v = vs[i]
  BY Zenon DEF Range, WellNamed
<1> QED BY Zenon, <1>1, <1>2

LEMMA BeginProgress ==
  ASSUME StoreInv, NEW r \in Reqs, Reload(r) \/ Rollback(r)
  PROVE  Progress(before[r], req[r])'
<1> DEFINE b == before'[r]
           q == req'[r]
<1>1. /\ StoreType /\ req \in [Reqs -> Request] /\ versions \in Seq(Version) /\ WellNamed(versions)
      /\ file \in [Paths -> Content]
  BY Zenon DEF StoreInv, StoreType
<1>2. /\ b = Store /\ policy # None /\ UNCHANGED <<file, sig, versions, policy>>
  BY ZenonT(30), <1>1 DEF Reload, Rollback, Begin, StoreType
<1>3. b.file = file /\ b.sig = sig /\ b.versions = versions /\ b.policy = policy
  BY SMTT(30), <1>2 DEF Store
<1>4. q.pc = "create" /\ q.kind \in {"reload", "rollback"}
  BY Zenon, <1>1, ReloadShape, RollbackShape
<1>5. ASSUME q.kind = "rollback"
      PROVE  \E i \in DOMAIN versions :
               versions[i].name = q.version /\ versions[i].bytes = Chosen(b, q)
  <2>1. Rollback(r)
    BY Zenon, <1>1, <1>5, ReloadShape
  <2>2. CASE q.asked = None
    <3>1. Len(versions) \in DOMAIN versions /\ q.version = versions[Len(versions)].name
      BY ZenonT(40), <1>1, <2>1, <2>2, RollbackShape
    <3>2. Chosen(b, q) = versions[Len(versions)].bytes
      BY Zenon, <1>3, <2>2 DEF Chosen, Newest
    <3> QED BY Zenon, <3>1, <3>2
  <2>3. CASE q.asked # None
    <3>1. q.version = q.asked /\ Has(versions, q.version)
      BY ZenonT(40), <1>1, <2>1, <2>3, RollbackShape
    <3>2. PICK i \in DOMAIN versions : versions[i].name = q.version
      BY ZenonT(30), <3>1 DEF Has
    <3>3. Chosen(b, q) = (CHOOSE v \in Range(versions) : v.name = versions[i].name).bytes
      BY ZenonT(30), <1>3, <2>3, <3>1, <3>2 DEF Chosen, Asked
    <3> QED BY ZenonT(60), <1>1, <3>2, <3>3, TheVersion
  <2> QED BY Zenon, <2>2, <2>3
<1> HIDE DEF b, q
<1>6. /\ b.versions \in Seq(Version) /\ WellNamed(b.versions) /\ b.file \in [Paths -> Content]
      /\ sig' = b.sig /\ policy' # None /\ policy' = b.policy
      /\ file' = b.file /\ versions' = b.versions
  BY ZenonT(30), <1>1, <1>2, <1>3
<1> QED BY ZenonT(30), <1>3, <1>4, <1>5, <1>6 DEF Progress, b, q

\* The steps of the backup.
LEMMA BackupProgress ==
  ASSUME StoreInv, NEW r \in Reqs, before[r] # None, Progress(before[r], req[r]),
         BackupCreate(r) \/ BackupCopy(r)
  PROVE  Progress(before[r], req[r])'
<1> DEFINE b == before[r]
           q == req[r]
           p == req'[r]
<1>1. /\ req \in [Reqs -> Request]
      /\ versions \in Seq(Version) /\ WellNamed(versions)
  BY Zenon DEF StoreInv, StoreType
<1>2. before'[r] = b /\ UNCHANGED <<file, sig, policy>>
  BY ZenonT(30) DEF BackupCreate, BackupCopy, Disturb
<1>3. /\ b.versions \in Seq(Version) /\ WellNamed(b.versions) /\ b.file \in [Paths -> Content]
      /\ sig = b.sig /\ policy # None /\ q.kind # "none"
  BY Zenon DEF Progress
<1>4. CASE BackupCreate(r)
  <2>1. /\ q.pc = "create" /\ p.pc = "copy" /\ SameRest(r)
        /\ p.backup = Len(versions) + 1
        /\ versions' = Append(versions, [name |-> Len(versions) + 1, bytes |-> Torn])
    BY ZenonT(30), <1>1, <1>4, CreateShape DEF BackupCreate
  <2>2. file = b.file /\ versions = b.versions /\ policy = b.policy
    BY ZenonT(30), <2>1 DEF Progress
  <2>3. versions' = WithBackup(b, Torn) /\ p.backup = Len(b.versions) + 1
    BY ZenonT(30), <2>1, <2>2 DEF WithBackup
  <2>4. p.kind = q.kind /\ p.version = q.version /\ Chosen(b, p) = Chosen(b, q)
    BY Zenon, <2>1 DEF SameRest, Chosen
  <2>5. p.kind = "rollback" =>
          \E i \in DOMAIN b.versions :
            b.versions[i].name = p.version /\ b.versions[i].bytes = Chosen(b, p)
    BY ZenonT(30), <2>1, <2>4 DEF Progress
  <2> QED BY ZenonT(60), <1>2, <1>3, <2>1, <2>2, <2>3, <2>4, <2>5 DEF Progress
<1>5. CASE BackupCopy(r)
  <2>1. q.pc = "copy" /\ AfterBackup(r, TRUE)
    BY ZenonT(30), <1>5 DEF BackupCopy
  <2>2. /\ file = b.file /\ policy = b.policy
        /\ versions = WithBackup(b, Torn)
        /\ q.backup = Len(b.versions) + 1
    BY ZenonT(30), <2>1 DEF Progress
  <2>3. versions' = WithBackup(b, b.file[Main])
    <3>1. CASE file[Main] = Torn
      BY ZenonT(30), <1>5, <2>2, <3>1 DEF BackupCopy
    <3>2. CASE file[Main] # Torn
      <4> DEFINE e == [name |-> Len(b.versions) + 1, bytes |-> Torn]
                 n == Len(b.versions) + 1
      <4>1. Torn \in Content /\ Len(b.versions) \in Nat
        BY Zenon, <1>3, LenProperties DEF Content
      <4>2. e \in Version
        BY SMTT(30), <4>1 DEF Version
      <4>3. versions = Append(b.versions, e)
        BY Zenon, <2>2 DEF WithBackup
      <4>4. n \in DOMAIN versions /\ versions[n].name = n
        <5>1. DOMAIN versions = 1 .. Len(b.versions) + 1 /\ versions[Len(b.versions) + 1] = e
          BY ZenonT(30), <1>3, <4>1, <4>3, AddedVersion
        <5>2. n \in 1 .. Len(b.versions) + 1
          BY SMTT(30), <4>1
        <5> QED BY SMTT(30), <5>1, <5>2
      <4>5. Has(versions, q.backup)
        BY ZenonT(30), <2>2, <4>4 DEF Has
      <4>6. Place(q.backup) = n
        BY SMTT(30), <1>1, <2>2, <4>4, <4>5, PlaceOf DEF WellNamed
      <4>7. RemoveAt(versions, n) = b.versions
        BY ZenonT(30), <1>3, <4>2, <4>3, RemoveLast
      <4>8. versions' = Append(RemoveAt(versions, Place(q.backup)),
                               [name |-> q.backup, bytes |-> file[Main]])
        BY Zenon, <1>5, <3>2 DEF BackupCopy
      <4> QED BY ZenonT(30), <2>2, <4>6, <4>7, <4>8 DEF WithBackup
    <3> QED BY Zenon, <3>1, <3>2
  <2>4. /\ p.kind = q.kind
        /\ \/ p.pc = "load" /\ q.kind = "reload"
           \/ p.pc = "truncate" /\ q.kind = "rollback" /\ SameRest(r)
    BY ZenonT(30), <1>1, <1>3, <2>1, AfterBackupShape DEF Request
  <2>5. p.pc = "load" => file' = FileAfter(b, p)
    BY ZenonT(30), <1>2, <2>2, <2>4 DEF FileAfter
  <2>6. p.pc = "truncate" =>
          \E i \in DOMAIN b.versions :
            b.versions[i].name = p.version /\ b.versions[i].bytes = Chosen(b, p)
    <3> SUFFICES ASSUME p.pc = "truncate"
                 PROVE  \E i \in DOMAIN b.versions :
                          b.versions[i].name = p.version /\ b.versions[i].bytes = Chosen(b, p)
      BY ZenonT(30)
    <3>1. q.kind = "rollback" /\ p.version = q.version /\ Chosen(b, p) = Chosen(b, q)
      BY ZenonT(30), <2>4 DEF SameRest, Chosen
    <3> QED BY ZenonT(30), <2>1, <3>1 DEF Progress
  <2> QED BY ZenonT(60), <1>2, <1>3, <2>2, <2>3, <2>4, <2>5, <2>6 DEF Progress
<1> QED BY Zenon, <1>4, <1>5

\* The steps of rollbackPolicy.
LEMMA RollbackProgress ==
  ASSUME StoreInv, NEW r \in Reqs, before[r] # None, Progress(before[r], req[r]),
         RollbackTruncate(r) \/ RollbackCopy(r)
  PROVE  Progress(before[r], req[r])'
<1> DEFINE b == before[r]
           q == req[r]
           p == req'[r]
<1>1. /\ req \in [Reqs -> Request]
      /\ versions \in Seq(Version) /\ WellNamed(versions)
      /\ file \in [Paths -> Content]
  BY Zenon DEF StoreInv, StoreType
<1>2. before'[r] = b /\ UNCHANGED <<versions, sig, policy>>
  BY Zenon DEF RollbackTruncate, RollbackCopy, Disturb
<1>3. /\ b.versions \in Seq(Version) /\ WellNamed(b.versions) /\ b.file \in [Paths -> Content]
      /\ sig = b.sig /\ policy # None /\ q.kind # "none"
  BY Zenon DEF Progress
<1>4. /\ q.pc \in {"truncate", "restore"} /\ SameRest(r)
      /\ p.pc = IF q.pc = "truncate" THEN "restore" ELSE "load"
  BY ZenonT(30), <1>1, GoToShape DEF RollbackTruncate, RollbackCopy
<1>5. /\ q.kind = "rollback"
      /\ policy = b.policy
      /\ versions = WithBackup(b, b.file[Main])
  BY ZenonT(30), <1>4 DEF Progress, StoreInv, RequestInv, RequestOK
<1>6. p.kind = q.kind /\ p.version = q.version /\ Chosen(b, p) = Chosen(b, q)
  BY ZenonT(30), <1>4 DEF SameRest, Chosen
<1>7. PICK i \in DOMAIN b.versions :
        b.versions[i].name = q.version /\ b.versions[i].bytes = Chosen(b, q)
  BY ZenonT(30), <1>4, <1>5 DEF Progress
<1>8. CASE RollbackTruncate(r)
  <2>1. q.pc = "truncate" /\ file' = [file EXCEPT ![Main] = Torn]
    BY ZenonT(30), <1>8 DEF RollbackTruncate
  <2>2. file = b.file
    BY ZenonT(30), <2>1 DEF Progress
  <2> QED BY ZenonT(60), <1>2, <1>3, <1>4, <1>5, <1>6, <1>7, <2>1, <2>2 DEF Progress
<1>9. CASE RollbackCopy(r)
  <2>1. q.pc = "restore"
    BY ZenonT(30), <1>9 DEF RollbackCopy
  <2>2. file = [b.file EXCEPT ![Main] = Torn]
    BY ZenonT(30), <2>1 DEF Progress
  <2>3. file[Main] = Torn
    BY ZenonT(30), <1>3, <2>2, StoreAssumption
  <2>4. file' = [file EXCEPT ![Main] = Bytes(q.version)]
    BY Zenon, <1>9, <2>3 DEF RollbackCopy
  <2>5. Bytes(q.version) = Chosen(b, q)
    <3>1. b.file[Main] \in Content
      BY Zenon, <1>3, StoreAssumption
    <3>2. /\ \A j \in DOMAIN b.versions : versions[j] = b.versions[j]
          /\ DOMAIN versions = 1 .. Len(b.versions) + 1
      BY ZenonT(60), <1>3, <1>5, <3>1, AddedVersion DEF WithBackup
    <3>3. i \in DOMAIN versions
      <4>1. DOMAIN b.versions = 1 .. Len(b.versions) /\ Len(b.versions) \in Nat
        BY ZenonT(30), <1>3, LenProperties
      <4> QED BY <3>2, <4>1
    <3>4. versions[i].name = q.version /\ versions[i].bytes = Chosen(b, q)
      BY Zenon, <1>7, <3>2
    <3>5. (CHOOSE v \in Range(versions) : v.name = versions[i].name) = versions[i]
      BY ZenonT(30), <1>1, <3>3, TheVersion
    <3>6. Bytes(q.version) = (CHOOSE v \in Range(versions) : v.name = versions[i].name).bytes
      BY Zenon, <3>4 DEF Bytes
    <3> QED BY ZenonT(30), <3>4, <3>5, <3>6
  <2>6. file' = FileAfter(b, p)
    <3>1. FileAfter(b, p) = [b.file EXCEPT ![Main] = Chosen(b, p)]
      BY ZenonT(30), <1>5, <1>6 DEF FileAfter, Chosen
    <3> QED BY ZenonT(30), <1>3, <1>6, <2>2, <2>4, <2>5, <3>1
  <2> QED BY ZenonT(30), <1>2, <1>3, <1>4, <1>5, <1>6, <2>1, <2>6 DEF Progress
<1> QED BY Zenon, <1>8, <1>9

\* The load, the signature check and ReplacePolicy.
LEMMA LoadProgress ==
  ASSUME StoreInv, NEW r \in Reqs, before[r] # None, Progress(before[r], req[r]),
         Load(r) \/ ReadSig(r) \/ VerifyRaw(r) \/ ReplacePolicy(r)
  PROVE  Progress(before[r], req[r])'
<1> DEFINE b == before[r]
           q == req[r]
           p == req'[r]
           f == file[q.path]
<1>1. req \in [Reqs -> Request] /\ RequestOK(r)
  BY Zenon DEF StoreInv, StoreType, RequestInv
<1>2. before'[r] = b /\ UNCHANGED <<file, versions, sig>>
  BY Zenon DEF Load, ReadSig, VerifyRaw, ReplacePolicy, Disturb
<1>3. /\ b.versions \in Seq(Version) /\ WellNamed(b.versions) /\ b.file \in [Paths -> Content]
      /\ sig = b.sig /\ policy # None /\ q.kind # "none"
  BY Zenon DEF Progress
<1>4. q.pc \in {"load", "sig", "raw", "replace"}
  BY Zenon DEF Load, ReadSig, VerifyRaw, ReplacePolicy
<1>5. /\ versions = WithBackup(b, b.file[Main])
      /\ file = FileAfter(b, q) /\ policy = b.policy
  BY ZenonT(30), <1>4 DEF Progress
<1>6. /\ p.kind = q.kind /\ p.path = q.path /\ p.asked = q.asked
  BY ZenonT(30), <1>1, LoadShape, ReadSigShape, VerifyRawShape, ReturnShape DEF ReplacePolicy
<1>7. FileAfter(b, p) = FileAfter(b, q)
  BY ZenonT(30), <1>6 DEF FileAfter
<1>8. PolicyAfter(b, p) = IF f \in Valid /\ sig[q.path] = f THEN f ELSE b.policy
  BY ZenonT(30), <1>3, <1>5, <1>6, <1>7 DEF PolicyAfter
<1>9. CASE Load(r)
  <2>1. UNCHANGED policy
    BY Zenon, <1>9 DEF Load
  <2>2. \/ p.pc = "sig" /\ p.loaded = f
        \/ p.pc = "done" /\ f \notin Valid
    BY ZenonT(30), <1>1, <1>9, LoadShape
  <2>3. p.pc = "done" => policy' = PolicyAfter(b, p)
    BY ZenonT(30), <1>5, <1>8, <2>1, <2>2
  <2> HIDE DEF f
  <2> QED BY ZenonT(30), <1>2, <1>3, <1>5, <1>6, <1>7, <2>1, <2>2, <2>3 DEF Progress, f
<1>10. CASE ReadSig(r)
  <2>1. UNCHANGED policy /\ q.pc = "sig"
    BY Zenon, <1>10 DEF ReadSig
  <2>2. q.loaded = f /\ q.loaded \in Valid
    BY ZenonT(30), <1>1, <2>1 DEF Progress, RequestOK
  <2>3. \/ p.pc = "raw" /\ p.loaded = f /\ p.sigData = sig[q.path]
        \/ p.pc = "done" /\ sig[q.path] = None
    BY Zenon, <1>1, <1>10, <2>2, ReadSigShape
  <2>4. p.pc = "done" => policy' = PolicyAfter(b, p)
    BY ZenonT(30), <1>5, <1>8, <2>1, <2>2, <2>3, StoreAssumption
  <2> QED BY ZenonT(30), <1>2, <1>3, <1>5, <1>6, <1>7, <2>1, <2>3, <2>4 DEF Progress
<1>11. CASE VerifyRaw(r)
  <2>1. UNCHANGED policy /\ q.pc = "raw"
    BY ZenonT(30), <1>11 DEF VerifyRaw
  <2>2. q.loaded = f /\ q.sigData = sig[q.path]
    BY ZenonT(30), <2>1 DEF Progress
  <2>3. \/ p.pc = "replace" /\ p.loaded = f /\ f = sig[q.path]
        \/ p.pc = "done" /\ sig[q.path] # f
    BY ZenonT(30), <1>1, <1>11, <2>2, VerifyRawShape
  <2>4. p.pc = "done" => policy' = PolicyAfter(b, p)
    <3> SUFFICES ASSUME p.pc = "done"
                 PROVE  policy' = PolicyAfter(b, p)
      BY Zenon
    <3>1. sig[q.path] # f
      BY ZenonT(30), <2>3
    <3>2. PolicyAfter(b, p) = b.policy
      BY ZenonT(30), <1>8, <3>1
    <3> QED BY ZenonT(30), <1>5, <2>1, <3>2
  <2> QED BY ZenonT(30), <1>2, <1>3, <1>5, <1>6, <1>7, <2>1, <2>3, <2>4 DEF Progress
<1>12. CASE ReplacePolicy(r)
  <2>1. q.pc = "replace" /\ policy' = q.loaded /\ Return(r)
    BY ZenonT(30), <1>12 DEF ReplacePolicy
  <2>2. q.loaded = f /\ q.loaded = sig[q.path] /\ q.loaded \in Valid
    BY ZenonT(30), <1>1, <2>1 DEF Progress, RequestOK
  <2>3. p.pc = "done"
    BY ZenonT(30), <1>1, <2>1, ReturnShape
  <2>4. policy' = PolicyAfter(b, p) /\ policy' # None
    <3>1. PolicyAfter(b, p) = f
      BY ZenonT(30), <1>8, <2>2
    <3>2. None \notin Valid
      BY ZenonT(30), StoreAssumption
    <3> QED BY ZenonT(30), <2>1, <2>2, <3>1, <3>2
  <2> QED BY ZenonT(30), <1>2, <1>3, <1>5, <1>6, <1>7, <2>3, <2>4 DEF Progress
<1> QED BY ZenonT(30), <1>9, <1>10, <1>11, <1>12

\* A step of somebody else that changes the store ends the wait; one that
\* changes nothing of it leaves the progress as it is.
LEMMA AtomicNext == StoreInv /\ AtomicInv /\ [Next]_vars => AtomicInv'
<1> SUFFICES ASSUME StoreInv, AtomicInv, [Next]_vars,
                    NEW x \in Reqs, before'[x] # None
             PROVE  Progress(before[x], req[x])'
  BY Zenon DEF AtomicInv
<1>1. req \in [Reqs -> Request] /\ versions \in Seq(Version) /\ before = [r \in Reqs |-> before[r]]
  BY Zenon DEF StoreInv, StoreType
<1>2. before[x] # None => Progress(before[x], req[x])
  BY Zenon DEF AtomicInv
<1>3. ASSUME before'[x] = before[x], req'[x] = req[x], UNCHANGED <<file, sig, versions, policy>>
      PROVE  Progress(before[x], req[x])'
  BY ZenonT(60), <1>2, <1>3 DEF Progress
<1>4. ASSUME NEW r \in Reqs, Reload(r) \/ Rollback(r)
      PROVE  Progress(before[x], req[x])'
  <2>1. CASE x = r
    BY Zenon, <1>4, <2>1, BeginProgress
  <2>2. CASE x # r
    <3>1. req'[x] = req[x]
      BY ZenonT(30), <1>1, <1>4, <2>2, ReloadShape, RollbackShape DEF OthersKept
    <3>2. before'[x] = before[x] /\ UNCHANGED <<file, sig, versions, policy>>
      BY ZenonT(30), <1>1, <1>4, <2>2 DEF Reload, Rollback, Begin
    <3> QED BY Zenon, <1>3, <3>1, <3>2
  <2> QED BY Zenon, <2>1, <2>2
<1>5. ASSUME NEW r \in Reqs, BackupCreate(r) \/ BackupCopy(r)
      PROVE  Progress(before[x], req[x])'
  <2>1. x = r /\ before'[x] = before[x]
    BY ZenonT(30), <1>5 DEF BackupCreate, BackupCopy, Disturb
  <2> QED BY Zenon, <1>2, <1>5, <2>1, BackupProgress
<1>6. ASSUME NEW r \in Reqs, RollbackTruncate(r) \/ RollbackCopy(r)
      PROVE  Progress(before[x], req[x])'
  <2>1. x = r /\ before'[x] = before[x]
    BY Zenon, <1>6 DEF RollbackTruncate, RollbackCopy, Disturb
  <2> QED BY <1>2, <1>6, <2>1, RollbackProgress
<1>7. ASSUME NEW r \in Reqs, Load(r) \/ ReadSig(r) \/ VerifyRaw(r)
      PROVE  Progress(before[x], req[x])'
  <2>1. before' = before /\ UNCHANGED <<file, sig, versions, policy>>
    BY ZenonT(30), <1>7 DEF Load, ReadSig, VerifyRaw
  <2>2. CASE x = r
    BY ZenonT(30), <1>2, <1>7, <2>1, <2>2, LoadProgress
  <2>3. CASE x # r
    <3>1. req'[x] = req[x]
      BY ZenonT(30), <1>1, <1>7, <2>3, LoadShape, ReadSigShape, VerifyRawShape DEF OthersKept
    <3> QED BY ZenonT(30), <1>3, <2>1, <3>1
  <2> QED BY <2>2, <2>3
<1>8. ASSUME NEW r \in Reqs, ReplacePolicy(r)
      PROVE  Progress(before[x], req[x])'
  <2>1. x = r /\ before'[x] = before[x]
    BY ZenonT(30), <1>8 DEF ReplacePolicy, Disturb
  <2> QED BY ZenonT(30), <1>2, <1>8, <2>1, LoadProgress
<1>9. ASSUME (\E r \in Reqs : OperationFails(r)) \/ OperatorWrites \/ Crash
      PROVE  FALSE
  BY ZenonT(30), <1>9 DEF OperationFails, OperatorWrites, Crash, Disturb
<1>10. CASE Boot
  <2>1. before'[x] = before[x] /\ policy = None
    BY ZenonT(30), <1>10 DEF Boot
  <2> QED BY Zenon, <1>2, <2>1 DEF Progress
<1>11. CASE UNCHANGED vars
  BY Zenon, <1>3, <1>11 DEF vars
<1> QED BY ZenonT(30), <1>4, <1>5, <1>6, <1>7, <1>8, <1>9, <1>10, <1>11 DEF Next

\* The file operations of an undisturbed reload or rollback add up to the one
\* step its documentation describes, for every number of requests, versions,
\* writes and mishaps around it (backupPolicy, rollbackPolicy, policy.Load,
\* verifyPolicySig and ReplacePolicy).
THEOREM UndisturbedIsAtomic == Spec => []UndisturbedRequestIsAtomic
<1>1. Init => AtomicInv
  BY Zenon DEF Init, AtomicInv
<1>2. ASSUME AtomicInv, NEW r \in Reqs, req[r].pc = "done", before[r] # None
      PROVE  LET b == before[r] IN
             /\ file = FileAfter(b, req[r])
             /\ policy = PolicyAfter(b, req[r])
             /\ \E v \in Range(versions) \ Range(b.versions) : v.bytes = b.file[Main]
  <2> DEFINE b == before[r]
             n == Len(b.versions)
             v == [name |-> n + 1, bytes |-> b.file[Main]]
  <2>1. /\ file = FileAfter(b, req[r]) /\ policy = PolicyAfter(b, req[r])
        /\ versions = Append(b.versions, v)
        /\ b.versions \in Seq(Version) /\ WellNamed(b.versions) /\ b.file[Main] \in Content
    BY ZenonT(30), <1>2, StoreAssumption DEF AtomicInv, Progress, WithBackup
  <2>2. n \in Nat /\ DOMAIN b.versions = 1 .. n
    BY ZenonT(30), <2>1, LenProperties
  <2>3. DOMAIN versions = 1 .. n + 1 /\ versions[n + 1] = v
    BY ZenonT(30), <2>1, AddedVersion
  <2>4. v \in Range(versions)
    BY SMTT(30), <2>2, <2>3 DEF Range
  <2>5. v \notin Range(b.versions)
    <3>1. \A i \in 1 .. n : b.versions[i].name # n + 1
      BY SMTT(30), <2>1, <2>2 DEF WellNamed
    <3>2. v.name = n + 1
      BY Zenon
    <3> QED BY ZenonT(30), <2>2, <3>1, <3>2 DEF Range
  <2>6. v.bytes = b.file[Main]
    BY Zenon
  <2> QED BY ZenonT(30), <2>1, <2>4, <2>5, <2>6
<1>3. AtomicInv => UndisturbedRequestIsAtomic
  BY Zenon, <1>2 DEF UndisturbedRequestIsAtomic
<1> QED BY <1>1, <1>3, AtomicNext, StoreInvAlways, PTL DEF Spec
=============================================================================
