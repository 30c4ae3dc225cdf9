---------------------------- MODULE PolicyStore ----------------------------
(***************************************************************************)
(* The policy files of the agent and the HTTP requests that work on them:  *)
(* /v0/policy/reload and /v0/policy/rollback (internal/control/server.go). *)
(* net/http serves every request on a goroutine of its own and no lock is  *)
(* held over a request, so each file operation is a step: open and create  *)
(* of the backup, its copy, the truncation and the copy of a rollback, the *)
(* load, the two reads of the signature check and ReplacePolicy.           *)
(*                                                                         *)
(* A file holds one of the Policies or Torn: bytes that are no policy (an  *)
(* empty file, half a copy, two copies on top of each other). A signature  *)
(* file is represented by the policy it signs.                             *)
(***************************************************************************)
EXTENDS Naturals, Sequences, FiniteSets, Functions

CONSTANTS
    Policies,     \* contents that parse as a policy
    Valid,        \* those that pass Policy.Validate
    Signed,       \* those the holder of the signing key has signed
    Torn,         \* bytes that are no policy
    None,         \* no policy, no signature, no version
    Main,         \* the configured policy path
    Paths,        \* policy paths a reload may name, Main among them
    Reqs,         \* request slots
    MaxWrites,    \* bound on the operator's writes of policy and .sig files
    MaxMishaps    \* bound on failing file operations and crashes together

ASSUME StoreAssumption ==
    /\ Valid \subseteq Policies
    /\ Signed \subseteq Policies
    /\ Torn \notin Policies
    /\ None \notin Policies \cup {Torn}
    /\ Main \in Paths

VARIABLES
    file,       \* content of each policy path
    sig,        \* what each path's .sig file signs, or None
    versions,   \* .versions/*.bak in the order of their modification times
    policy,     \* Agent.Policy, None while the agent is down
    req,        \* progress of each request
    before,     \* store at the start of a request nobody has disturbed, or None
    crowded,    \* two requests, or a request and an operator, have met
    mishap,     \* a file operation failed, or a crash hit a copy
    writes, mishaps

vars == <<file, sig, versions, policy, req, before, crowded, mishap, writes, mishaps>>

Content == Policies \cup {Torn}

Idle == [pc |-> "idle", kind |-> "none", path |-> Main, asked |-> None,
         version |-> None, backup |-> None, loaded |-> None, sigData |-> None]

Store == [file |-> file, sig |-> sig, versions |-> versions, policy |-> policy]

Busy(r) == req[r].pc \notin {"idle", "done"}

Bytes(name) == (CHOOSE v \in Range(versions) : v.name = name).bytes

\* The place of a version in the order of modification times.
Place(name) == CHOOSE i \in DOMAIN versions : versions[i].name = name

GoTo(r, pc) == req' = [req EXCEPT ![r].pc = pc]

\* What is left of a request once its handler has returned.
Returned(q) == [q EXCEPT !.pc = "done", !.version = None, !.backup = None,
                         !.loaded = None, !.sigData = None]

Return(r) == req' = [req EXCEPT ![r] = Returned(@)]

\* Somebody other than the requests in keep has changed the store.
Disturb(keep) == before' = [x \in Reqs |-> IF x \in keep THEN before[x] ELSE None]

(***************************************************************************)
(* The requests                                                            *)
(***************************************************************************)

\* A request passes authorization and takes its first step.
Begin(r, q) ==
    /\ policy # None
    /\ req[r] = Idle
    /\ req' = [req EXCEPT ![r] = [q EXCEPT !.pc = "create"]]
    /\ before' = [before EXCEPT ![r] = Store]
    /\ crowded' = (crowded \/ \E x \in Reqs : Busy(x))
    /\ UNCHANGED <<file, sig, versions, policy, mishap, writes, mishaps>>

\* A reload may name another file of the policy directory.
Reload(r) == \E p \in Paths : Begin(r, [Idle EXCEPT !.kind = "reload", !.path = p])

\* Faulty variant: the versions are not sorted.
UnsortedVersions == versions

\* Newest modification first.
listPolicyVersions == [i \in 1 .. Len(versions) |-> versions[(Len(versions) - i) + 1]]

SelectVersion(asked) == IF asked = None THEN Head(listPolicyVersions).name ELSE asked

\* A rollback lists the versions and selects the newest or the one asked
\* for. With no version to select it is refused at once.
Rollback(r) ==
    /\ versions # <<>>
    /\ \E asked \in {None} \cup {v.name : v \in Range(listPolicyVersions)} :
          Begin(r, [Idle EXCEPT !.kind = "rollback", !.asked = asked,
                                !.version = SelectVersion(asked)])

\* Where a request goes after backupPolicy: a reload ignores its error.
AfterBackup(r, ok) ==
    CASE req[r].kind = "reload" -> GoTo(r, "load")
      [] req[r].kind = "rollback" /\ ok -> GoTo(r, "truncate")
      [] OTHER -> Return(r)

\* backupPolicy opens the policy and creates a new, still empty version.
BackupCreate(r) ==
    /\ req[r].pc = "create"
    /\ versions' = Append(versions, [name |-> Len(versions) + 1, bytes |-> Torn])
    /\ req' = [req EXCEPT ![r] = [@ EXCEPT !.pc = "copy", !.backup = Len(versions) + 1]]
    /\ Disturb({r})
    /\ UNCHANGED <<file, sig, policy, crowded, mishap, writes, mishaps>>

\* Faulty variant: the backup is created and never filled.
BackupNotCopied(r) ==
    /\ req[r].pc = "copy"
    /\ AfterBackup(r, TRUE)
    /\ Disturb({r})
    /\ UNCHANGED <<file, sig, versions, policy, crowded, mishap, writes, mishaps>>

\* As in SequencesExt, whose many definitions would burden every proof.
RemoveAt(s, i) == SubSeq(s, 1, i - 1) \o SubSeq(s, i + 1, Len(s))

\* io.Copy fills the version, which becomes the one modified last; copying
\* an empty file writes nothing.
BackupCopy(r) ==
    /\ req[r].pc = "copy"
    /\ versions' =
          IF file[Main] = Torn THEN versions
          ELSE Append(RemoveAt(versions, Place(req[r].backup)),
                      [name |-> req[r].backup, bytes |-> file[Main]])
    /\ AfterBackup(r, TRUE)
    /\ Disturb({r})
    /\ UNCHANGED <<file, sig, policy, crowded, mishap, writes, mishaps>>

\* rollbackPolicy opens the selected version and truncates the policy file.
RollbackTruncate(r) ==
    /\ req[r].pc = "truncate"
    /\ file' = [file EXCEPT ![Main] = Torn]
    /\ GoTo(r, "restore")
    /\ Disturb({r})
    /\ UNCHANGED <<sig, versions, policy, crowded, mishap, writes, mishaps>>

\* io.Copy writes the version's bytes from offset 0. If another rollback
\* has filled the file meanwhile, the longer content leaves a tail.
RollbackCopy(r) ==
    /\ req[r].pc = "restore"
    /\ \E left \in {Bytes(req[r].version)} \cup (IF file[Main] = Torn THEN {} ELSE {Torn}) :
          file' = [file EXCEPT ![Main] = left]
    /\ GoTo(r, "load")
    /\ Disturb({r})
    /\ UNCHANGED <<sig, versions, policy, crowded, mishap, writes, mishaps>>

\* One of these file operations fails half way: a backup leaves an empty
\* version, a rollback a truncated policy.
OperationFails(r) ==
    /\ mishaps < MaxMishaps
    /\ req[r].pc \in {"create", "copy", "truncate", "restore"}
    /\ IF req[r].pc \in {"create", "copy"} THEN AfterBackup(r, FALSE) ELSE Return(r)
    /\ Disturb({})
    /\ mishaps' = mishaps + 1
    /\ mishap' = TRUE
    /\ UNCHANGED <<file, sig, versions, policy, crowded, writes>>

\* Faulty variant: the policy is parsed and not validated.
LoadUnchecked(r) ==
    /\ req[r].pc = "load"
    /\ req' = [req EXCEPT ![r] = [@ EXCEPT !.pc = "sig", !.loaded = file[req[r].path]]]
    /\ UNCHANGED <<file, sig, versions, policy, before, crowded, mishap, writes, mishaps>>

\* policy.Load parses and validates the file.
Load(r) ==
    /\ req[r].pc = "load"
    /\ LET p == file[req[r].path] IN
          IF p \in Valid
            THEN req' = [req EXCEPT ![r] = [@ EXCEPT !.pc = "sig", !.loaded = p]]
            ELSE Return(r)
    /\ UNCHANGED <<file, sig, versions, policy, before, crowded, mishap, writes, mishaps>>

\* Faulty variant: a missing signature file is accepted.
MissingSigAccepted(r) ==
    /\ req[r].pc = "sig"
    /\ LET s == sig[req[r].path] IN
          IF s = None
            THEN GoTo(r, "replace")
            ELSE req' = [req EXCEPT ![r] = [@ EXCEPT !.pc = "raw", !.sigData = s]]
    /\ UNCHANGED <<file, sig, versions, policy, before, crowded, mishap, writes, mishaps>>

\* verifyPolicySig reads the signature ...
ReadSig(r) ==
    /\ req[r].pc = "sig"
    /\ LET s == sig[req[r].path] IN
          IF s = None
            THEN Return(r)
            ELSE req' = [req EXCEPT ![r] = [@ EXCEPT !.pc = "raw", !.sigData = s]]
    /\ UNCHANGED <<file, sig, versions, policy, before, crowded, mishap, writes, mishaps>>

\* integrity.Verify: the Ed25519 check of the signature over the raw bytes.
Verify(raw, sigData) == raw = sigData

\* ... and reads the policy file a second time to check it.
VerifyRaw(r) ==
    /\ req[r].pc = "raw"
    /\ IF Verify(file[req[r].path], req[r].sigData) THEN GoTo(r, "replace") ELSE Return(r)
    /\ UNCHANGED <<file, sig, versions, policy, before, crowded, mishap, writes, mishaps>>

\* Agent.ReplacePolicy, under a.mu, installs what Load returned.
ReplacePolicy(r) ==
    /\ req[r].pc = "replace"
    /\ policy' = req[r].loaded
    /\ Return(r)
    /\ Disturb({r})
    /\ UNCHANGED <<file, sig, versions, crowded, mishap, writes, mishaps>>

(***************************************************************************)
(* The operator, crashes and the start of the agent                        *)
(***************************************************************************)

\* The operator installs a policy file, or a signature made with the key.
OperatorWrites ==
    /\ writes < MaxWrites
    /\ \E f \in Paths :
          \/ \E p \in Policies : file' = [file EXCEPT ![f] = p] /\ sig' = sig
          \/ \E p \in Signed : sig' = [sig EXCEPT ![f] = p] /\ file' = file
    /\ writes' = writes + 1
    /\ Disturb({})
    /\ crowded' = (crowded \/ \E r \in Reqs : Busy(r))
    /\ UNCHANGED <<versions, policy, req, mishap, mishaps>>

Crash ==
    /\ mishaps < MaxMishaps
    /\ policy # None
    /\ policy' = None
    /\ mishaps' = mishaps + 1
    /\ mishap' = (mishap \/ \E r \in Reqs : req[r].pc \in {"copy", "restore"})
    /\ req' = [r \in Reqs |-> IF Busy(r) THEN Returned(req[r]) ELSE req[r]]
    /\ Disturb({})
    /\ UNCHANGED <<file, sig, versions, crowded, writes>>

\* main loads the policy without looking at the signature; an error is fatal.
Boot ==
    /\ policy = None
    /\ file[Main] \in Valid
    /\ policy' = file[Main]
    /\ UNCHANGED <<file, sig, versions, req, before, crowded, mishap, writes, mishaps>>

\* The agent runs the policy of the main path, which is signed; other paths
\* hold some policy without signature. An earlier request may have left a
\* version behind.
Init ==
    /\ \E p \in Valid \cap Signed, q \in Policies :
          /\ file = [f \in Paths |-> IF f = Main THEN p ELSE q]
          /\ sig = [f \in Paths |-> IF f = Main THEN p ELSE None]
          /\ policy = p
    /\ versions \in {<<>>} \cup {<<[name |-> 1, bytes |-> p]>> : p \in Policies}
    /\ req = [r \in Reqs |-> Idle]
    /\ before = [r \in Reqs |-> None]
    /\ crowded = FALSE
    /\ mishap = FALSE
    /\ writes = 0
    /\ mishaps = 0

Next ==
    \/ \E r \in Reqs :
          \/ Reload(r)
          \/ Rollback(r)
          \/ BackupCreate(r)
          \/ BackupCopy(r)
          \/ RollbackTruncate(r)
          \/ RollbackCopy(r)
          \/ OperationFails(r)
          \/ Load(r)
          \/ ReadSig(r)
          \/ VerifyRaw(r)
          \/ ReplacePolicy(r)
    \/ OperatorWrites
    \/ Crash
    \/ Boot

Spec == Init /\ [][Next]_vars

(***************************************************************************)
(* Properties                                                              *)
(***************************************************************************)

TypeOK ==
    /\ file \in [Paths -> Content]
    /\ sig \in [Paths -> Signed \cup {None}]
    /\ policy \in Policies \cup {None}
    /\ \A v \in Range(versions) : v.bytes \in Content /\ v.name \in 1..Len(versions)
    /\ \A r \in Reqs : /\ req[r].pc \in {"idle", "create", "copy", "truncate", "restore",
                                        "load", "sig", "raw", "replace", "done"}
                      /\ req[r].path \in Paths
                      /\ req[r].loaded \in Valid \cup {None}

\* What the documentation promises of a request, as one step on the store b
\* it starts from: the current policy file becomes a version; a rollback
\* puts the newest version of b, or the one asked for, in its place; and
\* the policy of the request's path comes into force if it is valid and its
\* .sig file signs it.
Newest(b) == b.versions[Len(b.versions)].bytes

Asked(b, name) == (CHOOSE v \in Range(b.versions) : v.name = name).bytes

FileAfter(b, q) ==
    IF q.kind = "reload" THEN b.file
    ELSE [b.file EXCEPT ![Main] = IF q.asked = None THEN Newest(b) ELSE Asked(b, q.asked)]

PolicyAfter(b, q) ==
    LET p == FileAfter(b, q)[q.path]
    IN IF p \in Valid /\ b.sig[q.path] = p THEN p ELSE b.policy

\* A request that nobody disturbs (no other request, operator write, fault
\* or crash touches the store while it runs) is atomic: the file operations
\* of backupPolicy, rollbackPolicy, Load, verifyPolicySig and ReplacePolicy
\* add up to the one step above, whatever other requests left behind.
UndisturbedRequestIsAtomic ==
    \A r \in Reqs : req[r].pc = "done" /\ before[r] # None =>
        LET b == before[r] IN
        /\ file = FileAfter(b, req[r])
        /\ policy = PolicyAfter(b, req[r])
        /\ \E v \in Range(versions) \ Range(b.versions) : v.bytes = b.file[Main]

\* A policy that was never signed is in force only if the agent read it at
\* its start, or if the file was rewritten between policy.Load and the
\* second read of verifyPolicySig by somebody else.
UnsignedOnlyByRaceOrBoot ==
    policy \in Policies \ Signed => crowded \/ mishaps > 0

\* The policy file is what the next start of the agent depends on: it only
\* ever holds torn bytes while a rollback is between its truncation and its
\* copy, or after a failed file operation, a crash inside a copy, or two
\* requests, or a request and an operator's write, at the same time.
TornOnlyByMishap ==
    file[Main] = Torn => mishap \/ crowded \/ \E r \in Reqs : req[r].pc = "restore"
=============================================================================
