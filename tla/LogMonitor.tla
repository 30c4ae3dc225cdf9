----------------------------- MODULE LogMonitor -----------------------------
(***************************************************************************)
(* What watches the event log while the Logger writes it: the anchor, a    *)
(* ticker goroutine that pushes the head of the chain to its backends, and *)
(* GET /v0/events/verify, which walks the files, takes a snapshot of the   *)
(* head and compares it with what the primary backend holds.  Neither      *)
(* takes the Logger's mutex: rotation moves files between two steps of the *)
(* walk, and the head moves between snapshot and fetch.                    *)
(***************************************************************************)
EXTENDS LogVerify

CONSTANTS
  Backends,      \* subset of {"http", "file"}: which of URL, FilePath is set
  MaxPushFails   \* bound: pushes that fail

ASSUME MonitorAssumption ==
  /\ Backends \in SUBSET {"http", "file"}
  /\ Backends # {}
  /\ MaxPushFails \in Nat

VARIABLES
  lastSeq,   \* Anchor.lastSeq
  pending,   \* backends the current Push has still to reach
  rec,       \* the record that Push carries
  remote,    \* what each backend holds; unreadable and missing are ZeroState
  pushFails, \* failed pushes so far
  req,       \* where the verify handler is: idle, walking, about to fetch
  todo,      \* names from rotatedFiles that verifyOneFile has not opened yet
  acc,       \* what the walk carries from file to file
  snap,      \* the handler's snapshot of the head
  alarms,    \* anchor_issues of the last finished request
  moved      \* history: a file was removed or renamed since the walk began

anchorVars == <<lastSeq, pending, rec, remote, pushFails>>
reqVars == <<req, todo, acc, snap, alarms, moved>>
allVars == <<vars, anchorVars, reqVars>>

MonitorInit ==
  /\ Init
  /\ lastSeq = 0
  /\ pending = {}
  /\ rec = ZeroState
  /\ remote = [b \in Backends |-> ZeroState]
  /\ pushFails = 0
  /\ req = "idle"
  /\ todo = << >>
  /\ acc = Fresh
  /\ snap = ZeroState
  /\ alarms = {}
  /\ moved = FALSE
-----------------------------------------------------------------------------
\* Faulty variant: a head waits for its successor.
TickLate ==
  /\ up
  /\ pending = {}
  /\ state.seq > lastSeq + 1
  /\ lastSeq' = state.seq
  /\ rec' = state
  /\ pending' = Backends
  /\ UNCHANGED <<vars, remote, pushFails, reqVars>>

\* The ticker fires: Push of a snapshot of the chain writer, up to its guard.
Tick ==
  /\ up
  /\ pending = {}
  /\ state.seq > lastSeq
  /\ lastSeq' = state.seq
  /\ rec' = state
  /\ pending' = Backends
  /\ UNCHANGED <<vars, remote, pushFails, reqVars>>

\* WriteFile truncates the mirror first: cut short, it leaves no JSON in it.
CutShort(b) == b = "file" /\ remote' = [remote EXCEPT ![b] = ZeroState]

\* pushHTTP, then pushFile; an error of one does not keep Push from the other.
PushTo(b) ==
  /\ b \in pending
  /\ "http" \in pending => b = "http"
  /\ pending' = pending \ {b}
  /\ \/ remote' = [remote EXCEPT ![b] = rec] /\ UNCHANGED pushFails
     \/ /\ pushFails < MaxPushFails
        /\ pushFails' = pushFails + 1
        /\ UNCHANGED remote \/ CutShort(b)
  /\ UNCHANGED <<vars, lastSeq, rec, reqVars>>
-----------------------------------------------------------------------------
\* Faulty variant: the walk starts with what the last one left.
BeginVerifyStale ==
  /\ up
  /\ req = "idle"
  /\ req' = "walk"
  /\ todo' = RotatedFiles
  /\ moved' = FALSE
  /\ alarms' = {}
  /\ UNCHANGED <<vars, anchorVars, acc, snap>>

\* A request begins: rotatedFiles lists the names.
BeginVerify ==
  /\ up
  /\ req = "idle"
  /\ req' = "walk"
  /\ todo' = RotatedFiles
  /\ acc' = Fresh
  /\ moved' = FALSE
  /\ alarms' = {}
  /\ UNCHANGED <<vars, anchorVars, snap>>

\* verifyOneFile on the next name; a name that is gone is an issue.
ReadFile ==
  /\ req = "walk"
  /\ todo # << >>
  /\ todo' = Tail(todo)
  /\ acc' = IF files[Head(todo)] = << >>
              THEN Report(acc, acc.line + 1, {"malformed"})
              ELSE VerifyOneFile(acc, files[Head(todo)])
  /\ UNCHANGED <<vars, anchorVars, req, snap, alarms, moved>>

\* The handler: snap := ChainSnapshot().
TakeSnapshot ==
  /\ req = "walk"
  /\ todo = << >>
  /\ req' = "fetch"
  /\ snap' = state
  /\ UNCHANGED <<vars, anchorVars, todo, acc, alarms, moved>>

\* Fetch: the HTTP backend when there is one, else the file mirror.
Fetched == remote[IF "http" \in Backends THEN "http" ELSE "file"]

\* Faulty variant: the hashes of different records are compared.
CrossVerifyAnySeq(local, r) ==
  IF r # ZeroState /\ << >> \notin {r.hash, local.hash} /\ r.hash # local.hash
    THEN {"anchor_hash_mismatch"} ELSE {}

\* CrossVerify; an empty hash is never compared.
CrossVerify(local, r) ==
  IF r = ZeroState THEN {}
  ELSE {k \in {"anchor_chain_mismatch", "anchor_truncation", "anchor_hash_mismatch"} :
          \/ k = "anchor_chain_mismatch" /\ r.chain # local.chain
          \/ k = "anchor_truncation" /\ r.seq > local.seq
          \/ /\ k = "anchor_hash_mismatch"
             /\ r.seq = local.seq
             /\ << >> \notin {r.hash, local.hash}
             /\ r.hash # local.hash}

\* The handler's last step: fetch, compare and answer.
Compare ==
  /\ req = "fetch"
  /\ req' = "idle"
  /\ alarms' = CrossVerify(snap, Fetched)
  /\ UNCHANGED <<vars, anchorVars, todo, acc, snap, moved>>
-----------------------------------------------------------------------------
\* A step of the Logger.  The ticker and the request die with the process,
\* which may be inside pushFile.
LogStep ==
  /\ Next
  /\ UNCHANGED pushFails
  /\ IF up'
       THEN /\ moved' = (moved \/ (pc \in {"rotate", "shift"} /\ files' # files))
            /\ UNCHANGED <<lastSeq, pending, rec, remote, req, todo, acc, snap, alarms>>
       ELSE /\ lastSeq' = 0
            /\ pending' = {}
            /\ rec' = ZeroState
            /\ UNCHANGED remote \/ (pending = {"file"} /\ CutShort("file"))
            /\ req' = "idle"
            /\ todo' = << >>
            /\ acc' = Fresh
            /\ snap' = ZeroState
            /\ alarms' = {}
            /\ moved' = FALSE

MonitorNext ==
  \/ Tick
  \/ \E b \in Backends : PushTo(b)
  \/ BeginVerify
  \/ ReadFile
  \/ TakeSnapshot
  \/ Compare
  \/ LogStep

\* The ticker goroutine keeps running and each request to a backend ends.
Fairness == WF_allVars(Tick) /\ WF_allVars(\E b \in Backends : PushTo(b))

MonitorSpec == MonitorInit /\ [][MonitorNext]_allVars /\ Fairness
-----------------------------------------------------------------------------
\* A walk counts each line once at most: files move to higher suffixes while
\* it goes to lower ones.
MonitorTypeOK ==
  /\ lastSeq \in 0 .. MaxEvents
  /\ pending \in SUBSET Backends
  /\ rec \in ChainState
  /\ remote \in [Backends -> ChainState]
  /\ pushFails \in 0 .. MaxPushFails
  /\ req \in {"idle", "walk", "fetch"}
  /\ todo \in Seq(FileNo)
  /\ acc.line \in 0 .. LegacyLines + MaxEvents
  /\ snap \in ChainState
  /\ alarms \subseteq {"anchor_chain_mismatch", "anchor_truncation", "anchor_hash_mismatch"}
  /\ moved \in BOOLEAN

(***************************************************************************)
(* The anchor never contradicts the log: a line on disk that is no newer   *)
(* than an anchored head is committed to by that head, through restarts,   *)
(* failed writes and rotations, and although Snapshot publishes a head     *)
(* before its line, and before its state, is on disk.                      *)
(***************************************************************************)
AnchorCommitsToLog ==
  \A b \in Backends, p \in ChainPositions :
    At(p).seq <= remote[b].seq => Commits(remote[b].hash, At(p).hash)

(***************************************************************************)
(* A backend never goes back to an older head: Anchor.lastSeq is forgotten *)
(* by a restart, but the chain state a clean restart loads is not older.   *)
(***************************************************************************)
AnchorMonotone ==
  [][\A b \in Backends : remote'[b] # ZeroState => remote'[b].seq >= remote[b].seq]_allVars

(***************************************************************************)
(* anchor.go, Push: every head, or a later one, reaches the primary        *)
(* backend if the agent keeps running.  Push records lastSeq before it     *)
(* pushes and never retries, so this needs that no push failed.            *)
(***************************************************************************)
HeadIsAnchored ==
  \A n \in 1 .. MaxEvents :
    (up /\ chainOn /\ state.seq = n) ~> (Fetched.seq >= n \/ ~up \/ pushFails > 0)

(***************************************************************************)
(* anchor.go, CrossVerify: "or when hashes don't match for the same seq    *)
(* (tampering)".  Nothing in this model tampers with a record, so two      *)
(* heads with one sequence number must not differ.                         *)
(***************************************************************************)
NoFalseTampering == "anchor_hash_mismatch" \notin alarms

(***************************************************************************)
(* A walk that no rotation overlaps reports nothing on a healthy log, even *)
(* when lines are appended under it.                                       *)
(***************************************************************************)
CleanWithoutRotation == faults = 0 /\ Rooted /\ ~moved => acc.issues = {}

(***************************************************************************)
(* integrity.go, Verify: "It is safe to call while the Logger is still     *)
(* writing new events: the worst case is a spurious prev_hash_break on the *)
(* last in-flight line".                                                   *)
(***************************************************************************)
WorstCaseIsLastLine ==
  faults = 0 /\ Verify.issues = {} /\ req = "fetch" =>
    acc.issues \subseteq {[line |-> acc.line, kind |-> "prev_hash_break"]}

(***************************************************************************)
(* anchor.go, CrossVerify: "remote anchor has more events than local log - *)
(* possible deletion".  On a log from which nothing is missing the alarm   *)
(* must not be raised.                                                     *)
(***************************************************************************)
NoFalseTruncation == faults = 0 => "anchor_truncation" \notin alarms
=============================================================================
