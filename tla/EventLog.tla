------------------------------ MODULE EventLog ------------------------------
(***************************************************************************)
(* The hash-chained event log of internal/eventlog: Logger.Write seals an  *)
(* event into the chain, persists the chain state, rotates the files when  *)
(* the current one is full and appends the sealed line.  Every system call *)
(* that can fail, or be the last thing the process does, is a step of its  *)
(* own; the writer mutex makes the steps of two Writes exclusive.          *)
(*                                                                         *)
(* SHA-256 is modelled as an injective function: a digest is the sequence  *)
(* of the payloads it commits to, Hash(prev, p) = Append(prev, p), and the *)
(* empty prev_hash of a new chain is << >>.  The payload also repeats      *)
(* prev_hash, the very value the hasher is seeded with, so it is not kept  *)
(* twice.  The HMAC is a function of the digest and a fixed key.           *)
(***************************************************************************)
EXTENDS Integers, Sequences, FiniteSets

CONSTANTS
  MaxBackups,   \* retention.max_backups after normalisation (0 becomes 1)
  MaxLines,     \* retention.max_bytes, counted in lines; 0 turns rotation off
  LegacyLines,  \* v0.1 lines already in the file when the chain is first used
  ChainModes,   \* values integrity.enable_chain may have at a start
  Faults,       \* the failures the environment may inject
  MaxEvents,    \* bound: calls of Logger.Write
  MaxFaults     \* bound: injected failures

FaultKinds == {"crash", "save", "rename", "write", "torn", "state"}

ASSUME LogAssumption ==
  /\ MaxBackups \in Nat \ {0}
  /\ MaxLines \in Nat
  /\ LegacyLines \in Nat
  /\ ChainModes \in SUBSET BOOLEAN
  /\ Faults \in SUBSET FaultKinds
  /\ MaxEvents \in Nat
  /\ MaxFaults \in Nat

VARIABLES
  files,      \* files[0] is the current file, files[i] is path.i; absent = << >>
  stateFile,  \* what loadState reads: missing, empty and corrupt are ZeroState
  up,         \* the agent process is running
  chainOn,    \* chainWriter.enabled
  state,      \* chainWriter.state
  pc,         \* where the Write that holds Logger.mu is
  raw,        \* the line that Write has in hand
  shift,      \* loop variable of rotateIfNeeded
  written,    \* Logger.Write calls so far; the number names the event
  faults      \* failures injected so far

procVars == <<up, chainOn, state>>
vars == <<files, stateFile, up, chainOn, state, pc, raw, shift, written, faults>>

FileNo  == 0 .. MaxBackups
Payload == [chain : Nat, seq : Nat, ev : Nat]
Digest  == Seq(Payload)

\* ChainState: chain 0 stands for an empty ChainID.
ChainState == [chain : Nat, seq : Nat, hash : Digest]
ZeroState  == [chain |-> 0, seq |-> 0, hash |-> << >>]

\* A line of the file.  "torn" is a partial line with no newline, "glued" a
\* partial line with the next append on the same line: neither is JSON.
ChainLine == [kind : {"chain"}, chain : Nat, seq : Nat, ev : Nat,
              prevHash : Digest, hash : Digest]
LegacyLine == [kind : {"legacy"}, ev : Nat]
Legacy(n)  == [kind |-> "legacy", ev |-> n]
Torn  == [kind |-> "torn"]
Glued == [kind |-> "glued"]
Line  == ChainLine \cup LegacyLine \cup {Torn, Glued}

Fault(kind) ==
  /\ kind \in Faults
  /\ faults < MaxFaults
  /\ faults' = faults + 1
-----------------------------------------------------------------------------
(***************************************************************************)
(* Positions of the lines on disk, ordered as rotatedFiles orders them:    *)
(* highest suffix first, the current file last.                            *)
(***************************************************************************)
At(p) == files[p[1]][p[2]]
Earlier(p, q) == p[1] > q[1] \/ (p[1] = q[1] /\ p[2] < q[2])
Positions == UNION {{f} \X DOMAIN files[f] : f \in FileNo}
ChainPositions == {p \in Positions : At(p).kind = "chain"}

\* sealChain: the sealed line and the state with the new head.
SealChain(st, n) ==
  LET id == IF st.chain = 0 THEN n ELSE st.chain
      h  == Append(st.hash, [chain |-> id, seq |-> st.seq + 1, ev |-> n])
  IN  [line |-> [kind |-> "chain", chain |-> id, seq |-> st.seq + 1, ev |-> n,
                 prevHash |-> st.hash, hash |-> h],
       next |-> [chain |-> id, seq |-> st.seq + 1, hash |-> h]]

\* Faulty variants of recoverFromLog, for the mutation runs: stop at the first
\* chain line, look at the current file only, forget the sequence number.
RecoverFirst ==
  IF ChainPositions = {} THEN ZeroState
  ELSE LET p == CHOOSE p \in ChainPositions :
                  \A q \in ChainPositions \ {p} : Earlier(p, q)
       IN [chain |-> At(p).chain, seq |-> At(p).seq, hash |-> At(p).hash]
RecoverCurrentOnly ==
  LET cur == {p \in ChainPositions : p[1] = 0}
  IN  IF cur = {} THEN ZeroState
      ELSE LET p == CHOOSE p \in cur : \A q \in cur \ {p} : Earlier(q, p)
           IN [chain |-> At(p).chain, seq |-> At(p).seq, hash |-> At(p).hash]
RecoverNoSeq ==
  IF ChainPositions = {} THEN ZeroState
  ELSE LET p == CHOOSE p \in ChainPositions :
                  \A q \in ChainPositions \ {p} : Earlier(q, p)
       IN [chain |-> At(p).chain, seq |-> 0, hash |-> At(p).hash]

\* recoverFromLog: the last line, over all files oldest first, that parses as
\* a chain event; malformed and legacy lines are skipped.
RecoverFromLog ==
  IF ChainPositions = {} THEN ZeroState
  ELSE LET p == CHOOSE p \in ChainPositions :
                  \A q \in ChainPositions \ {p} : Earlier(q, p)
       IN [chain |-> At(p).chain, seq |-> At(p).seq, hash |-> At(p).hash]

\* Faulty variants: the state file is ignored; nothing is loaded.
LoadFromLogOnly == RecoverFromLog
LoadNothing == ZeroState

\* newChainWriter: the persisted state, or the log's when that one is empty.
LoadChain ==
  IF stateFile.chain = 0 \/ stateFile.hash = << >>
    THEN RecoverFromLog ELSE stateFile

\* An O_APPEND write continues a line that has no newline yet.
AppendLine(f, l) ==
  IF f = << >> \/ f[Len(f)] # Torn THEN Append(f, l)
  ELSE [f EXCEPT ![Len(f)] = IF l = Torn THEN Torn ELSE Glued]
-----------------------------------------------------------------------------
Init ==
  /\ files = [f \in FileNo |->
                IF f = 0 THEN [i \in 1 .. LegacyLines |-> Legacy(0)] ELSE << >>]
  /\ stateFile = ZeroState
  /\ up = FALSE
  /\ chainOn = FALSE
  /\ state = ZeroState
  /\ pc = "idle"
  /\ raw = Torn
  /\ shift = 0
  /\ written = 0
  /\ faults = 0

\* NewWithOptions.
Start(on) ==
  /\ ~up
  /\ up' = TRUE
  /\ chainOn' = on
  /\ state' = IF on THEN LoadChain ELSE ZeroState
  /\ UNCHANGED <<files, stateFile, pc, raw, shift, written, faults>>

\* Logger.Write up to the lock and chain.Seal's update of the state in memory.
Write ==
  /\ up
  /\ pc = "idle"
  /\ written < MaxEvents
  /\ written' = written + 1
  /\ IF chainOn
       THEN LET sealed == SealChain(state, written + 1)
            IN  /\ raw' = sealed.line
                /\ state' = sealed.next
                /\ pc' = "save"
       ELSE /\ raw' = Legacy(written + 1)
            /\ pc' = "rotate"
            /\ UNCHANGED state
  /\ UNCHANGED <<files, stateFile, up, chainOn, shift, faults>>

\* saveState, tmp file and rename; Seal only reports its error.
SaveState ==
  /\ pc = "save"
  /\ pc' = "rotate"
  /\ \/ stateFile' = state /\ UNCHANGED faults
     \/ Fault("save") /\ UNCHANGED stateFile
  /\ UNCHANGED <<files, procVars, raw, shift, written>>

Full == MaxLines > 0 /\ files[0] # << >> /\ Len(files[0]) + 1 > MaxLines

\* rotateIfNeeded: nothing to do.
SkipRotation ==
  /\ pc = "rotate"
  /\ ~Full
  /\ pc' = "append"
  /\ UNCHANGED <<files, stateFile, procVars, raw, shift, written, faults>>

\* Faulty variant: the loop starts one too high.
RemoveAndShiftTooHigh ==
  /\ pc = "rotate"
  /\ Full
  /\ pc' = "shift"
  /\ shift' = MaxBackups
  /\ files' = [files EXCEPT ![MaxBackups] = << >>]
  /\ UNCHANGED <<stateFile, procVars, raw, written, faults>>

\* rotateIfNeeded: Remove the oldest backup, its error ignored.
RemoveOldest ==
  /\ pc = "rotate"
  /\ Full
  /\ pc' = "shift"
  /\ shift' = MaxBackups - 1
  /\ \/ files' = [files EXCEPT ![MaxBackups] = << >>] /\ UNCHANGED faults
     \/ Fault("rename") /\ UNCHANGED files
  /\ UNCHANGED <<stateFile, procVars, raw, written>>

Rename(i, j) == files' = [files EXCEPT ![j] = files[i], ![i] = << >>]

\* rotateIfNeeded: one iteration of the loop, the rename error ignored.
ShiftBackup ==
  /\ pc = "shift"
  /\ shift >= 1
  /\ shift' = shift - 1
  /\ \/ files[shift] # << >> /\ Rename(shift, shift + 1) /\ UNCHANGED faults
     \/ files[shift] = << >> /\ UNCHANGED <<files, faults>>
     \/ files[shift] # << >> /\ Fault("rename") /\ UNCHANGED files
  /\ UNCHANGED <<stateFile, procVars, pc, raw, written>>

\* Faulty variant: a backup that could not be moved away is not overwritten.
RotateToFreeName ==
  /\ pc = "shift"
  /\ shift = 0
  /\ Rename(0, IF files[1] = << >> THEN 1 ELSE MaxBackups)
  /\ pc' = "append"
  /\ UNCHANGED <<stateFile, procVars, raw, shift, written, faults>>

\* rotateIfNeeded: rename of the current file; on an error Write returns it.
RotateCurrent ==
  /\ pc = "shift"
  /\ shift = 0
  /\ \/ Rename(0, 1) /\ pc' = "append" /\ UNCHANGED faults
     \/ Fault("rename") /\ pc' = "idle" /\ UNCHANGED files
  /\ UNCHANGED <<stateFile, procVars, raw, shift, written>>

\* Faulty variant: the file is opened with O_TRUNC in place of O_APPEND.
AppendTruncating ==
  /\ pc = "append"
  /\ pc' = "idle"
  /\ files' = [files EXCEPT ![0] = <<raw>>]
  /\ UNCHANGED <<stateFile, procVars, raw, shift, written, faults>>

\* OpenFile and Write of the line, whole, failed or cut short.
AppendRaw ==
  /\ pc = "append"
  /\ pc' = "idle"
  /\ \/ files' = [files EXCEPT ![0] = AppendLine(@, raw)] /\ UNCHANGED faults
     \/ Fault("write") /\ UNCHANGED files
     \/ Fault("torn") /\ files' = [files EXCEPT ![0] = AppendLine(@, Torn)]
  /\ UNCHANGED <<stateFile, procVars, raw, shift, written>>

\* The process ends between two Writes, or is killed inside one.
Stop ==
  /\ up
  /\ \/ pc = "idle" /\ UNCHANGED faults
     \/ pc # "idle" /\ Fault("crash")
  /\ up' = FALSE
  /\ chainOn' = FALSE
  /\ state' = ZeroState
  /\ pc' = "idle"
  /\ UNCHANGED <<files, stateFile, raw, shift, written>>

\* The state file is deleted or corrupted behind the agent's back.
LoseState ==
  /\ Fault("state")
  /\ stateFile # ZeroState
  /\ stateFile' = ZeroState
  /\ UNCHANGED <<files, procVars, pc, raw, shift, written>>

Next ==
  \/ \E on \in ChainModes : Start(on)
  \/ Write
  \/ SaveState
  \/ SkipRotation
  \/ RemoveOldest
  \/ ShiftBackup
  \/ RotateCurrent
  \/ AppendRaw
  \/ Stop
  \/ LoseState

Spec == Init /\ [][Next]_vars
-----------------------------------------------------------------------------
TypeOK ==
  /\ files \in [FileNo -> Seq(Line)]
  /\ stateFile \in ChainState
  /\ up \in BOOLEAN
  /\ chainOn \in BOOLEAN
  /\ state \in ChainState
  /\ pc \in {"idle", "save", "rotate", "shift", "append"}
  /\ raw \in Line
  /\ shift \in 0 .. MaxBackups - 1
  /\ written \in 0 .. MaxEvents
  /\ faults \in 0 .. MaxFaults

\* Digest h commits to everything digest g commits to.
Commits(h, g) == Len(g) <= Len(h) /\ \A i \in 1 .. Len(g) : g[i] = h[i]

(***************************************************************************)
(* The log is one linear history: the line of an earlier record is         *)
(* committed to by the prev_hash of every later one, whatever writes,      *)
(* renames, crashes and losses of the state file came between.  Sealing    *)
(* saves the state before it appends the line, so a restart cannot go back *)
(* behind a line that is on disk.                                          *)
(***************************************************************************)
NoFork ==
  \A p, q \in ChainPositions :
    Earlier(p, q) => Commits(At(q).prevHash, At(p).hash)

(***************************************************************************)
(* What newChainWriter would load commits to every chain line on disk, at  *)
(* every instant the process could die.                                    *)
(***************************************************************************)
RestartCoversLog ==
  \A p \in ChainPositions : Commits(LoadChain.hash, At(p).hash)

(***************************************************************************)
(* A sequence number names one record: /v0/events/verify?seq=n looks its   *)
(* record up by Seq alone.                                                 *)
(***************************************************************************)
SeqNamesOneRecord ==
  \A p, q \in ChainPositions : At(p).seq = At(q).seq => p = q

\* Chain lines whose prev_hash is not the hash of the chain line before them.
Breaks ==
  {q \in ChainPositions :
     \E p \in ChainPositions :
       /\ Earlier(p, q)
       /\ \A r \in ChainPositions : ~(Earlier(p, r) /\ Earlier(r, q))
       /\ At(q).prevHash # At(p).hash}

(***************************************************************************)
(* One failure breaks the chain in at most one place: a failed write,      *)
(* rename or save, a crash, or a lost state file never multiplies.         *)
(***************************************************************************)
OneBreakPerFault == Cardinality(Breaks) <= faults
=============================================================================
