----------------------------- MODULE Quarantine -----------------------------
(***************************************************************************)
(* QuarantineProvider (internal/response/quarantine.go) with its directory *)
(* configured, and fix_permissions, which works on the same files. A file  *)
(* is an inode; inode numbers are not used again within a run. Quarantine  *)
(* is asked for by the polling goroutine alone (only file events carry a   *)
(* path), Restore by the handlers of the control API.                      *)
(***************************************************************************)
EXTENDS ResponseCalls

CONSTANTS
  Files,       \* paths that may be quarantined
  MaxInodes    \* bound on the files ever created

VARIABLES
  at,          \* inode at each path, 0 for none
  inode,       \* link: symbolic link or not; mode of each inode so far
  dir,         \* the quarantine directory: [name, inode]
  meta,        \* readable sidecars: [name, path]
  stranded,    \* ghost: names whose call failed or died before the sidecar
  unlinked     \* ghost: inodes a user replaced or a Restore wrote over

fileVars == <<at, inode, dir, meta, stranded, unlinked>>

Entry(name) == CHOOSE e \in dir : e.name = name

InDir(name) == \E e \in dir : e.name = name

\* The user writes a new file, or a symbolic link, over whatever is at the path.
UserWrites(f, link) ==
  /\ Len(inode) < MaxInodes
  /\ inode' = Append(inode, [link |-> link, mode |-> "user"])
  /\ at' = [at EXCEPT ![f] = Len(inode) + 1]
  /\ unlinked' = unlinked \cup ({at[f]} \ {0})
  /\ outcome' = Silent
  /\ UNCHANGED <<host, call, calls, faults, dir, meta, stranded>>

----------------------------------------------------------------------------
FileCall(w, kind, f) ==
  /\ Begin(w, "files", [Idle EXCEPT !.kind = kind, !.pc = "file_open", !.file = f])
  /\ UNCHANGED fileVars

\* Only the polling loop has file events to respond to.
ApplyToFile(w, kind, f) ==
  /\ w = Poll /\ ~ host.dryRun
  /\ FileCall(w, kind, f)

RestoreFileHandler(w, f) ==
  /\ w \in Handlers
  /\ FileCall(w, "quarantine_restore", f)

\* Faulty variant: the name in quarantine is the same for every file.
QuarantineOpenOneName(w) ==
  LET f == call[w].file
  IN /\ At(w, "file_open") /\ InCall(w, {"quarantine"})
     /\ \/ /\ at[f] # 0 /\ NoFault
           /\ Step(w, "rename", [call[w] EXCEPT !.entry = <<1, 1>>])
        \/ /\ Fails(w, at[f] = 0)
           /\ Return(w, FALSE, call[w], 0)
     /\ UNCHANGED fileVars

\* open(path, O_PATH | O_NOFOLLOW) and fstat: with O_PATH a symbolic link opens
\* too, ELOOP never comes. The name in quarantine is made of inode and time.
QuarantineOpen(w) ==
  LET f == call[w].file
  IN /\ At(w, "file_open") /\ InCall(w, {"quarantine"})
     /\ \/ /\ at[f] # 0 /\ NoFault
           /\ Step(w, "rename", [call[w] EXCEPT !.entry = <<at[f], calls.files>>])
        \/ /\ Fails(w, at[f] = 0)
           /\ Return(w, FALSE, call[w], 0)
     /\ UNCHANGED fileVars

\* rename(path, qPath): whatever is at the path by now.
QuarantineRename(w) ==
  LET c == call[w]
  IN /\ At(w, "rename") /\ InCall(w, {"quarantine"})
     /\ \/ /\ at[c.file] # 0 /\ NoFault
           /\ at' = [at EXCEPT ![c.file] = 0]
           /\ dir' = {e \in dir : e.name # c.entry} \cup {[name |-> c.entry, inode |-> at[c.file]]}
           /\ Step(w, "seal", c)
        \/ /\ Fails(w, at[c.file] = 0)
           /\ Return(w, FALSE, c, 0)
           /\ UNCHANGED <<at, dir>>
     /\ UNCHANGED <<inode, meta, stranded, unlinked>>

\* Faulty variant: the file keeps its permissions.
QuarantineUnsealed(w) ==
  LET c == call[w]
      i == Entry(c.entry).inode
      opens == InDir(c.entry) /\ ~ inode[i].link
  IN /\ At(w, "seal")
     /\ \/ /\ opens /\ NoFault
           /\ Step(w, "meta", c)
           /\ UNCHANGED stranded
        \/ /\ Fails(w, ~ opens)
           /\ stranded' = stranded \cup {c.entry}
           /\ Return(w, FALSE, c, 0)
     /\ UNCHANGED <<at, dir, meta, unlinked, inode>>

\* open(qPath, O_RDONLY | O_NOFOLLOW), which refuses a symbolic link, and fchmod 0.
QuarantineSeal(w) ==
  LET c == call[w]
      i == Entry(c.entry).inode
      opens == InDir(c.entry) /\ ~ inode[i].link
  IN /\ At(w, "seal")
     /\ \/ /\ opens /\ NoFault
           /\ inode' = [inode EXCEPT ![i].mode = "sealed"]
           /\ Step(w, "meta", c)
           /\ UNCHANGED stranded
        \/ /\ Fails(w, ~ opens)
           /\ stranded' = stranded \cup {c.entry}
           /\ Return(w, FALSE, c, 0)
           /\ UNCHANGED inode
     /\ UNCHANGED <<at, dir, meta, unlinked>>

\* The sidecar. A failed write leaves one that cannot be read; the call
\* reports success all the same.
QuarantineMeta(w) ==
  LET c == call[w]
  IN /\ At(w, "meta")
     /\ \/ /\ NoFault
           /\ meta' = meta \cup {[name |-> c.entry, path |-> c.file]}
           /\ UNCHANGED stranded
        \/ /\ Fault(w)
           /\ stranded' = stranded \cup {c.entry}
           /\ UNCHANGED meta
     /\ Return(w, TRUE, c, 0)
     /\ UNCHANGED <<at, inode, dir, unlinked>>

\* ListQuarantined, and the search of Restore: files with a readable sidecar.
Listed == {m \in meta : InDir(m.name)}

RestoreFind(w) ==
  LET found == {m \in Listed : m.path = call[w].file}
  IN /\ At(w, "file_open") /\ InCall(w, {"quarantine_restore"})
     /\ \/ /\ NoFault
           /\ \E m \in found : Step(w, "chmod", [call[w] EXCEPT !.entry = m.name])
        \/ /\ Fails(w, found = {})
           /\ Return(w, FALSE, call[w], 0)
     /\ UNCHANGED fileVars

RestoreChmod(w) ==
  LET c == call[w]
  IN /\ At(w, "chmod") /\ InCall(w, {"quarantine_restore"})
     /\ \/ /\ InDir(c.entry) /\ NoFault
           /\ inode' = [inode EXCEPT ![Entry(c.entry).inode].mode = "restored"]
           /\ Step(w, "rename", c)
        \/ /\ Fails(w, ~ InDir(c.entry))
           /\ Return(w, FALSE, c, 0)
           /\ UNCHANGED inode
     /\ UNCHANGED <<at, dir, meta, stranded, unlinked>>

\* rename(qPath, originalPath) replaces a file that has appeared there.
RestoreRename(w) ==
  LET c == call[w]
  IN /\ At(w, "rename") /\ InCall(w, {"quarantine_restore"})
     /\ \/ /\ InDir(c.entry) /\ NoFault
           /\ at' = [at EXCEPT ![c.file] = Entry(c.entry).inode]
           /\ unlinked' = unlinked \cup ({at[c.file]} \ {0})
           /\ dir' = dir \ {Entry(c.entry)}
           /\ Step(w, "unlink", c)
        \/ /\ Fails(w, ~ InDir(c.entry))
           /\ Return(w, FALSE, c, 0)
           /\ UNCHANGED <<at, dir, unlinked>>
     /\ UNCHANGED <<inode, meta, stranded>>

\* os.Remove(metaPath), its error ignored.
RestoreUnlink(w) ==
  LET c == call[w]
  IN /\ At(w, "unlink")
     /\ \/ NoFault /\ meta' = {m \in meta : m.name # c.entry}
        \/ Fault(w) /\ UNCHANGED meta
     /\ Return(w, TRUE, c, 0)
     /\ UNCHANGED <<at, inode, dir, stranded, unlinked>>

----------------------------------------------------------------------------
\* chmodNoFollow: open with O_NOFOLLOW, refused for a symbolic link, then fchmod.
FixOpen(w) ==
  LET i == at[call[w].file]
      opens == i # 0 /\ ~ inode[i].link
  IN /\ At(w, "file_open") /\ InCall(w, {"fix_permissions"})
     /\ \/ /\ opens /\ NoFault
           /\ Step(w, "chmod", [call[w] EXCEPT !.fd = i])
        \/ /\ Fails(w, ~ opens)
           /\ Return(w, FALSE, call[w], 0)
     /\ UNCHANGED fileVars

FixChmod(w) ==
  /\ At(w, "chmod") /\ InCall(w, {"fix_permissions"})
  /\ \/ /\ NoFault
        /\ inode' = [inode EXCEPT ![call[w].fd].mode = "0600"]
        /\ Return(w, TRUE, call[w], 0)
     \/ /\ Fault(w)
        /\ Return(w, FALSE, call[w], 0)
        /\ UNCHANGED inode
  /\ UNCHANGED <<at, dir, meta, stranded, unlinked>>

FileInit ==
  /\ inode = <<[link |-> FALSE, mode |-> "user"]>>
  /\ \E f \in Files : at = [g \in Files |-> IF g = f THEN 1 ELSE 0]
  /\ dir = {}
  /\ meta = {}
  /\ stranded = {}
  /\ unlinked = {}

FileNext ==
  \/ \E f \in Files, link \in BOOLEAN : UserWrites(f, link)
  \/ \E w \in Workers, f \in Files :
       \/ \E kind \in {"quarantine", "fix_permissions"} : ApplyToFile(w, kind, f)
       \/ RestoreFileHandler(w, f)
  \/ \E w \in Workers : \/ QuarantineOpen(w) \/ QuarantineRename(w)
                        \/ QuarantineSeal(w) \/ QuarantineMeta(w)
                        \/ RestoreFind(w) \/ RestoreChmod(w) \/ RestoreRename(w)
                        \/ RestoreUnlink(w) \/ FixOpen(w) \/ FixChmod(w)
=============================================================================
