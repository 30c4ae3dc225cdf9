----------------------------- MODULE Collectors -----------------------------
(***************************************************************************)
(* The sources of a polling cycle: ProcfsCollector, which reads /proc and  *)
(* watches files by inotify with polling as the fallback (collector.go),   *)
(* and MergedCollector, which lays the exec events of the kernel probes    *)
(* over it (merge.go). A Snapshot is a sequence of steps of the polling    *)
(* goroutine; files and processes change between any two of them.          *)
(*                                                                         *)
(* The watched tree is a root directory with a subdirectory that comes and *)
(* goes, and one file in each. The state of a file (size, mode, time) is a *)
(* version, 0 for no file; the program a process runs is an image.         *)
(***************************************************************************)
EXTENDS Naturals, Sequences, FiniteSets, SequencesExt

CONSTANTS
  Root, Sub,     \* the watched directory and its subdirectory
  Pids,
  BufCap,        \* inotify events that fit into one read
  QueueCap,      \* inotify events the kernel keeps
  ChanCap,       \* exec events the channel of the loader holds
  MaxChanges     \* bound on the changes of files and processes together

Dirs == {Root, Sub}

VARIABLES
  file,          \* version of the file in each directory
  exists,        \* directories there are
  queue,         \* inotify events not yet read: [op, path, dir]
  watched,       \* directories with an inotify watch
  lastFileState, \* versions seen by the last poll
  image,         \* image of each process, 0 for none
  ring,          \* exec events between probe and loader: [pid, image]
  events,        \* Loader.Events()
  snap,          \* Snapshot in progress
  reported,      \* ghost: versions of files that a snapshot reported
  lastOp,        \* ghost: last operation reported for each file
  mixed,         \* ghost: files whose events come incomplete or out of order
  dropped,       \* ghost: pids an exec event of which was dropped
  settled,       \* ghost: a poll ended and nothing has changed since
  mode,          \* WatchMode
  opened,        \* inotifyFD > 0
  changes

fileVars == <<file, exists, queue, watched, opened, lastFileState, reported, lastOp, mixed, settled>>
procVars == <<image, ring, events, dropped>>
vars == <<fileVars, procVars, snap, mode, changes>>

NoSnap == [pc |-> "done", procfs |-> [p \in Pids |-> 0], merged |-> [p \in Pids |-> 0],
           lagging |-> {}]

----------------------------------------------------------------------------
\* The kernel reports an operation on path to the watch of its directory dir,
\* or drops it when the queue is full; the code does not look at the overflow.
Notify(op, path, dir) ==
  LET heard == dir \in watched
      full == Len(queue) >= QueueCap
  IN /\ queue' = IF heard /\ ~ full THEN Append(queue, [op |-> op, path |-> path]) ELSE queue
     /\ mixed' = IF IF heard THEN full ELSE \E e \in Range(queue) : e.path = path
                 THEN mixed \cup {path} ELSE mixed

Change ==
  /\ changes < MaxChanges
  /\ changes' = changes + 1
  /\ UNCHANGED <<snap, mode>>

FileChange ==
  /\ Change
  /\ settled' = FALSE
  /\ UNCHANGED <<procVars, opened, lastFileState, reported, lastOp>>

\* A file gets a new version: it appears, or is written to.
WriteFile(d) ==
  /\ FileChange
  /\ d \in exists
  /\ file' = [file EXCEPT ![d] = changes + 1]
  /\ Notify(IF file[d] = 0 THEN "create" ELSE "write", <<d>>, d)
  /\ UNCHANGED <<exists, watched>>

DeleteFile(d) ==
  /\ FileChange
  /\ file[d] # 0
  /\ file' = [file EXCEPT ![d] = 0]
  /\ Notify("delete", <<d>>, d)
  /\ UNCHANGED <<exists, watched>>

MakeSub ==
  /\ FileChange
  /\ Sub \notin exists
  /\ exists' = exists \cup {Sub}
  /\ Notify("create", Sub, Root)
  /\ UNCHANGED <<file, watched>>

\* rmdir takes the watch with it.
RemoveSub ==
  /\ FileChange
  /\ Sub \in exists /\ file[Sub] = 0
  /\ exists' = exists \ {Sub}
  /\ watched' = watched \ {Sub}
  /\ Notify("delete", Sub, Root)
  /\ UNCHANGED file

Exec(p) ==
  /\ Change
  /\ image' = [image EXCEPT ![p] = changes + 1]
  /\ ring' = Append(ring, [pid |-> p, image |-> changes + 1])
  /\ UNCHANGED <<fileVars, events, dropped>>

Exit(p) ==
  /\ Change
  /\ image[p] # 0
  /\ image' = [image EXCEPT ![p] = 0]
  /\ UNCHANGED <<fileVars, ring, events, dropped>>

\* Faulty variant: the channel has no limit.
DeliverUnbounded ==
  /\ ring # <<>>
  /\ ring' = Tail(ring)
  /\ events' = Append(events, Head(ring))
  /\ UNCHANGED <<fileVars, image, dropped, snap, mode, changes>>

\* edr_deliver_event: the loader passes an exec event on, or drops it when the
\* channel is full.
Deliver ==
  /\ ring # <<>>
  /\ ring' = Tail(ring)
  /\ IF Len(events) < ChanCap
     THEN events' = Append(events, Head(ring)) /\ UNCHANGED dropped
     ELSE dropped' = dropped \cup {Head(ring).pid} /\ UNCHANGED events
  /\ UNCHANGED <<fileVars, image, snap, mode, changes>>
----------------------------------------------------------------------------
\* readProcesses and readNet, the first steps of a Snapshot.
ReadProcesses ==
  /\ snap.pc = "done"
  /\ snap' = [NoSnap EXCEPT !.pc = "files", !.procfs = image]
  /\ UNCHANGED <<fileVars, procVars, mode, changes>>

\* ensureInotify on the first cycle: watches for the directories there are,
\* those that cannot be watched being passed over. The first read finds nothing.
ensureInotify ==
  /\ snap.pc = "files" /\ mode = "inotify" /\ ~ opened
  /\ opened' = TRUE
  /\ watched' \in SUBSET exists
  /\ snap' = [snap EXCEPT !.pc = "walk"]
  /\ UNCHANGED <<file, exists, queue, lastFileState, reported, lastOp, mixed, settled,
                 procVars, mode, changes>>

\* compactFileEvents: one event for an operation on a path, where the first was.
compactFileEvents(batch) ==
  FoldLeft(LAMBDA out, e : IF e \in Range(out) THEN out ELSE Append(out, e), <<>>, batch)

\* The last operation on a file in a sequence of events, or what it was before.
LastOp(batch, d, before) ==
  LET its == SelectSeq(batch, LAMBDA e : e.path = <<d>>)
  IN IF its = <<>> THEN before ELSE Last(its).op

\* scanFileChangesInotify: one read of at most BufCap events, each reported with
\* the state its file has by now; a new directory gets a watch if it can.
ScanInotify ==
  LET n == IF Len(queue) < BufCap THEN Len(queue) ELSE BufCap
      batch == SubSeq(queue, 1, n)
      out == compactFileEvents(batch)
      stated == {d \in Dirs : file[d] # 0 /\ \E e \in Range(out) : e.path = <<d>> /\ e.op # "delete"}
  IN /\ snap.pc = "files" /\ mode = "inotify" /\ opened /\ n > 0
     /\ queue' = SubSeq(queue, n + 1, Len(queue))
     /\ watched' \in IF [op |-> "create", path |-> Sub] \in Range(batch) /\ Sub \in exists
                     THEN {watched, watched \cup {Sub}} ELSE {watched}
     /\ reported' = reported \cup {<<d, file[d]>> : d \in stated}
     /\ lastOp' = [d \in Dirs |-> LastOp(out, d, lastOp[d])]
     /\ mixed' = mixed \cup {<<d>> : d \in {x \in Dirs : LastOp(batch, x, "") # LastOp(out, x, "")}}
     /\ snap' = [snap EXCEPT !.pc = "drain"]
     /\ UNCHANGED <<file, exists, opened, lastFileState, settled, procVars, mode, changes>>
\* Faulty variant: with inotify open, an empty read ends the scan.
InotifyAlone ==
  /\ snap.pc = "files"
  /\ mode = "poll" \/ (opened /\ queue = <<>>)
  /\ snap' = [snap EXCEPT !.pc = IF opened THEN "drain" ELSE "walk"]
  /\ UNCHANGED <<fileVars, procVars, mode, changes>>

\* scanFileChanges polls in poll mode, and when inotify had nothing to read.
NothingRead ==
  /\ snap.pc = "files"
  /\ mode = "poll" \/ (opened /\ queue = <<>>)
  /\ snap' = [snap EXCEPT !.pc = "walk"]
  /\ UNCHANGED <<fileVars, procVars, mode, changes>>

\* Faulty variant: files that are gone are not looked for.
WalkWithoutDeletes ==
  LET new == {d \in Dirs : file[d] # 0 /\ file[d] # lastFileState[d]}
  IN /\ snap.pc = "walk"
     /\ reported' = reported \cup {<<d, file[d]>> : d \in new}
     /\ lastOp' = [d \in Dirs |->
                     IF d \in new THEN IF lastFileState[d] = 0 THEN "create" ELSE "write"
                     ELSE lastOp[d]]
     /\ lastFileState' = file
     /\ settled' = TRUE
     /\ snap' = [snap EXCEPT !.pc = "drain"]
     /\ UNCHANGED <<file, exists, queue, watched, opened, mixed, procVars, mode, changes>>

\* scanFileChangesPoll: differences to the last walk.
Walk ==
  LET new == {d \in Dirs : file[d] # 0 /\ file[d] # lastFileState[d]}
      gone == {d \in Dirs : file[d] = 0 /\ lastFileState[d] # 0}
  IN /\ snap.pc = "walk"
     /\ reported' = reported \cup {<<d, file[d]>> : d \in new}
     /\ lastOp' = [d \in Dirs |->
                     IF d \in new THEN IF lastFileState[d] = 0 THEN "create" ELSE "write"
                     ELSE IF d \in gone THEN "delete" ELSE lastOp[d]]
     /\ lastFileState' = file
     /\ settled' = TRUE
     /\ snap' = [snap EXCEPT !.pc = "drain"]
     /\ UNCHANGED <<file, exists, queue, watched, opened, mixed, procVars, mode, changes>>

\* Faulty variant: the first event of a process is kept.
DrainFirst ==
  LET of(p) == SelectSeq(events, LAMBDA e : e.pid = p)
  IN /\ snap.pc = "drain"
     /\ snap' = [snap EXCEPT !.pc = "done",
          !.merged = [p \in Pids |-> IF of(p) = <<>> THEN snap.procfs[p] ELSE Head(of(p)).image],
          !.lagging = {e.pid : e \in Range(ring)}]
     /\ events' = <<>>
     /\ UNCHANGED <<fileVars, image, ring, dropped, mode, changes>>

\* drainBPF: all events of the channel, in order, over the processes read.
DrainBPF ==
  LET of(p) == SelectSeq(events, LAMBDA e : e.pid = p)
  IN /\ snap.pc = "drain"
     /\ snap' = [snap EXCEPT !.pc = "done",
          !.merged = [p \in Pids |-> IF of(p) = <<>> THEN snap.procfs[p] ELSE Last(of(p)).image],
          !.lagging = {e.pid : e \in Range(ring)}]
     /\ events' = <<>>
     /\ UNCHANGED <<fileVars, image, ring, dropped, mode, changes>>

----------------------------------------------------------------------------
Init ==
  /\ file = [d \in Dirs |-> 0]
  /\ exists \in {{Root}, {Root, Sub}}
  /\ queue = <<>>
  /\ watched = {}
  /\ opened = FALSE
  /\ lastFileState = [d \in Dirs |-> 0]
  /\ image = [p \in Pids |-> 0]
  /\ ring = <<>>
  /\ events = <<>>
  /\ snap = NoSnap
  /\ reported = {}
  /\ lastOp = [d \in Dirs |-> "none"]
  /\ mixed = {}
  /\ dropped = {}
  /\ settled = FALSE
  /\ mode \in {"inotify", "poll"}
  /\ changes = 0

Snapshot ==
  ReadProcesses \/ ensureInotify \/ ScanInotify \/ NothingRead \/ Walk \/ DrainBPF

Next ==
  \/ \E d \in Dirs : WriteFile(d) \/ DeleteFile(d)
  \/ MakeSub \/ RemoveSub
  \/ \E p \in Pids : Exec(p) \/ Exit(p)
  \/ Deliver
  \/ Snapshot

\* RunOnce takes a snapshot on every tick, and the loader polls its ring.
Spec == Init /\ [][Next]_vars /\ WF_vars(Snapshot) /\ WF_vars(Deliver)

----------------------------------------------------------------------------
\* The queues keep to their limits, and every file is in a directory that exists.
TypeOK ==
  /\ Len(queue) <= QueueCap /\ Len(events) <= ChanCap
  /\ watched \subseteq exists /\ exists \subseteq Dirs
  /\ \A d \in Dirs : file[d] \in 0..changes /\ (file[d] # 0 => d \in exists)
  /\ snap.pc \in {"files", "walk", "drain", "done"}

\* Once a walk has ended, nothing has changed since and no inotify event waits,
\* the reports so far tell the truth: a file that is there was reported with
\* its present state and not as deleted after it, and one that is not there
\* was never reported or was reported deleted last. Excepted are files of
\* which the kernel dropped an event, or had no watch for one while earlier
\* ones were waiting, and those whose events compactFileEvents put out of order.
SettledReportsAgree ==
  settled /\ queue = <<>> =>
    \A d \in Dirs : <<d>> \notin mixed =>
      IF file[d] # 0 THEN lastOp[d] \in {"create", "write"} /\ <<d, file[d]>> \in reported
      ELSE lastOp[d] \in {"none", "delete"}

\* "ring0 wins on conflict" never puts an older program over a newer one read
\* from /proc, unless the channel dropped an event of the process or one was
\* still on its way from the probe when the channel was drained.
MergedIsNotOlder ==
  snap.pc = "done" =>
    \A p \in Pids : snap.merged[p] # 0 /\ snap.merged[p] < snap.procfs[p] =>
      p \in dropped \cup snap.lagging

\* Whatever the watches miss, a file that stays as it is gets reported in that
\* state: when inotify has nothing to read, the scan polls.
LastingStateIsReported ==
  \A d \in Dirs : []<>(file[d] = 0 \/ <<d, file[d]>> \in reported)
=============================================================================
