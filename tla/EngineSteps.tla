----------------------------- MODULE EngineSteps ----------------------------
EXTENDS EngineLemmas

(***************************************************************************)
(* Compactions, by the background worker and by Compact(), keep RInv, the  *)
(* crash-safety invariant of EngineLemmas.  Each step keeps CloseInv, what *)
(* a Close() that has stopped the worker leaves behind, and ErrorFree: no  *)
(* error becomes sticky unless a step fails.                               *)
(***************************************************************************)

----------------------------------------------------------------------------
(* Compactions by the background worker.                                   *)

\* CompactTablePrefix selects the oldest tables and publishes the reserved number.
LEMMA CompactSelectsR ==
  ASSUME RecoverySetting, IInv, RInv, CompactSelects
  PROVE  RInv'
<1> DEFINE m == ReservedManifest
           sel == SubSeq(man.tables, 1, Trigger)
<1>1. /\ proc = "up" /\ WorkerFrame /\ worker.pc = "compact"
      /\ UNCHANGED <<wal, synced, imm, pending, bgErr, flags>>
  BY DEF CompactSelects, LockFree
<1>2. /\ wal' = wal /\ mem' = mem /\ imm' = imm /\ compReq' = compReq /\ pending' = pending
  BY <1>1 DEF WorkerFrame, flags
<1>3. PICK q \in 0 .. MaxSeq - 1 :
        acked \subseteq 1 .. q /\ Safe(disk, wal, q) /\ nextSeq = q + 1
        /\ Good(disk.dir, wal, q) /\ Holds(man, wal, q)
  BY <1>1, OpenHandle
<1>4. /\ pending = {} /\ man = disk.dir.man /\ DiskOK(disk) /\ man \in Manifest /\ Numbered(man)
      /\ ~termErr /\ mem = wal[man.active] /\ imm = ImmWal(man, wal)
  BY <1>1, OpenHandle
<1>5. Trigger # 0 /\ (compReq' => Trigger # 0)
  BY <1>1, <1>2, CompactionWanted
<1>6. CASE CheckOpen /\ Len(man.tables) < Trigger
  <2>1. /\ worker' = [IdleWorker EXCEPT !.pc = "cdone"] /\ disk' = disk /\ man' = man
        /\ termErr' = termErr /\ proc' = proc
    BY <1>6 DEF CompactSelects
  <2>2. worker'.pc = "cdone" /\ worker'.num = 0
    BY <2>1 DEF IdleWorker
  <2>3. WorkerGood'
    BY <1>5, <2>2, EmptyHanded
  <2>4. HandleGood'
    BY <1>1, <1>2, <1>4, <2>1, SameHandle
  <2>5. compactor.pc # "gap" /\ proc' \in {"up", "dying"} /\ Safe(disk', wal, q)
    BY <1>1, <1>3, <2>1, WorkerBusy
  <2> QED
    BY <1>1, <1>3, <2>3, <2>4, <2>5, WorkerStep
<1>7. CASE ~(CheckOpen /\ Len(man.tables) < Trigger)
  <2>1. PICK o \in ReserveOutcomes :
          /\ disk' = Publish(disk, m, o)
          /\ termErr' = (termErr \/ Terminal(o)) /\ proc' = Survive(o)
          /\ IF o = "durable"
             THEN /\ man' = m
                  /\ worker' = [IdleWorker EXCEPT !.pc = "cbuild", !.num = man.next,
                       !.sel = sel, !.data = TableData(sel),
                       !.all = (Len(man.tables) = Trigger)]
             ELSE WorkerFails("cdone") /\ UNCHANGED man
    BY <1>7 DEF CompactSelects
  <2>2. /\ o \in {"durable", "not_published", "crash"} /\ ~Terminal(o)
        /\ o # "not_published" => CheckOpen /\ man.next # MaxFile
    BY Outcomes DEF ReserveOutcomes
  <2>3. o # "not_published" =>
          /\ m \in Manifest /\ Good([disk.dir EXCEPT !.man = m], wal, q)
    <3>1. SUFFICES ASSUME o # "not_published"
                   PROVE  m \in Manifest /\ Good([disk.dir EXCEPT !.man = m], wal, q)
      OBVIOUS
    <3>2. m \in Manifest
      BY <1>4, <2>2, <3>1, ReservedManifestType
    <3>3. Numbered(m) /\ Holds(m, wal, q)
      BY <1>3, <1>4, ReservedGood, Zenon
    <3>4. m.tables = man.tables /\ m.active = man.active /\ m.imm = man.imm
      BY <1>4 DEF ReservedManifest, Manifest
    <3> DEFINE e == [disk.dir EXCEPT !.man = m]
    <3>5. e.man = m /\ e.sst = disk.dir.sst /\ e.wal = disk.dir.wal
      BY <1>4 DEF DiskOK, Dir
    <3> HIDE DEF e, m
    <3>6. Good(e, wal, q)
      BY <1>3, <1>4, <3>3, <3>4, <3>5, Zenon DEF Good, Present
    <3> QED
      BY <3>2, <3>6 DEF e
  <2>4. m.tables = man.tables /\ m.active = man.active /\ m.imm = man.imm /\ m.next = man.next + 1
    BY <1>4 DEF ReservedManifest, Manifest
  <2>5. Safe(disk', wal, q) /\ disk'.dir.man = IF o = "not_published" THEN man ELSE m
    <3> HIDE DEF m
    <3> QED
      BY <1>1, <1>3, <1>4, <2>1, <2>2, <2>3, PublishKeeps
  <2>6. ~termErr' /\ proc' = IF o = "crash" THEN "dying" ELSE "up"
    BY <1>4, <2>1, <2>2, Zenon DEF Survive
  <2> HIDE DEF m
  <2>7. CASE o = "durable"
    <3>1. man' = m /\ man'.active = man.active /\ man'.imm = man.imm /\ man' = disk'.dir.man
      BY <2>1, <2>4, <2>5, <2>7
    <3>2. HandleGood'
      <4>1. mem' = wal'[man'.active] /\ imm' = ImmWal(man', wal')
        BY <1>2, <1>4, <3>1, Zenon DEF ImmWal
      <4> QED
        BY <1>2, <1>4, <2>6, <3>1, <4>1 DEF HandleGood
    <3>3. /\ worker'.pc = "cbuild" /\ worker'.num = man.next /\ worker'.sel = sel
          /\ worker'.data = TableData(sel)
      <4> HIDE DEF sel
      <4> QED
        BY <2>1, <2>7, Zenon DEF IdleWorker
    <3>4. Trigger \in 1 .. Len(man.tables)
      <4>1. Len(man.tables) \in Nat
        BY <1>4 DEF Manifest
      <4> QED
        BY <1>5, <1>7, <2>2, <2>7, <4>1, EngineAssumption
    <3>5. Len(sel) = Trigger
      <4>1. man.tables \in Seq(Table)
        BY <1>4 DEF Manifest
      <4> QED
        BY <3>4, <4>1, PrefixSplit
    <3>6. /\ man.next \in Nat /\ man.active \in Nat /\ man.active < man.next
          /\ man.next \notin TableNums(man.tables) /\ man.next # man.active /\ man.next # man.imm
      BY <1>4, NumbersTaken DEF FileNum
    <3>7. man.next < man.next + 1 /\ man.next # man.active - 1
      BY <3>6
    <3>8. WorkerGood'
      <4> HIDE DEF sel
      <4>1. /\ Len(worker'.sel) \in 1 .. Len(man'.tables)
            /\ worker'.sel = SubSeq(man'.tables, 1, Len(worker'.sel))
        BY <2>4, <3>1, <3>3, <3>4, <3>5 DEF sel
      <4>2. /\ worker'.num < man'.next
            /\ worker'.num \notin TableNums(man'.tables) \cup {man'.active, man'.imm}
            /\ worker'.num # man'.active - 1
        BY <2>4, <3>1, <3>3, <3>6, <3>7
      <4> QED
        BY <1>5, <3>3, <4>1, <4>2 DEF WorkerGood, Flushing, Compacting, OutputInPlace
    <3>9. compactor.pc # "gap" /\ proc' \in {"up", "dying"}
      BY <1>1, <2>6, WorkerBusy
    <3> QED
      BY <1>1, <1>3, <2>5, <3>2, <3>8, <3>9, WorkerStep
  <2>8. CASE o # "durable"
    <3>1. WorkerFails("cdone") /\ man' = man
      BY <2>1, <2>8
    <3>2. HandleGood'
      <4>1. proc' = "up" => o = "not_published"
        BY <2>2, <2>6, <2>8
      <4> QED
        BY <1>2, <1>4, <2>5, <2>6, <3>1, <4>1 DEF HandleGood
    <3>3. WorkerGood'
      BY <1>5, <3>1, FailedWorker
    <3>4. compactor.pc # "gap" /\ proc' \in {"up", "dying"}
      BY <1>1, <2>6, WorkerBusy
    <3> QED
      BY <1>1, <1>3, <2>5, <3>2, <3>3, <3>4, WorkerStep
  <2> QED
    BY <2>7, <2>8
<1> QED
  BY <1>6, <1>7

\* A full compaction that keeps no version.
LEMMA CompactKeepsNothingR ==
  ASSUME RecoverySetting, IInv, RInv, CompactKeepsNothing
  PROVE  RInv'
<1>1. /\ proc = "up" /\ WorkerFrame /\ worker.pc = "cbuild"
      /\ worker' = [worker EXCEPT !.pc = "ccommit", !.kept = FALSE]
      /\ UNCHANGED <<proc, files, man, imm, pending, errors, flags>>
  BY DEF CompactKeepsNothing
<1>2. /\ disk' = disk /\ wal' = wal /\ synced' = synced /\ mem' = mem /\ man' = man
      /\ imm' = imm /\ pending' = pending /\ termErr' = termErr /\ proc' = proc
      /\ compReq' = compReq
  BY <1>1 DEF files, WorkerFrame, errors, flags
<1>3. PICK q \in 0 .. MaxSeq - 1 :
        acked \subseteq 1 .. q /\ Safe(disk, wal, q) /\ nextSeq = q + 1
  BY <1>1, OpenHandle
<1>4. HandleGood'
  BY <1>1, <1>2, SameHandle, OpenHandle
<1>5. /\ worker'.pc = "ccommit" /\ worker'.num = worker.num /\ worker'.sel = worker.sel
      /\ worker'.data = worker.data /\ worker'.kept = FALSE
  BY <1>1, OpenHandle DEF WorkerType
<1>6. WorkerGood'
  BY <1>1, <1>2, <1>5 DEF RInv, WorkerGood, Flushing, Compacting, OutputInPlace
<1>7. compactor.pc # "gap" /\ Safe(disk', wal, q) /\ proc' \in {"up", "dying"}
  BY <1>1, <1>2, <1>3, WorkerBusy
<1> QED
  BY <1>1, <1>2, <1>3, <1>4, <1>6, <1>7, WorkerStep

\* No file that MANIFEST m names has the number n, and none that a flush will write.
Unused(n, m) ==
  /\ n \in FileNum /\ n <= m.next /\ n \notin TableNums(m.tables) \cup {m.active, m.imm}
  /\ m.imm # 0 => n # m.active - 1

\* m is what a compaction of sel makes of the MANIFEST; a table that is kept is on disk k.
CompactsTo(m, sel, n, k) ==
  \/ IsCompacted(m, man, sel, n, TRUE) /\ k.dir.sst[n] = TableData(sel)
  \/ IsCompacted(m, man, sel, n, FALSE)

\* CompactTablePrefix publishes the new table list and unlinks the inputs.
LEMMA CommitKeeps ==
  ASSUME RecoverySetting, IInv, RInv, proc = "up",
         NEW q, NEW k, DiskOK(k), k.dir.man = man, Safe(k, wal, q),
         NEW c \in 1 .. Len(man.tables), NEW sel, sel = SubSeq(man.tables, 1, c),
         NEW n, Unused(n, man), n < MaxFile,
         NEW m, CompactsTo(m, sel, n, k),
         NEW o \in {"durable", "not_published", "crash"}, NEW pend, pend = {},
         CommitCompaction(o, k, pend, m, sel), UNCHANGED <<mem, imm, wal>>
  PROVE  Safe(disk', wal, q) /\ HandleGood' /\ proc' \in {"up", "dying"}
<1> DEFINE P == Publish(k, m, o)
           e == [k.dir EXCEPT !.man = m]
<1>1. /\ man = disk.dir.man /\ man \in Manifest /\ Numbered(man) /\ ~termErr
      /\ mem = wal[man.active] /\ imm = ImmWal(man, wal)
  BY OpenHandle
<1>0. /\ n \in FileNum /\ n <= man.next /\ n \notin TableNums(man.tables) \cup {man.active, man.imm}
      /\ man.imm # 0 => n # man.active - 1
  BY DEF Unused
<1>2. /\ Numbered(m) /\ \A w, x : Holds(man, w, x) => Holds(m, w, x)
      /\ m.active = man.active /\ m.imm = man.imm
      /\ \A i \in DOMAIN m.tables :
           \/ k.dir.sst[n] = TableData(sel) /\ m.tables[i].num = n /\ m.tables[i].data = TableData(sel)
           \/ \E j \in DOMAIN man.tables : m.tables[i] = man.tables[j]
      /\ TableNums(m.tables) \cap TableNums(sel) = {}
  <2>1. CASE IsCompacted(m, man, sel, n, TRUE) /\ k.dir.sst[n] = TableData(sel)
    <3>1. Replaces(m, man, sel, n)
      BY <1>0, <1>1, <2>1, CompactedGood, Zenon
    <3> QED
      BY <2>1, <3>1 DEF Replaces
  <2>2. CASE IsCompacted(m, man, sel, n, FALSE)
    <3>1. Replaces(m, man, sel, n) /\ AllOld(m, man)
      BY <1>0, <1>1, <2>2, CompactedGood, Zenon
    <3> QED
      BY <3>1 DEF Replaces, AllOld
  <2> QED
    BY <2>1, <2>2, Zenon DEF CompactsTo
<1>3. m \in Manifest
  <2>1. man.tables \in Seq(Table)
    BY <1>1 DEF Manifest
  <2>2. sel \in Seq(Table) /\ Len(sel) = c /\ Len(sel) <= Len(man.tables)
    BY <2>1, PrefixSplit
  <2>3. /\ CompactedManifest(man, sel, n, TRUE) \in Manifest
        /\ CompactedManifest(man, sel, n, FALSE) \in Manifest
    BY <1>0, <1>1, <2>2, CompactedManifestType, Zenon
  <2> QED
    BY <2>3, Zenon DEF CompactsTo, IsCompacted
<1>4. Good(e, wal, q)
  <2>1. Good(k.dir, wal, q)
    BY SafeDir
  <2>2. e.man = m /\ e.sst = k.dir.sst /\ e.wal = k.dir.wal
    BY <1>3 DEF DiskOK, Dir
  <2> HIDE DEF e
  <2>3. /\ \A j \in DOMAIN man.tables : k.dir.sst[man.tables[j].num] = man.tables[j].data
        /\ man.active \in k.dir.wal /\ (man.imm # 0 => man.imm \in k.dir.wal)
    BY <2>1 DEF Good, Present
  <2>4. Present(e)
    <3>1. \A i \in DOMAIN m.tables : k.dir.sst[m.tables[i].num] = m.tables[i].data
      <4>1. \A i \in DOMAIN m.tables :
              \/ k.dir.sst[n] = TableData(sel) /\ m.tables[i].num = n /\ m.tables[i].data = TableData(sel)
              \/ \E j \in DOMAIN man.tables : m.tables[i] = man.tables[j]
        BY <1>2, Zenon
      <4>2. \A j \in DOMAIN man.tables : k.dir.sst[man.tables[j].num] = man.tables[j].data
        BY <2>3, Zenon
      <4> QED
        BY <4>1, <4>2, Zenon
    <3>2. m.active \in k.dir.wal /\ (m.imm # 0 => m.imm \in k.dir.wal)
      <4>1. m.active = man.active /\ m.imm = man.imm
        BY <1>2
      <4> QED
        BY <2>3, <4>1
    <3> QED
      BY <2>2, <3>1, <3>2, Zenon DEF Present
  <2>5. Holds(m, wal, q)
    BY <1>2, <2>1 DEF Good
  <2> QED
    BY <1>2, <2>2, <2>4, <2>5 DEF Good
<1>5. /\ Safe(P, wal, q) /\ DiskOK(P)
      /\ P.dir.man = IF o = "not_published" THEN man ELSE m
  BY <1>3, <1>4, PublishKeeps
<1>6. /\ ~termErr' /\ proc' = (IF o = "crash" THEN "dying" ELSE "up")
  BY <1>1, Outcomes, Zenon DEF CommitCompaction, Survive
<1>7. CASE o = "durable"
  <2>1. man' = m /\ \E r \in Removals(P, ObsoletePaths(sel)) :
                      disk' = r.disk /\ pending' = pend \cup r.failed
    BY <1>7 DEF CommitCompaction
  <2> HIDE DEF P
  <2>2. PICK r \in Removals(P, ObsoletePaths(sel)) :
          disk' = r.disk /\ pending' = pend \cup r.failed
    BY <2>1
  <2>3. P.dir.man = m
    BY <1>5, <1>7
  <2>4. ObsoletePaths(sel) \cap Live(P.dir.man) = {}
    BY <1>2, <2>3 DEF ObsoletePaths, Live
  <2>5. Safe(disk', wal, q) /\ pending' = {} /\ disk'.dir = Unlink(P.dir, ObsoletePaths(sel))
    BY <1>5, <2>2, <2>4, SafeRemovals
  <2>6. disk'.dir.man = m
    BY <1>5, <2>3, <2>5, UnlinkOK DEF DiskOK
  <2>7. HandleGood'
    <3>1. mem' = wal'[man'.active] /\ imm' = ImmWal(man', wal')
      BY <1>1, <1>2, <2>1, Zenon DEF ImmWal
    <3> QED
      BY <1>6, <2>1, <2>5, <2>6, <3>1 DEF HandleGood
  <2> QED
    BY <1>6, <2>5, <2>7
<1>8. CASE o # "durable"
  <2>1. disk' = P /\ pending' = pend /\ man' = man
    BY <1>8 DEF CommitCompaction
  <2> HIDE DEF P
  <2>2. proc' = "up" => disk'.dir.man = man
    BY <1>5, <1>6, <1>8, <2>1
  <2>3. HandleGood'
    BY <1>1, <1>6, <2>1, <2>2 DEF HandleGood
  <2> QED
    BY <1>5, <1>6, <2>1, <2>3
<1> QED
  BY <1>7, <1>8

\* The worker commits its compaction.
LEMMA CompactCommitsR ==
  ASSUME RecoverySetting, IInv, RInv, CompactCommits
  PROVE  RInv'
<1> DEFINE m == CompactedManifest(man, worker.sel, worker.num, worker.kept)
<1>1. /\ proc = "up" /\ WorkerFrame /\ worker.pc = "ccommit"
      /\ UNCHANGED <<wal, synced, imm, bgErr, flags>>
  BY DEF CompactCommits, LockFree
<1>2. wal' = wal /\ mem' = mem /\ imm' = imm /\ compReq' = compReq
  BY <1>1 DEF WorkerFrame, flags
<1>3. PICK q \in 0 .. MaxSeq - 1 :
        acked \subseteq 1 .. q /\ Safe(disk, wal, q) /\ nextSeq = q + 1
  BY <1>1, OpenHandle
<1>4. /\ pending = {} /\ man = disk.dir.man /\ DiskOK(disk) /\ worker \in WorkerType
      /\ man \in Manifest
  BY <1>1, OpenHandle
<1>5. /\ Len(worker.sel) \in 1 .. Len(man.tables)
      /\ worker.sel = SubSeq(man.tables, 1, Len(worker.sel))
      /\ worker.data = TableData(worker.sel)
      /\ worker.num < man.next
      /\ worker.num \notin TableNums(man.tables) \cup {man.active, man.imm}
      /\ man.imm # 0 => worker.num # man.active - 1
      /\ worker.kept => disk.dir.sst[worker.num] = worker.data
  BY <1>1 DEF RInv, WorkerGood, Compacting, OutputInPlace
<1>6. worker.num \in FileNum /\ worker.num < MaxFile /\ worker.num <= man.next
  <2>1. worker.num \in FileNum /\ worker.num < MaxFile
    BY <1>1 DEF IInv, WorkerShape
  <2> QED
    BY <1>4, <1>5, <2>1 DEF Manifest, FileNum
<1>7. worker.kept \in BOOLEAN
  BY <1>4 DEF WorkerType
<1>8. PICK o \in {"durable", "not_published", "crash"} :
        /\ CommitCompaction(o, disk, pending, m, worker.sel)
        /\ worker' = [IdleWorker EXCEPT !.pc = "cdone", !.ok = (o = "durable")]
  <2>1. (IF IsTablePrefix(worker.sel, man) THEN PublishOutcomes(m) ELSE {"not_published"})
          \subseteq {"durable", "not_published", "crash"}
    BY Outcomes
  <2> QED
    BY <2>1, Zenon DEF CompactCommits
<1>9. IsCompacted(m, man, worker.sel, worker.num, worker.kept)
  BY DEF IsCompacted
<1> HIDE DEF m
<1>10. worker.kept = TRUE => disk.dir.sst[worker.num] = TableData(worker.sel)
  BY <1>5
<1>11. Safe(disk', wal, q) /\ HandleGood' /\ proc' \in {"up", "dying"}
  <2> DEFINE sel == worker.sel
             n == worker.num
             c == Len(sel)
  <2>1. /\ c \in 1 .. Len(man.tables) /\ sel = SubSeq(man.tables, 1, c)
        /\ n \in FileNum /\ n < MaxFile /\ n <= man.next
        /\ n \notin TableNums(man.tables) \cup {man.active, man.imm}
        /\ (man.imm # 0 => n # man.active - 1)
        /\ CommitCompaction(o, disk, pending, m, sel)
    BY <1>5, <1>6, <1>8
  <2>2. CompactsTo(m, sel, n, disk)
    <3>1. CASE worker.kept = TRUE
      BY <1>9, <1>10, <3>1, Zenon DEF CompactsTo
    <3>2. CASE worker.kept = FALSE
      BY <1>9, <3>2, Zenon DEF CompactsTo
    <3> QED
      BY <1>7, <3>1, <3>2, Zenon
  <2> HIDE DEF sel, n, c
  <2> QED
    <3>1. Unused(n, man)
      BY <2>1, Zenon DEF Unused
    <3> QED
      BY <1>1, <1>2, <1>3, <1>4, <2>1, <2>2, <3>1, CommitKeeps, Zenon
<1>12. WorkerGood'
  <2>1. worker'.pc = "cdone" /\ worker'.num = 0
    BY <1>8 DEF IdleWorker
  <2> QED
    BY <1>2, <2>1, EmptyHanded, CompactionWanted
<1>13. compactor.pc # "gap"
  BY <1>1, WorkerBusy
<1> QED
  BY <1>1, <1>3, <1>11, <1>12, <1>13, WorkerStep

----------------------------------------------------------------------------
(* Explicit Compact().                                                     *)

\* A step of Compact().
LEMMA CompactStep ==
  ASSUME RInv, proc = "up", CompactFrame, QuietGood',
         NEW q \in 0 .. MaxSeq - 1, acked \subseteq 1 .. q, nextSeq = q + 1,
         Safe(disk', wal, q), proc' \in {"up", "dying"}, HandleGood', WorkerGood'
  PROVE  RInv'
<1>1. /\ wal' = wal /\ synced' = synced /\ acked' = acked /\ nextSeq' = nextSeq
  BY DEF CompactFrame, history
<1>2. ImagesGood'
  BY <1>1, ImagesHold
<1>3. WalsSynced'
  BY <1>1 DEF RInv, WalsSynced
<1> QED
  BY <1>2, <1>3 DEF RInv

\* Compact() is called, and counts the tables once the worker is at rest.
LEMMA CompactWaitsR ==
  ASSUME RecoverySetting, IInv, RInv, CompactCalled \/ CompactCounts
  PROVE  RInv'
<1>1. /\ proc = "up" /\ CompactFrame /\ UNCHANGED <<proc, disk, man, pending, termErr>>
  BY DEF CompactCalled, CompactCounts, LockFree
<1>2. PICK q \in 0 .. MaxSeq - 1 :
        acked \subseteq 1 .. q /\ Safe(disk, wal, q) /\ nextSeq = q + 1
  BY <1>1, OpenHandle
<1>3. /\ wal' = wal /\ mem' = mem /\ imm' = imm /\ flushReq' = flushReq /\ compReq' = compReq
      /\ writer' = writer /\ worker' = worker /\ closer' = closer /\ stop' = stop
      /\ closed' = closed
  BY <1>1 DEF CompactFrame, flags, closeVars
<1>4. HandleGood' /\ WorkerGood'
  <2>1. HandleGood'
    BY <1>1, <1>3 DEF RInv, HandleGood
  <2>2. WorkerGood'
    BY <1>1, <1>3 DEF RInv, WorkerGood, Flushing, Compacting, OutputInPlace
  <2> QED
    BY <2>1, <2>2
<1>5. QuietGood'
  <2>1. CASE CompactCalled
    <3>1. writer = "idle" /\ (\A c \in Closers : closer[c] = "idle") /\ compactor'.pc = "wait"
      BY <2>1 DEF CompactCalled, RecoverySetting, IInv, TypeOK
    <3> QED
      BY <1>3, <3>1 DEF RInv, QuietGood
  <2>2. CASE CompactCounts /\ CheckOpen
    <3>1. writer = "idle" /\ \A c \in Closers : closer[c] = "idle"
      BY <2>2 DEF CompactCounts, RInv, QuietGood
    <3>2. ~stop
      BY <2>2, <3>1 DEF CheckOpen, RInv, QuietGood
    <3>3. ~FlushRunning /\ ~CompactRunning /\ ~flushReq /\ ~compReq
      BY <2>2, <3>2 DEF CompactCounts, BackgroundQuiet, CheckOpen
    <3>4. worker.pc \in WorkerPCs
      BY DEF IInv, TypeOK
    <3>5. worker.pc \in {"idle", "exited"}
      BY <3>3, <3>4 DEF WorkerPCs, FlushRunning, CompactRunning
    <3> QED
      BY <1>3, <3>1, <3>2, <3>3, <3>5 DEF QuietGood, Flushing, Compacting
  <2>3. CASE CompactCounts /\ ~CheckOpen
    <3>1. compactor'.pc = "idle"
      BY <2>3 DEF CompactCounts, IdleCompactor
    <3> QED
      BY <1>3, <3>1 DEF RInv, QuietGood
  <2> QED
    BY <2>1, <2>2, <2>3
<1>6. Safe(disk', wal, q) /\ proc' \in {"up", "dying"}
  BY <1>1, <1>2
<1> QED
  BY <1>1, <1>2, <1>4, <1>5, <1>6, CompactStep

\* CompactTablePrefix of an explicit Compact().
LEMMA CompactRunsR ==
  ASSUME RecoverySetting, IInv, RInv, CompactRuns
  PROVE  RInv'
<1>1. /\ proc = "up" /\ CompactFrame /\ compactor.pc = "gap" /\ compactor' = IdleCompactor
  BY DEF CompactRuns, LockFree
<1>2. PICK q \in 0 .. MaxSeq - 1 :
        acked \subseteq 1 .. q /\ Safe(disk, wal, q) /\ nextSeq = q + 1
  BY <1>1, OpenHandle
<1>3. /\ wal' = wal /\ mem' = mem /\ imm' = imm /\ flushReq' = flushReq /\ compReq' = compReq
      /\ writer' = writer /\ worker' = worker /\ closer' = closer /\ stop' = stop
      /\ closed' = closed
  BY <1>1 DEF CompactFrame, flags, closeVars
<1>4. QuietGood'
  <2>1. compactor'.pc = "idle"
    BY <1>1 DEF IdleCompactor
  <2> QED
    BY <1>3, <2>1 DEF RInv, QuietGood
<1>5. WorkerGood'
  <2>1. worker.pc \in {"idle", "exited"} /\ worker.num = 0
    BY <1>1 DEF RInv, QuietGood, WorkerGood
  <2> QED
    BY <1>3, <2>1, EmptyHanded, CompactionWanted
<1>6. /\ pending = {} /\ man = disk.dir.man /\ DiskOK(disk) /\ man \in Manifest /\ Numbered(man)
      /\ ~termErr
  BY <1>1, OpenHandle
<1>7. ASSUME Safe(disk', wal, q), disk'.dir.man = man, pending' = {}, UNCHANGED <<proc, man, termErr>>
      PROVE  RInv'
  <2>1. HandleGood'
    BY <1>1, <1>3, <1>6, <1>7, SameHandle
  <2>2. proc' \in {"up", "dying"}
    BY <1>1, <1>7
  <2> QED
    BY <1>1, <1>2, <1>4, <1>5, <1>7, <2>1, <2>2, CompactStep
<1>8. CASE ~CheckOpen \/ compactor.count = 0 \/ Len(man.tables) < compactor.count
  <2>1. UNCHANGED <<proc, disk, man, pending, termErr>>
    BY <1>8, Zenon DEF CompactRuns
  <2> QED
    BY <1>2, <1>6, <1>7, <2>1
<1>9. CASE ~(~CheckOpen \/ compactor.count = 0 \/ Len(man.tables) < compactor.count)
  <2> DEFINE n == man.next
             sel == SubSeq(man.tables, 1, compactor.count)
             tmp(d) == WrittenTemp(d, n)
             sst(d) == Renamed(tmp(d), n, TableData(sel))
             fail(k, f) == disk' = k /\ pending' = f /\ UNCHANGED <<proc, man, termErr>>
  <2>1. PICK c \in CleanupObsoleteFiles(disk, pending, man) :
          \/ n = MaxFile /\ fail(c.disk, c.failed)
          \/ n < MaxFile /\ Faults \cap {"build", "rename"} # {} /\ fail(tmp(c.disk), c.failed)
          \/ n < MaxFile /\ "syncdir" \in Faults /\ fail(sst(c.disk), c.failed)
          \/ /\ n < MaxFile
             /\ \E kept \in IF compactor.count = Len(man.tables) THEN BOOLEAN ELSE {TRUE} :
                  \E o \in PublishOutcomes(CompactedManifest(man, sel, n, kept)) :
                    CommitCompaction(o, IF kept THEN SyncDir(sst(c.disk)) ELSE c.disk,
                                     c.failed, CompactedManifest(man, sel, n, kept), sel)
    BY <1>9, Zenon DEF CompactRuns
  <2>2. Safe(c.disk, wal, q) /\ c.failed = {} /\ DiskOK(c.disk) /\ c.disk.dir.man = man
    <3>1. c \in CleanupObsoleteFiles(disk, {}, disk.dir.man)
      BY <1>6, <2>1, Zenon
    <3> QED
      BY <1>2, <1>6, <3>1, SafeCleanup
  <2>3. /\ n \in FileNum /\ n \notin TableNums(man.tables) \cup {man.active, man.imm}
        /\ n <= man.next /\ (man.imm # 0 => n # man.active - 1)
    <3>1. /\ man.next \in FileNum /\ man.next \notin TableNums(man.tables)
          /\ man.next # man.active /\ man.next # man.imm
          /\ man.active < man.next /\ man.active \in Nat /\ man.next \in Nat
      BY <1>6, NumbersTaken DEF FileNum
    <3> QED
      BY <3>1
  <2>4. /\ compactor.count \in 1 .. Len(man.tables) /\ sel \in Seq(Table)
        /\ TableData(sel) \in SUBSET SeqNum
    <3>1. man.tables \in Seq(Table) /\ compactor.count \in Nat /\ Len(man.tables) \in Nat
      <4>1. man.tables \in Seq(Table)
        BY <1>6 DEF Manifest
      <4>2. compactor.count \in Nat
        BY DEF IInv, TypeOK
      <4> QED
        BY <4>1, <4>2
    <3>2. compactor.count \in 1 .. Len(man.tables)
      BY <1>9, <3>1
    <3>3. sel \in Seq(Table)
      BY <3>1, <3>2, PrefixSplit
    <3> QED
      BY <3>2, <3>3, TableDataType, Zenon
  <2> HIDE DEF n, sel
  <2>5. Safe(tmp(c.disk), wal, q) /\ DiskOK(tmp(c.disk)) /\ tmp(c.disk).dir.man = man
    <3>1. Good(c.disk.dir, wal, q)
      BY <2>2, SafeDir
    <3> QED
      BY <2>2, <2>3, <3>1, SafeWrittenTemp, WrittenTempOK
  <2> HIDE DEF tmp
  <2>6. /\ Safe(sst(c.disk), wal, q) /\ DiskOK(sst(c.disk)) /\ sst(c.disk).dir.man = man
        /\ sst(c.disk).dir.sst[n] = TableData(sel)
    <3> DEFINE k == tmp(c.disk)
               data == TableData(sel)
    <3>1. /\ DiskOK(k) /\ Safe(k, wal, q) /\ data \in SUBSET SeqNum
          /\ n \in FileNum /\ n \notin TableNums(k.dir.man.tables)
      BY <2>3, <2>4, <2>5
    <3>2. Safe(sst(c.disk), wal, q) /\ sst(c.disk).dir.sst[n] = TableData(sel)
      <4> HIDE DEF k, data
      <4>1. Safe(Renamed(k, n, data), wal, q) /\ Renamed(k, n, data).dir.sst[n] = data
        BY <3>1, SafeRenamed
      <4> QED
        BY <4>1, Zenon DEF k, data
    <3>3. DiskOK(sst(c.disk)) /\ sst(c.disk).dir.man = man
      BY <2>3, <2>4, <2>5, RenamedOK, Zenon
    <3> QED
      BY <3>2, <3>3
  <2> HIDE DEF sst
  <2>9. Unused(n, man)
    BY <2>3, Zenon DEF Unused
  <2>7. CASE fail(c.disk, c.failed) \/ fail(tmp(c.disk), c.failed) \/ fail(sst(c.disk), c.failed)
    BY <1>7, <2>2, <2>5, <2>6, <2>7, Zenon
  <2> HIDE DEF fail
  <2>8. ASSUME NEW kept \in BOOLEAN, n < MaxFile,
               NEW o \in PublishOutcomes(CompactedManifest(man, sel, n, kept)),
               CommitCompaction(o, IF kept THEN SyncDir(sst(c.disk)) ELSE c.disk,
                                c.failed, CompactedManifest(man, sel, n, kept), sel)
        PROVE  RInv'
    <3> DEFINE k == IF kept THEN SyncDir(sst(c.disk)) ELSE c.disk
               m == CompactedManifest(man, sel, n, kept)
    <3>1. /\ DiskOK(k) /\ k.dir.man = man /\ Safe(k, wal, q)
          /\ kept = TRUE => k.dir.sst[n] = TableData(sel)
      <4>1. CASE kept
        <5>1. Good(sst(c.disk).dir, wal, q)
          BY <2>6, SafeDir
        <5>2. Safe(SyncDir(sst(c.disk)), wal, q)
          BY <5>1, SafeSyncDir
        <5>3. DiskOK(SyncDir(sst(c.disk))) /\ SyncDir(sst(c.disk)).dir = sst(c.disk).dir
          BY <2>6, SyncDirOK, Zenon
        <5> QED
          BY <2>6, <4>1, <5>2, <5>3
      <4>2. CASE ~kept
        BY <2>2, <4>2, Zenon
      <4> QED
        BY <4>1, <4>2, Zenon
    <3>2. o \in {"durable", "not_published", "crash"}
      BY Outcomes
    <3>3. IsCompacted(m, man, sel, n, kept) /\ CommitCompaction(o, k, c.failed, m, sel)
      BY <2>8 DEF IsCompacted
    <3> HIDE DEF k, m
    <3>6. CompactsTo(m, sel, n, k)
      <4>1. CASE kept = TRUE
        BY <3>1, <3>3, <4>1, Zenon DEF CompactsTo
      <4>2. CASE kept = FALSE
        BY <3>3, <4>2, Zenon DEF CompactsTo
      <4> QED
        BY <4>1, <4>2, Zenon
    <3>4. sel = SubSeq(man.tables, 1, compactor.count)
      BY DEF sel
    <3>5. Safe(disk', wal, q) /\ HandleGood' /\ proc' \in {"up", "dying"}
      <4> DEFINE count == compactor.count
                 pend == c.failed
      <4>1. /\ count \in 1 .. Len(man.tables) /\ sel = SubSeq(man.tables, 1, count)
            /\ pend = {} /\ CommitCompaction(o, k, pend, m, sel)
            /\ DiskOK(k) /\ k.dir.man = man /\ Safe(k, wal, q)
            /\ UNCHANGED <<mem, imm, wal>> /\ n < MaxFile
        BY <1>3, <2>2, <2>4, <2>8, <3>1, <3>3, <3>4, Zenon
      <4> HIDE DEF count, pend
      <4> QED
        BY <1>1, <2>9, <3>2, <3>6, <4>1, CommitKeeps, Zenon
    <3> QED
      BY <1>1, <1>2, <1>4, <1>5, <3>5, CompactStep
  <2> QED
    BY <2>1, <2>7, <2>8, Zenon
<1> QED
  BY <1>8, <1>9

----------------------------------------------------------------------------
(* What Close() leaves behind.                                             *)

\* A Close() whose final sync may fail opens the queue again; it must not race another
\* Close() that has already told the worker to stop.
ClosersAgree == "close_sync" \notin Faults \/ \A c, d \in Closers : c = d

\* The handle and its MANIFEST agree on whether there is an immutable MemTable.
ImmMatches == proc = "up" => (imm = {} <=> man.imm = 0)

Drained == imm = {} /\ man.imm = 0 /\ ~Full(mem)

\* Once the worker is told to stop nobody writes, and unless an error is sticky there is
\* nothing left to flush; it was told by the only thread in Close() when a Close() may
\* still change its mind.
StopDrained ==
  /\ proc \in {"down", "failed"} => ~stop
  /\ closed => stop /\ worker.pc = "exited"
  /\ stop => closing
  /\ worker.pc = "exited" => stop
  /\ stop /\ ~termErr /\ ~bgErr /\ (proc = "up" \/ closed) => Drained
  /\ "close_sync" \in Faults /\ stop =>
       \A c \in Closers : closer[c] = "join" \/ (closed /\ closer[c] \in {"idle", "drain"})

CloseInv == ImmMatches /\ StopDrained

\* A step that leaves Close() and the MemTable alone, takes no error back, and gives an
\* empty handle nothing to flush.
LeavesClose ==
  /\ UNCHANGED <<closer, closing, closed, stop, mem>>
  /\ proc = "up" /\ proc' \in {"up", "dying"}
  /\ (termErr => termErr') /\ (bgErr => bgErr')
  /\ imm = {} /\ man.imm = 0 => imm' = {} /\ man'.imm = 0
  /\ worker.pc = "exited" => worker'.pc = "exited"
  /\ worker'.pc = "exited" => worker.pc = "exited" \/ stop
  /\ ImmMatches'

\* Such a step keeps what Close() needs.
LEMMA LeavesCloseKeeps ==
  ASSUME CloseInv, LeavesClose
  PROVE  CloseInv'
<1>1. proc' \notin {"down", "failed"}
  BY DEF LeavesClose
<1>2. closed' => stop' /\ worker'.pc = "exited"
  BY DEF LeavesClose, CloseInv, StopDrained
<1>3. (stop' => closing') /\ (worker'.pc = "exited" => stop')
  BY DEF LeavesClose, CloseInv, StopDrained
<1>4. ASSUME stop', ~termErr', ~bgErr' PROVE Drained'
  BY <1>4 DEF LeavesClose, CloseInv, StopDrained, Drained, Full
<1>5. ASSUME "close_sync" \in Faults, stop', NEW c \in Closers
      PROVE  closer'[c] = "join" \/ (closed' /\ closer'[c] \in {"idle", "drain"})
  BY <1>5 DEF LeavesClose, CloseInv, StopDrained
<1> QED
  BY <1>1, <1>2, <1>3, <1>4, <1>5, Zenon DEF CloseInv, StopDrained, LeavesClose

\* A rotation makes an immutable MemTable of a full one.
LEMMA RotateImm ==
  ASSUME IInv, ImmMatches, proc = "up", NEW o, NEW k, NEW w, NEW y, NEW full, NEW fresh,
         full # {}, RotateMemTable(o, k, w, y, full, fresh)
  PROVE  ImmMatches' /\ proc' \in {"up", "dying"}
<1>1. man \in [active : FileNum, imm : FileNum \cup {0}, next : FileNum,
               last : SeqNum \cup {0}, tables : Seq(Table), dead : SUBSET SeqNum]
  BY DEF IInv, TypeOK, Manifest
<1>2. man.active # 0
  BY <1>1 DEF FileNum
<1>3. RotatedManifest.imm = man.active
  BY <1>1 DEF RotatedManifest
<1>4. CASE o = "durable"
  BY <1>2, <1>3, <1>4 DEF RotateMemTable, ImmMatches, Survive
<1>5. CASE o # "durable"
  BY <1>5 DEF RotateMemTable, ImmMatches, Survive
<1> QED
  BY <1>4, <1>5

\* A full MemTable is not empty.
LEMMA FullHasData ==
  ASSUME NEW S, Full(S)
  PROVE  S # {}
BY FS_EmptySet, EngineAssumption DEF Full

\* ApplyWriteGroup and its rotations keep ImmMatches.
LEMMA WriteImm ==
  ASSUME IInv, ImmMatches, proc = "up", ApplyThenRotate \/ RotateThenApply
  PROVE  ImmMatches' /\ proc' \in {"up", "dying"}
<1>1. CASE ApplyThenRotate
  <2> DEFINE m == mem \cup {nextSeq}
  <2>1. CASE Full(m) /\ imm = {}
    <3>1. PICK o, k, w, y : RotateMemTable(o, k, w, y, m, {})
      BY <1>1, <2>1, Zenon DEF ApplyThenRotate
    <3> QED
      BY <3>1, RotateImm
  <2>2. CASE ~(Full(m) /\ imm = {})
    BY <1>1, <2>2 DEF ApplyThenRotate, ImmMatches
  <2> QED
    BY <2>1, <2>2
<1>2. CASE RotateThenApply
  <2>1. PICK o, fresh : RotateMemTable(o, disk, wal, synced, mem, fresh)
    BY <1>2, Zenon DEF RotateThenApply
  <2>2. mem # {}
    BY <1>2, FullHasData DEF RotateThenApply
  <2> QED
    BY <2>1, <2>2, RotateImm
<1> QED
  BY <1>1, <1>2

\* With the worker stopped no write passes CheckOpen.
LEMMA WriteClose ==
  ASSUME IInv, CloseInv, Write \/ WriteStalls \/ StalledSpins \/ StalledResumes
  PROVE  CloseInv'
<1>1. CASE Write \/ (StalledResumes /\ CheckOpen)
  <2>1. /\ proc = "up" /\ ~stop /\ ~closed /\ (ApplyThenRotate \/ RotateThenApply)
        /\ closeVars' = closeVars /\ worker' = worker /\ worker.pc # "exited"
    BY <1>1, Zenon DEF Write, StalledResumes, LockFree, CheckOpen, CloseInv, StopDrained, WriteFrame
  <2>2. ImmMatches' /\ proc' \in {"up", "dying"}
    BY <2>1, WriteImm, Zenon DEF CloseInv
  <2>3. ~stop' /\ ~closed' /\ proc' \notin {"down", "failed"} /\ worker'.pc # "exited"
    BY <2>1, <2>2 DEF closeVars
  <2> QED
    BY <2>2, <2>3, Zenon DEF CloseInv, StopDrained
<1>2. CASE WriteStalls \/ StalledSpins \/ (StalledResumes /\ ~CheckOpen)
  <2>1. /\ UNCHANGED <<closer, closing, closed, stop, mem>> /\ proc = "up" /\ proc' = proc
        /\ UNCHANGED <<termErr, bgErr, imm, man, worker>>
    BY <1>2, Zenon DEF WriteStalls, StalledSpins, StalledResumes, LockFree, handle, errors, closeVars,
                WriteFrame
  <2>2. LeavesClose
    BY <2>1 DEF LeavesClose, CloseInv, ImmMatches
  <2> QED
    BY <2>2, LeavesCloseKeeps
<1> QED
  BY <1>1, <1>2

\* The worker leaves its loop only when it is told to stop.
LEMMA WorkerExits ==
  ASSUME TypeOK, Worker, worker'.pc = "exited"
  PROVE  stop
<1>1. worker \in [pc : WorkerPCs, num : FileNum \cup {0}, base : FileNum \cup {0},
                   sel : Seq(Table), data : SUBSET SeqNum, all : BOOLEAN,
                   kept : BOOLEAN, ok : BOOLEAN]
  BY DEF TypeOK
<1>2. CASE WorkerPicks
  BY <1>1, <1>2 DEF WorkerPicks
<1>3. ASSUME NEW from, NEW to \in WorkerPCs \ {"exited"}, NEW done \in WorkerPCs \ {"exited"},
             BuildTable(from, to, done) \/ RenameTable(from, to, done)
             \/ SyncTable(from, to, done)
      PROVE  FALSE
  BY <1>1, <1>3, Zenon DEF BuildTable, RenameTable, SyncTable, WorkerFails, IdleWorker
<1>8. ASSUME NEW pc \in WorkerPCs \ {"exited"}, WorkerFails(pc) PROVE FALSE
  BY <1>8 DEF WorkerFails, IdleWorker
<1>4. CASE FlushSelects \/ FlushRemovesWal \/ WorkerFinishes
  <2> DEFINE done  == [IdleWorker EXCEPT !.pc = "fdone"]
             build == [IdleWorker EXCEPT !.pc = "fbuild", !.num = man.active - 1,
                                         !.base = man.imm, !.data = imm]
  <2>1. WorkerFails("fdone") \/ worker' = IdleWorker \/ worker' = done \/ worker' = build
    BY <1>4, Zenon DEF FlushSelects, FlushRemovesWal, WorkerFinishes
  <2>2. build.pc = "fbuild" /\ done.pc = "fdone" /\ IdleWorker.pc = "idle"
    BY DEF IdleWorker
  <2>3. ~WorkerFails("fdone")
    BY <1>8 DEF WorkerPCs
  <2> HIDE DEF done, build
  <2> QED
    BY <2>1, <2>2, <2>3
<1>9. CASE FlushCommits
  <2>1. \/ WorkerFails("fdone")
        \/ worker' = [IdleWorker EXCEPT !.pc = "fremove", !.base = worker.base]
    BY <1>9, Zenon DEF FlushCommits
  <2> QED
    BY <1>8, <2>1, Zenon DEF IdleWorker, WorkerPCs
<1>5. CASE CompactSelects
  <2>1. \/ WorkerFails("cdone")
        \/ worker' = [IdleWorker EXCEPT !.pc = "cdone"]
        \/ \E sel : worker' = [IdleWorker EXCEPT !.pc = "cbuild", !.num = man.next, !.sel = sel,
                               !.data = TableData(sel), !.all = (Len(man.tables) = Trigger)]
    BY <1>5, Zenon DEF CompactSelects
  <2> QED
    BY <1>8, <2>1, Zenon DEF IdleWorker, WorkerPCs
<1>6. CASE CompactKeepsNothing
  BY <1>1, <1>6 DEF CompactKeepsNothing
<1>7. CASE CompactCommits
  <2>1. PICK o : worker' = [IdleWorker EXCEPT !.pc = "cdone", !.ok = (o = "durable")]
    BY <1>7, Zenon DEF CompactCommits
  <2> QED
    BY <2>1 DEF IdleWorker
<1> QED
  BY <1>2, <1>3, <1>4, <1>5, <1>6, <1>7, <1>9 DEF Worker, WorkerPCs

\* A step of the worker: a finished worker takes none, and only a flush that is published
\* changes the immutable MemTable, in the handle and in the MANIFEST.
LEMMA WorkerClose ==
  ASSUME IInv, CloseInv, Worker
  PROVE  CloseInv'
<1> DEFINE Quiet == UNCHANGED <<man, imm>>
           Reserves == man' = ReservedManifest /\ imm' = imm
           Flushes == man' = FlushedManifest /\ imm' = {}
           Compacts == (\E m, sel, n, kept : man = m /\ man' = CompactedManifest(m, sel, n, kept))
                       /\ imm' = imm
<1>1. /\ proc = "up" /\ proc' \in {"up", "dying"} /\ worker.pc # "exited"
      /\ UNCHANGED <<closer, closing, closed, stop, mem>>
      /\ (termErr => termErr') /\ (bgErr => bgErr')
      /\ Quiet \/ Reserves \/ Flushes \/ Compacts
  <2>1. CASE WorkerPicks
    BY <2>1 DEF WorkerPicks, WorkerFrame, closeVars, errors, LockFree
  <2>2. CASE WorkerFinishes
    BY <2>2, Zenon DEF WorkerFinishes, WorkerFrame, closeVars, errors, LockFree
  <2>3. CASE FlushSelects
    BY <2>3 DEF FlushSelects, WorkerFrame, closeVars, errors, LockFree
  <2>4. ASSUME NEW from \in WorkerPCs \ {"exited"}, NEW to, NEW done,
               BuildTable(from, to, done) \/ RenameTable(from, to, done)
               \/ SyncTable(from, to, done)
        PROVE  /\ proc = "up" /\ proc' \in {"up", "dying"} /\ worker.pc # "exited"
               /\ UNCHANGED <<closer, closing, closed, stop, mem>>
               /\ (termErr => termErr') /\ (bgErr => bgErr')
               /\ Quiet
    BY <2>4 DEF BuildTable, RenameTable, SyncTable, WorkerFrame, closeVars, errors, LockFree
  <2>5. CASE FlushCommits
    BY <2>5, Zenon DEF FlushCommits, WorkerFrame, closeVars, errors, LockFree, Survive
  <2>6. CASE FlushRemovesWal
    BY <2>6 DEF FlushRemovesWal, WorkerFrame, closeVars, errors
  <2>7. CASE CompactSelects
    BY <2>7, Zenon DEF CompactSelects, WorkerFrame, closeVars, errors, LockFree, Survive
  <2>8. CASE CompactKeepsNothing
    BY <2>8 DEF CompactKeepsNothing, WorkerFrame, closeVars, errors, LockFree
  <2>9. CASE CompactCommits
    <3> DEFINE m == CompactedManifest(man, worker.sel, worker.num, worker.kept)
    <3>1. PICK o : CommitCompaction(o, disk, pending, m, worker.sel)
      BY <2>9, Zenon DEF CompactCommits
    <3>2. /\ (termErr => termErr') /\ proc' \in {"up", "dying"} /\ (man' = man \/ man' = m)
      <4> HIDE DEF m
      <4> QED
        BY <3>1, Zenon DEF CommitCompaction, Survive
    <3>3. proc = "up" /\ worker.pc = "ccommit" /\ UNCHANGED <<imm, bgErr, closer, closing, closed, stop, mem>>
      BY <2>9 DEF CompactCommits, WorkerFrame, closeVars, LockFree
    <3>4. Quiet \/ Compacts
      BY <3>2, <3>3, Zenon
    <3> QED
      BY <3>2, <3>3, <3>4
  <2> QED
    BY <2>1, <2>2, <2>3, <2>4, <2>5, <2>6, <2>7, <2>8, <2>9, Zenon DEF Worker, WorkerPCs
<1>2. man \in Manifest
  BY DEF IInv, TypeOK
<1>3. /\ Quiet \/ Reserves \/ Compacts => man'.imm = man.imm /\ imm' = imm
      /\ Flushes => man'.imm = 0 /\ imm' = {}
  BY <1>2, Zenon DEF Manifest, ReservedManifest, FlushedManifest, CompactedManifest
<1>4. worker'.pc = "exited" => stop
  BY WorkerExits DEF IInv
<1>5. LeavesClose
  BY <1>1, <1>3, <1>4 DEF LeavesClose, CloseInv, ImmMatches
<1> QED
  BY <1>5, LeavesCloseKeeps

\* Compact() leaves the immutable MemTable alone.
LEMMA CompactClose ==
  ASSUME IInv, CloseInv, CompactCalled \/ CompactCounts \/ CompactRuns
  PROVE  CloseInv'
<1> DEFINE Compacts == \E sel, n, kept : man' = CompactedManifest(man, sel, n, kept)
<1>1. /\ proc = "up" /\ proc' \in {"up", "dying"}
      /\ UNCHANGED <<closer, closing, closed, stop, mem, imm, bgErr, worker>>
      /\ (termErr => termErr') /\ (man' = man \/ Compacts)
  <2>1. CASE CompactCalled \/ CompactCounts
    BY <2>1 DEF CompactCalled, CompactCounts, CompactFrame, closeVars, LockFree
  <2>2. CASE CompactRuns
    <3>1. proc = "up" /\ UNCHANGED <<closer, closing, closed, stop, mem, imm, bgErr, worker>>
      BY <2>2, Zenon DEF CompactRuns, CompactFrame, closeVars, LockFree
    <3>2. \/ UNCHANGED <<proc, man, termErr>>
          \/ \E o, k, pend, sel, n, kept :
               CommitCompaction(o, k, pend, CompactedManifest(man, sel, n, kept), sel)
      BY <2>2, Zenon DEF CompactRuns
    <3>3. ASSUME NEW o, NEW k, NEW pend, NEW m, NEW sel, CommitCompaction(o, k, pend, m, sel)
          PROVE  (termErr => termErr') /\ proc' \in {"up", "dying"} /\ (man' = man \/ man' = m)
      BY <3>3, Zenon DEF CommitCompaction, Survive
    <3>4. CASE UNCHANGED <<proc, man, termErr>>
      BY <3>1, <3>4
    <3>5. CASE \E o, k, pend, sel, n, kept :
                 CommitCompaction(o, k, pend, CompactedManifest(man, sel, n, kept), sel)
      <4>1. PICK o, k, pend, sel, n, kept :
                 CommitCompaction(o, k, pend, CompactedManifest(man, sel, n, kept), sel)
        BY <3>5, Zenon
      <4>2. /\ (termErr => termErr') /\ proc' \in {"up", "dying"}
            /\ man' = man \/ man' = CompactedManifest(man, sel, n, kept)
        BY <3>3, <4>1, Zenon
      <4> QED
        BY <3>1, <4>2, Zenon
    <3> QED
      BY <3>2, <3>4, <3>5, Zenon
  <2> QED
    BY <2>1, <2>2
<1>2. man'.imm = man.imm
  BY <1>1, Zenon DEF IInv, TypeOK, Manifest, CompactedManifest
<1>3. LeavesClose
  BY <1>1, <1>2 DEF LeavesClose, CloseInv, ImmMatches
<1> QED
  BY <1>3, LeavesCloseKeeps

\* Where a thread in Close() may go from its loop, and what stays as it was.
LEMMA CloseFinishesTo ==
  ASSUME TypeOK, NEW c \in Closers, CloseFinishes(c)
  PROVE  \/ stop' /\ closing' /\ closer' = [closer EXCEPT ![c] = "join"]
         \/ "close_sync" \in Faults /\ stop' = stop /\ closer' = [closer EXCEPT ![c] = "resume"]
BY Zenon DEF CloseFinishes, At

\* A turn of the loop of Close(): the thread waits, or it tells the worker to stop when
\* there is nothing left to flush or an error is sticky, or it changes its mind.
LEMMA CloseTurnClose ==
  ASSUME ClosersAgree, IInv, CloseInv, NEW c \in Closers, proc = "up",
         closer[c] \in {"wait_compaction", "wait_flush"} \/ (closer[c] = "drain" /\ ~closed),
         CloseTurn(c), CloseFrame
  PROVE  CloseInv'
<1>1. TypeOK /\ ImmMatches /\ closer \in [Closers -> CloserPCs]
  BY Zenon DEF IInv, CloseInv, TypeOK
<1>2. worker' = worker /\ closed' = closed
  BY DEF CloseFrame
<1>3. "close_sync" \in Faults => ~stop /\ (\A d \in Closers : d = c)
  BY DEF ClosersAgree, CloseInv, StopDrained
<1> DEFINE Nothing == UNCHANGED <<man, mem, imm, termErr, bgErr, proc>>
           Ends == \/ stop' /\ closing' /\ closer' = [closer EXCEPT ![c] = "join"]
                   \/ "close_sync" \in Faults /\ stop' = stop
           Rotates(o) == /\ RotateMemTable(o, disk, wal, synced, mem, {})
                         /\ bgErr' = (o \notin {"durable", "crash"})
                         /\ \/ o = "durable" /\ stop' = stop /\ closing'
                            \/ o # "durable" /\ Ends
<1>4. CloseFinishes(c) => Ends
  BY <1>1, CloseFinishesTo, Zenon
<1>5. \/ Nothing /\ stop' = stop /\ closing'
      \/ ~termErr /\ ~bgErr /\ imm = {} /\ Full(mem) /\ \E o : Rotates(o)
      \/ Nothing /\ CloseMayFinish /\ Ends
  <2>1. CASE /\ closing' = TRUE /\ UNCHANGED stop /\ UNCHANGED <<man, mem, imm, errors, proc>>
    BY <2>1 DEF errors
  <2>2. CASE /\ ~(termErr \/ bgErr) /\ imm = {} /\ Full(mem)
             /\ \E o \in RotateOutcomes :
                  /\ RotateMemTable(o, disk, wal, synced, mem, {})
                  /\ bgErr' = (o \notin {"durable", "crash"})
                  /\ IF o = "durable" THEN closing' = TRUE /\ UNCHANGED stop ELSE CloseFinishes(c)
    <3>1. PICK o \in RotateOutcomes :
            /\ RotateMemTable(o, disk, wal, synced, mem, {})
            /\ bgErr' = (o \notin {"durable", "crash"})
            /\ IF o = "durable" THEN closing' = TRUE /\ UNCHANGED stop ELSE CloseFinishes(c)
      BY <2>2, Zenon
    <3> HIDE DEF Ends
    <3>2. Rotates(o)
      BY <1>4, <3>1, Zenon
    <3> HIDE DEF Rotates
    <3> QED
      BY <2>2, <3>2, Zenon
  <2>3. CASE CloseMayFinish /\ CloseFinishes(c) /\ UNCHANGED <<man, mem, imm, errors, proc>>
    BY <1>4, <2>3, Zenon DEF errors
  <2> QED
    BY <2>1, <2>2, <2>3, Zenon DEF CloseTurn
<1>6. ASSUME Nothing, stop => stop', closed' => stop', stop' => closing',
             stop' /\ ~stop /\ ~termErr /\ ~bgErr => imm = {} /\ ~Full(mem),
             "close_sync" \in Faults /\ stop' => closer'[c] = "join"
      PROVE  CloseInv'
  <2>1. ImmMatches' /\ ~(proc' \in {"down", "failed"})
    BY <1>1, <1>6 DEF ImmMatches
  <2>2. /\ closed' => stop' /\ worker'.pc = "exited"
        /\ worker'.pc = "exited" => stop'
    BY <1>2, <1>6, Zenon DEF CloseInv, StopDrained
  <2>3. ASSUME stop', ~termErr', ~bgErr' PROVE Drained'
    <3>1. CASE stop
      BY <1>6, <2>3, <3>1, Zenon DEF CloseInv, StopDrained, Drained, Full
    <3>2. CASE ~stop
      <4>1. imm = {} /\ ~Full(mem)
        BY <1>6, <2>3, <3>2
      <4>2. man.imm = 0
        BY <1>1, <4>1 DEF ImmMatches
      <4> QED
        BY <1>6, <4>1, <4>2, Zenon DEF Drained, Full
    <3> QED
      BY <3>1, <3>2
  <2>4. ASSUME "close_sync" \in Faults, stop', NEW d \in Closers PROVE closer'[d] = "join"
    BY <1>3, <1>6, <2>4
  <2> QED
    BY <1>6, <2>1, <2>2, <2>3, <2>4, Zenon DEF CloseInv, StopDrained
<1>7. CASE Nothing /\ stop' = stop /\ closing'
  BY <1>2, <1>3, <1>6, <1>7, Zenon DEF CloseInv, StopDrained
<1>8. CASE Nothing /\ CloseMayFinish /\ Ends
  <2>1. CASE stop' /\ closing' /\ closer' = [closer EXCEPT ![c] = "join"]
    <3>1. closer'[c] = "join"
      BY <1>1, <2>1
    <3>2. ~termErr /\ ~bgErr => imm = {} /\ ~Full(mem)
      BY <1>8 DEF CloseMayFinish
    <3> QED
      BY <1>6, <1>8, <2>1, <3>1, <3>2
  <2>2. CASE "close_sync" \in Faults /\ stop' = stop
    <3>1. ~stop /\ ~stop' /\ ~closed'
      BY <1>2, <1>3, <2>2 DEF CloseInv, StopDrained
    <3> QED
      BY <1>6, <1>8, <3>1
  <2> QED
    BY <1>8, <2>1, <2>2
<1>9. CASE ~termErr /\ ~bgErr /\ imm = {} /\ Full(mem) /\ \E o : Rotates(o)
  <2>1. PICK o : Rotates(o)
    BY <1>9, Zenon
  <2>2. ~stop /\ ~closed' /\ worker'.pc # "exited"
    BY <1>2, <1>9 DEF CloseInv, StopDrained, Drained
  <2>3. mem # {}
    BY <1>9, FullHasData, Zenon
  <2>4. ImmMatches' /\ proc' \in {"up", "dying"}
    BY <1>1, <2>1, <2>3, RotateImm, Zenon
  <2>5. CASE ~stop'
    BY <2>2, <2>4, <2>5, Zenon DEF CloseInv, StopDrained
  <2>6. CASE stop'
    <3>1. o # "durable" /\ closing' /\ closer' = [closer EXCEPT ![c] = "join"]
      BY <2>1, <2>2, <2>6, Zenon
    <3>2. bgErr' \/ proc' = "dying"
      <4>1. o \notin {"durable", "crash"} => bgErr'
        BY <2>1, Zenon
      <4>2. proc' = Survive(o)
        BY <2>1, Zenon DEF RotateMemTable
      <4> QED
        BY <3>1, <4>1, <4>2 DEF Survive
    <3>3. "close_sync" \in Faults => \A d \in Closers : closer'[d] = "join"
      BY <1>1, <1>3, <3>1
    <3> QED
      BY <2>2, <2>4, <3>1, <3>2, <3>3, Zenon DEF CloseInv, StopDrained
  <2> QED
    BY <2>5, <2>6
<1> QED
  BY <1>5, <1>7, <1>8, <1>9, Zenon

\* Every step of Close().
LEMMA CloseClose ==
  ASSUME ClosersAgree, IInv, CloseInv, NEW c \in Closers, CloseCalled(c) \/ Close(c)
  PROVE  CloseInv'
<1>1. closer \in [Closers -> CloserPCs]
  BY DEF IInv, TypeOK
<1>2. CASE (CloseLocks(c) /\ ~closed) \/ CloseWakes(c)
  <2>1. /\ proc = "up" /\ CloseTurn(c) /\ CloseFrame
        /\ closer[c] \in {"wait_compaction", "wait_flush"} \/ (closer[c] = "drain" /\ ~closed)
    BY <1>2, Zenon DEF CloseLocks, CloseWakes, LockFree
  <2> QED
    BY <2>1, CloseTurnClose
<1>3. ASSUME UNCHANGED <<man, mem, imm, termErr, bgErr, proc, worker, closing, stop>>,
             proc = "up",
             \/ closed' = closed /\ (closed \/ ~stop \/ "close_sync" \notin Faults)
                /\ \E pc \in {"idle", "drain"} : closer' = [closer EXCEPT ![c] = pc]
             \/ closed' /\ stop /\ worker.pc = "exited" /\ closer' = [closer EXCEPT ![c] = "idle"]
      PROVE  CloseInv'
  <2>1. ImmMatches' /\ ~(proc' \in {"down", "failed"}) /\ (stop' => closing')
    BY <1>3 DEF CloseInv, StopDrained, ImmMatches
  <2>2. /\ closed' => stop' /\ worker'.pc = "exited"
        /\ worker'.pc = "exited" => stop'
    BY <1>3 DEF CloseInv, StopDrained
  <2>3. ASSUME stop', ~termErr', ~bgErr' PROVE Drained'
    BY <1>3, <2>3 DEF CloseInv, StopDrained, Drained, Full
  <2>4. ASSUME "close_sync" \in Faults, stop', NEW d \in Closers
        PROVE  closer'[d] = "join" \/ (closed' /\ closer'[d] \in {"idle", "drain"})
    <3>1. d = c
      BY <2>4 DEF ClosersAgree
    <3>2. closed' /\ closer'[d] \in {"idle", "drain"}
      BY <1>1, <1>3, <2>4, <3>1
    <3> QED
      BY <3>2
  <2> QED
    BY <2>1, <2>2, <2>3, <2>4, Zenon DEF CloseInv, StopDrained
<1>4. CASE CloseLocks(c) /\ closed
  BY <1>3, <1>4 DEF CloseLocks, CloseFrame, LockFree, At, errors
<1>5. CASE CloseCalled(c)
  <2>1. closed \/ ~stop \/ "close_sync" \notin Faults
    BY <1>5 DEF CloseCalled, CloseInv, StopDrained
  <2> QED
    BY <1>3, <1>5, <2>1 DEF CloseCalled, CloseFrame, At, errors
<1>6. CASE CloseResumes(c)
  <2>1. closed \/ ~stop \/ "close_sync" \notin Faults
    BY <1>6 DEF CloseResumes, CloseInv, StopDrained
  <2> QED
    BY <1>3, <1>6, <2>1 DEF CloseResumes, CloseFrame, At, errors
<1>7. CASE CloseJoins(c)
  <2>1. stop
    BY <1>7 DEF CloseJoins, CloseInv, StopDrained
  <2> QED
    BY <1>3, <1>7, <2>1 DEF CloseJoins, LockFree, At, errors, handle
<1> QED
  BY <1>2, <1>4, <1>5, <1>6, <1>7 DEF Close

\* Every step keeps it: a process without a handle starts from nothing, and Open() finds an
\* immutable MemTable exactly when the MANIFEST names one.
LEMMA NextClose ==
  ASSUME ClosersAgree, IInv, DownIsIdle, CloseInv, [Next]_vars
  PROVE  CloseInv'
<1>1. ASSUME NoHandle, proc' \in {"down", "failed"} PROVE CloseInv'
  BY <1>1, Zenon DEF NoHandle, CloseInv, StopDrained, ImmMatches, IdleWorker
<1>2. CASE UNCHANGED vars
  BY <1>2 DEF vars, CloseInv, StopDrained, ImmMatches, Drained, Full, handle, errors, closeVars
<1>3. CASE Crash \/ Release
  BY <1>1, <1>3, Zenon DEF Crash, Release
<1>4. CASE PowerLoss
  BY <1>4, Zenon DEF PowerLoss, CloseInv, StopDrained, ImmMatches, Drained, Full, handle, errors, closeVars
<1>5. CASE Open
  <2> DEFINE m == disk.dir.man
  <2>1. /\ UNCHANGED <<errors, worker, closeVars>> /\ worker = IdleWorker /\ ~stop
    BY <1>5, Zenon DEF Open, DownIsIdle, CloseInv, StopDrained
  <2>2. ~stop' /\ ~closed' /\ worker'.pc # "exited"
    BY <2>1 DEF CloseInv, StopDrained, closeVars, IdleWorker
  <2>3. ImmMatches'
    <3>1. CASE Opens(disk.dir, MaxSeq, MaxSeq)
      <4>1. man' = m /\ imm' = ImmData(m, MaxSeq)
        BY <1>5, <3>1, Zenon DEF Open
      <4>2. m.imm # 0 => ImmData(m, MaxSeq) # {}
        BY <3>1, Zenon DEF Opens
      <4>3. m.imm = 0 => ImmData(m, MaxSeq) = {}
        BY DEF ImmData
      <4> QED
        BY <4>1, <4>2, <4>3, Zenon DEF ImmMatches
    <3>2. CASE ~Opens(disk.dir, MaxSeq, MaxSeq)
      <4>1. proc' = "failed"
        BY <1>5, <3>2, Zenon DEF Open
      <4> QED
        BY <4>1 DEF ImmMatches
    <3> QED
      BY <3>1, <3>2
  <2> QED
    BY <2>2, <2>3, Zenon DEF CloseInv, StopDrained
<1>6. CASE Write \/ WriteStalls \/ StalledSpins \/ StalledResumes
  BY <1>6, WriteClose
<1>7. CASE Worker
  BY <1>7, WorkerClose
<1>8. CASE CompactCalled \/ CompactCounts \/ CompactRuns
  BY <1>8, CompactClose
<1>9. CASE \E c \in Closers : CloseCalled(c) \/ Close(c)
  BY <1>9, CloseClose
<1> QED
  BY <1>2, <1>3, <1>4, <1>5, <1>6, <1>7, <1>8, <1>9 DEF Next

----------------------------------------------------------------------------
(* Sticky errors.                                                          *)

\* Nobody closes, and an error is sticky or about to be only when the file numbers have run
\* out; a table that is to be renamed has been written.
ErrorFree ==
  /\ ~closing /\ ~closed /\ ~stop
  /\ proc = "down" => ~bgErr
  /\ ~worker.ok => worker.pc \in {"fdone", "cdone"}
  /\ proc = "up" =>
       /\ bgErr \/ ~worker.ok => man.next = MaxFile
       /\ Compacting => ~bgErr
       /\ worker.pc \in {"frename", "crename"} => worker.num \in disk.dir.tmp

\* The outcome of a publication when nothing fails.
LEMMA NothingFails ==
  ASSUME Faults = {}
  PROVE  /\ \A m, o : ValidateSnapshot(m) /\ o \in PublishOutcomes(m) => o \in {"durable", "crash"}
         /\ \A f, ok : ok \in May(f) => ok
BY Zenon DEF PublishOutcomes, May

\* Publications and new WALs leave temporary files alone.
LEMMA TmpKept ==
  ASSUME NEW k, "tmp" \in DOMAIN k.dir, NEW m, NEW n,
         NEW o \in {"durable", "not_published", "visible", "crash"}
  PROVE  /\ Publish(k, m, o).dir.tmp = k.dir.tmp
         /\ CreatedWal(k, n).dir.tmp = k.dir.tmp /\ "tmp" \in DOMAIN CreatedWal(k, n).dir
         /\ FileSync(k).dir = k.dir
<1>1. FileSync(k).dir = k.dir
  BY DEF FileSync, SyncDir
<1> DEFINE d == [k.dir EXCEPT !.man = m]
           e == [k.dir EXCEPT !.wal = @ \cup {n}]
<1>2. d.tmp = k.dir.tmp /\ e.tmp = k.dir.tmp /\ "tmp" \in DOMAIN e
  OBVIOUS
<1> HIDE DEF d, e
<1>3. Publish(k, m, o).dir \in {k.dir, d}
  BY DEF Publish, Touch, SyncDir, d
<1>4. CreatedWal(k, n).dir = e
  BY DEF CreatedWal, FileSync, Touch, SyncDir, e
<1> QED
  BY <1>1, <1>2, <1>3, <1>4, Zenon

\* A rotation leaves temporary files alone, and is refused without file numbers.
LEMMA RotateSteady ==
  ASSUME TypeOK, NEW k, k.dir = disk.dir, NEW w, NEW y, NEW full, NEW fresh,
         NEW o \in RotateOutcomes, RotateMemTable(o, k, w, y, full, fresh)
  PROVE  /\ proc' \in {"up", "dying"} /\ disk'.dir.tmp = disk.dir.tmp
         /\ man.next = MaxFile => man'.next = man.next
<1>1. "tmp" \in DOMAIN k.dir
  BY Zenon DEF TypeOK, Dir
<1>2. proc' = Survive(o) /\ man' = (IF o = "durable" THEN RotatedManifest ELSE man)
      /\ disk' = IF o = "refused" THEN k
                 ELSE Publish(CreatedWal(k, man.next + 1), RotatedManifest, o)
  BY Zenon DEF RotateMemTable
<1>3. man.next = MaxFile => o = "refused"
  BY EngineAssumption DEF RotateOutcomes
<1>4. o = "refused" \/ o \in {"durable", "not_published", "visible", "crash"}
  BY DEF RotateOutcomes, PublishOutcomes
<1>5. disk'.dir.tmp = disk.dir.tmp
  <2>1. CASE o = "refused"
    BY <1>2, <2>1
  <2>2. CASE o # "refused"
    <3> DEFINE c == CreatedWal(k, man.next + 1)
    <3>1. "tmp" \in DOMAIN c.dir /\ c.dir.tmp = k.dir.tmp
      BY <1>1, TmpKept, Zenon
    <3>2. disk' = Publish(c, RotatedManifest, o)
      BY <1>2, <2>2, Zenon
    <3> HIDE DEF c
    <3>3. Publish(c, RotatedManifest, o).dir.tmp = c.dir.tmp
      BY <1>4, <2>2, <3>1, TmpKept, Zenon
    <3> QED
      BY <3>1, <3>2, <3>3, Zenon
  <2> QED
    BY <2>1, <2>2
<1> QED
  BY <1>2, <1>3, <1>5, Zenon DEF Survive

\* A step of another thread than the worker that raises no error.
Steady ==
  /\ proc = "up" /\ proc' \in {"up", "dying"}
  /\ UNCHANGED <<worker, bgErr, closing, closed, stop>>
  /\ bgErr \/ ~worker.ok => man'.next = man.next
  /\ worker.pc \in {"frename", "crename"} => disk'.dir.tmp = disk.dir.tmp

\* Such a step keeps it.
LEMMA SteadyKeeps ==
  ASSUME ErrorFree, Steady
  PROVE  ErrorFree'
BY DEF ErrorFree, Steady, Compacting

\* Writes and their rotations.
LEMMA WriteErrorFree ==
  ASSUME IInv, ErrorFree, Write \/ WriteStalls \/ StalledSpins \/ StalledResumes
  PROVE  ErrorFree'
<1>1. CASE Write \/ (StalledResumes /\ CheckOpen)
  <2>1. /\ proc = "up" /\ (ApplyThenRotate \/ RotateThenApply) /\ WriteFrame
    BY <1>1, Zenon DEF Write, StalledResumes, LockFree
  <2>2. "tmp" \in DOMAIN disk.dir /\ TypeOK
    BY Zenon DEF IInv, TypeOK, Dir
  <2> DEFINE k == IF SyncOnWrite THEN FileSync(disk) ELSE disk
  <2>3. k.dir = disk.dir
    BY DEF FileSync, SyncDir
  <2> HIDE DEF k
  <2>4. /\ proc' \in {"up", "dying"} /\ disk'.dir.tmp = disk.dir.tmp
        /\ man.next = MaxFile => man'.next = man.next
    <3>1. CASE ApplyThenRotate
      <4> DEFINE m == mem \cup {nextSeq}
      <4>1. CASE Full(m) /\ imm = {}
        <5>1. PICK o, w, y : o \in RotateOutcomes /\ RotateMemTable(o, k, w, y, m, {})
          BY <3>1, <4>1, Zenon DEF ApplyThenRotate, k
        <5> HIDE DEF m
        <5> QED
          BY <2>2, <2>3, <5>1, RotateSteady, Zenon
      <4>2. CASE ~(Full(m) /\ imm = {})
        <5>1. disk' = k /\ UNCHANGED <<man, proc>>
          BY <3>1, <4>2, Zenon DEF ApplyThenRotate, k
        <5> QED
          BY <2>1, <2>3, <5>1
      <4> QED
        BY <4>1, <4>2, Zenon
    <3>2. CASE RotateThenApply
      <4>1. PICK o, fresh : o \in RotateOutcomes /\ RotateMemTable(o, disk, wal, synced, mem, fresh)
        BY <3>2, Zenon DEF RotateThenApply
      <4> QED
        BY <2>2, <4>1, RotateSteady, Zenon
    <3> QED
      BY <2>1, <3>1, <3>2
  <2>5. UNCHANGED <<worker, bgErr, closing, closed, stop>>
    BY <2>1 DEF WriteFrame, closeVars
  <2> QED
    BY <2>1, <2>4, <2>5, SteadyKeeps, Zenon DEF Steady, ErrorFree
<1>2. CASE WriteStalls \/ StalledSpins \/ (StalledResumes /\ ~CheckOpen)
  <2>1. /\ UNCHANGED <<closing, closed, stop>> /\ proc = "up" /\ proc' = proc
        /\ UNCHANGED <<bgErr, man, worker, disk>>
    BY <1>2, Zenon DEF WriteStalls, StalledSpins, StalledResumes, LockFree, handle, errors, files,
                closeVars, WriteFrame
  <2> QED
    BY <2>1, SteadyKeeps DEF Steady
<1> QED
  BY <1>1, <1>2

\* Compact() runs over a resting worker, and only without an error.
LEMMA CompactErrorFree ==
  ASSUME RInv, ErrorFree, CompactCalled \/ CompactCounts \/ CompactRuns
  PROVE  ErrorFree'
<1>1. CASE CompactCalled \/ CompactCounts
  <2>1. /\ UNCHANGED <<closing, closed, stop>> /\ proc = "up" /\ proc' = proc
        /\ UNCHANGED <<bgErr, man, worker, disk>>
    BY <1>1 DEF CompactCalled, CompactCounts, CompactFrame, closeVars, LockFree
  <2> QED
    BY <2>1, SteadyKeeps DEF Steady
<1>2. CASE CompactRuns
  <2>1. proc = "up" /\ UNCHANGED <<closing, closed, stop, bgErr, worker>> /\ compactor.pc = "gap"
    BY <1>2, Zenon DEF CompactRuns, CompactFrame, closeVars, LockFree
  <2>2. worker.pc \in {"idle", "exited"}
    BY <2>1, Zenon DEF RInv, QuietGood
  <2>3. worker.ok
    BY <2>2 DEF ErrorFree
  <2>4. UNCHANGED <<proc, man>> \/ (CheckOpen /\ \E o, k, pend, m, sel : CommitCompaction(o, k, pend, m, sel))
    BY <1>2, Zenon DEF CompactRuns
  <2>5. CASE UNCHANGED <<proc, man>>
    BY <2>1, <2>2, <2>3, <2>5, SteadyKeeps DEF Steady
  <2>6. CASE CheckOpen /\ \E o, k, pend, m, sel : CommitCompaction(o, k, pend, m, sel)
    <3>1. ~bgErr
      BY <2>6, Zenon DEF CheckOpen
    <3>2. PICK o : proc' = Survive(o)
      BY <2>6, Zenon DEF CommitCompaction
    <3> QED
      BY <2>1, <2>2, <2>3, <3>1, <3>2, SteadyKeeps DEF Steady, Survive
  <2> QED
    BY <2>4, <2>5, <2>6
<1> QED
  BY <1>1, <1>2

\* The worker carries on without an error: no new sticky error, no number taken back.
Carries ==
  /\ proc = "up" /\ UNCHANGED <<proc, man, bgErr, closing, closed, stop>> /\ worker'.ok
  /\ Compacting' => Compacting
  /\ worker'.pc \in {"frename", "crename"} => worker'.num \in disk'.dir.tmp

\* Such a step keeps it, too.
LEMMA CarriesKeeps ==
  ASSUME ErrorFree, Carries
  PROVE  ErrorFree'
BY DEF ErrorFree, Carries

\* The loop of the worker: an error becomes sticky only when the job failed.
LEMMA LoopErrorFree ==
  ASSUME IInv, ErrorFree, WorkerPicks \/ WorkerFinishes
  PROVE  ErrorFree'
<1>1. worker \in WorkerType
  BY Zenon DEF IInv, TypeOK, WorkerType
<1>2. CASE WorkerPicks
  <2>1. proc = "up" /\ UNCHANGED <<proc, man, bgErr, closing, closed, stop>> /\ worker.pc = "idle"
    BY <1>2 DEF WorkerPicks, WorkerFrame, closeVars, errors, LockFree
  <2>2. worker'.ok = worker.ok /\ worker'.pc \in {"exited", "flush", "compact", "idle"}
    BY <1>1, <1>2 DEF WorkerPicks, WorkerType
  <2>3. worker.ok
    BY <2>1 DEF ErrorFree
  <2> QED
    BY <2>1, <2>2, <2>3, CarriesKeeps, Zenon DEF Carries, Compacting
<1>3. CASE WorkerFinishes
  <2>1. /\ proc = "up" /\ UNCHANGED <<proc, man, closing, closed, stop>>
        /\ bgErr' => bgErr \/ ~worker.ok
    BY <1>3, Zenon DEF WorkerFinishes, WorkerFrame, closeVars, LockFree
  <2>2. worker'.ok = TRUE /\ worker'.pc = "idle"
    BY <1>3, Zenon DEF WorkerFinishes, IdleWorker
  <2> QED
    BY <2>1, <2>2 DEF ErrorFree, Compacting
<1> QED
  BY <1>2, <1>3

\* Writing, renaming and syncing a table succeed; the temporary file is still there when
\* it is renamed.
LEMMA TableErrorFree ==
  ASSUME Faults = {}, IInv, ErrorFree, NEW from, NEW to, NEW done, <<from, to, done>> \in TableSteps,
         \/ from \in {"fbuild", "cbuild"} /\ BuildTable(from, to, done)
         \/ from \in {"frename", "crename"} /\ RenameTable(from, to, done)
         \/ from \in {"fsync", "csync"} /\ SyncTable(from, to, done)
  PROVE  ErrorFree'
<1>1. worker \in WorkerType /\ disk.dir \in Dir
  BY Zenon DEF IInv, TypeOK, WorkerType
<1>2. proc = "up" /\ UNCHANGED <<proc, man, bgErr, closing, closed, stop>> /\ worker.pc = from
  BY DEF BuildTable, RenameTable, SyncTable, WorkerFrame, closeVars, errors
<1>3. worker' = [worker EXCEPT !.pc = to]
  <2>1. CASE from \in {"frename", "crename"} /\ RenameTable(from, to, done)
    <3>1. worker.num \in disk.dir.tmp
      BY <1>2, <2>1, Zenon DEF ErrorFree
    <3>2. PICK ok \in May("rename") :
            ok /\ worker.num \in disk.dir.tmp => worker' = [worker EXCEPT !.pc = to]
      BY <2>1, Zenon DEF RenameTable
    <3>3. ok
      BY NothingFails
    <3> QED
      BY <3>1, <3>2, <3>3
  <2>2. CASE BuildTable(from, to, done)
    <3>1. PICK ok \in May("build") : ok => worker' = [worker EXCEPT !.pc = to]
      BY <2>2, Zenon DEF BuildTable
    <3>2. ok
      BY NothingFails
    <3> QED
      BY <3>1, <3>2
  <2>3. CASE SyncTable(from, to, done)
    <3>1. PICK ok \in May("syncdir") : ok => worker' = [worker EXCEPT !.pc = to]
      BY <2>3, Zenon DEF SyncTable
    <3>2. ok
      BY NothingFails
    <3> QED
      BY <3>1, <3>2
  <2> QED
    BY <2>1, <2>2, <2>3
<1>4. worker'.ok = worker.ok /\ worker'.pc = to /\ worker'.num = worker.num
  BY <1>1, <1>3 DEF WorkerType
<1>5. /\ to \in {"crename", "csync", "ccommit"} => from \in {"cbuild", "crename", "csync"}
      /\ to \in {"frename", "crename"} => from \in {"fbuild", "cbuild"}
      /\ from \in {"fbuild", "cbuild", "frename", "crename", "fsync", "csync"} /\ to # "cbuild"
  BY DEF TableSteps
<1>6. worker'.pc \in {"frename", "crename"} => worker'.num \in disk'.dir.tmp
  <2> SUFFICES ASSUME to \in {"frename", "crename"} PROVE worker'.num \in disk'.dir.tmp
    BY <1>4
  <2>1. BuildTable(from, to, done)
    BY <1>5
  <2>2. disk' = WrittenTemp(disk, worker.num)
    BY <2>1, Zenon DEF BuildTable
  <2> DEFINE d == [disk.dir EXCEPT !.tmp = @ \cup {worker.num}]
  <2>3. d.tmp = disk.dir.tmp \cup {worker.num}
    BY <1>1 DEF Dir
  <2>4. disk'.dir = d
    BY <2>2 DEF WrittenTemp, FileSync, SyncDir, Touch
  <2> HIDE DEF d
  <2> QED
    BY <1>4, <2>3, <2>4
<1>7. worker.ok
  BY <1>2, <1>5, Zenon DEF ErrorFree
<1> QED
  BY <1>2, <1>4, <1>5, <1>6, <1>7, CarriesKeeps, Zenon DEF Carries, Compacting

\* A flush finds its MemTable, and what it publishes is accepted.
LEMMA FlushErrorFree ==
  ASSUME Faults = {}, IInv, RInv, WorkerOutputAccepted, ErrorFree,
         FlushSelects \/ FlushCommits \/ FlushRemovesWal
  PROVE  ErrorFree'
<1>1. proc = "up" /\ UNCHANGED <<bgErr, closing, closed, stop>>
  BY DEF FlushSelects, FlushCommits, FlushRemovesWal, WorkerFrame, closeVars, errors, LockFree
<1>2. CASE FlushSelects
  <2>1. imm # {}
    BY <1>2 DEF FlushSelects, IInv, WorkerShape
  <2>2. man.imm # 0 /\ Numbered(man) /\ man \in Manifest
    BY <1>1, <2>1, OpenHandle, Zenon
  <2>3. ~(man.active < 2)
    BY <2>2 DEF Numbered, Manifest, FileNum
  <2> DEFINE build == [IdleWorker EXCEPT !.pc = "fbuild", !.num = man.active - 1,
                                         !.base = man.imm, !.data = imm]
  <2>4. build.ok = TRUE /\ build.pc = "fbuild"
    BY DEF IdleWorker
  <2>5. worker' = build /\ UNCHANGED <<proc, man>>
    BY <1>2, <2>2, <2>3, Zenon DEF FlushSelects
  <2> HIDE DEF build
  <2> QED
    BY <1>1, <2>4, <2>5, CarriesKeeps DEF Carries, Compacting
<1>3. CASE FlushCommits
  <2>1. worker.pc = "fcommit"
    BY <1>3 DEF FlushCommits
  <2>2. FlushStateUnchanged /\ ValidateSnapshot(FlushedManifest)
    BY <1>1, <2>1 DEF WorkerOutputAccepted
  <2> DEFINE next == [IdleWorker EXCEPT !.pc = "fremove", !.base = worker.base]
  <2>3. PICK o \in PublishOutcomes(FlushedManifest) :
          /\ proc' = Survive(o)
          /\ IF o = "durable" THEN man' = FlushedManifest /\ worker' = next
             ELSE WorkerFails("fdone")
    BY <1>3, <2>2, Zenon DEF FlushCommits
  <2>4. o \in {"durable", "crash"}
    BY <2>2, NothingFails
  <2>5. next.ok = TRUE /\ next.pc = "fremove"
    BY DEF IdleWorker
  <2> HIDE DEF next
  <2>6. CASE o = "durable"
    <3>1. proc' = "up" /\ man' = FlushedManifest /\ worker' = next
      BY <2>3, <2>6 DEF Survive
    <3>2. FlushedManifest.next = man.next
      BY DEF FlushedManifest, IInv, TypeOK, Manifest
    <3> QED
      BY <1>1, <2>5, <3>1, <3>2 DEF ErrorFree, Compacting
  <2>7. CASE o = "crash"
    <3>1. proc' = "dying" /\ WorkerFails("fdone")
      BY <2>3, <2>7 DEF Survive
    <3>2. worker'.pc = "fdone"
      BY <3>1 DEF WorkerFails, IdleWorker
    <3> QED
      BY <1>1, <3>1, <3>2 DEF ErrorFree
  <2> QED
    BY <2>4, <2>6, <2>7
<1>4. CASE FlushRemovesWal
  <2> DEFINE done == [IdleWorker EXCEPT !.pc = "fdone"]
  <2>1. worker' = done /\ UNCHANGED <<proc, man>>
    BY <1>4 DEF FlushRemovesWal
  <2>2. done.ok = TRUE /\ done.pc = "fdone"
    BY DEF IdleWorker
  <2> HIDE DEF done
  <2> QED
    BY <1>1, <2>1, <2>2, CarriesKeeps DEF Carries, Compacting
<1> QED
  BY <1>2, <1>3, <1>4

\* A compaction of the worker fails only when there is no number for its output.
LEMMA CompactionErrorFree ==
  ASSUME Faults = {}, IInv, RInv, WorkerOutputAccepted, ErrorFree,
         CompactSelects \/ CompactKeepsNothing \/ CompactCommits
  PROVE  ErrorFree'
<1>1. proc = "up" /\ UNCHANGED <<bgErr, closing, closed, stop>>
  BY Zenon DEF CompactSelects, CompactKeepsNothing, CompactCommits, WorkerFrame, closeVars, errors,
         LockFree
<1>2. CASE CompactSelects
  <2> DEFINE done == [IdleWorker EXCEPT !.pc = "cdone"]
             build(sel) == [IdleWorker EXCEPT !.pc = "cbuild", !.num = man.next, !.sel = sel,
                              !.data = TableData(sel), !.all = (Len(man.tables) = Trigger)]
  <2>1. done.ok = TRUE /\ done.pc = "cdone" /\ \A sel : build(sel).ok = TRUE /\ build(sel).pc = "cbuild"
    BY DEF IdleWorker
  <2>2. \/ worker' = done /\ UNCHANGED <<proc, man>>
        \/ \E o \in ReserveOutcomes :
             /\ proc' = Survive(o)
             /\ IF o = "durable" THEN \E sel : worker' = build(sel)
                ELSE WorkerFails("cdone") /\ UNCHANGED man
    BY <1>2, Zenon DEF CompactSelects
  <2> HIDE DEF done, build
  <2>3. CASE worker' = done /\ UNCHANGED <<proc, man>>
    BY <1>1, <2>1, <2>3, CarriesKeeps DEF Carries, Compacting
  <2>4. ASSUME NEW o \in ReserveOutcomes, proc' = Survive(o),
               IF o = "durable" THEN \E sel : worker' = build(sel)
               ELSE WorkerFails("cdone") /\ UNCHANGED man
        PROVE  ErrorFree'
    <3>1. ~termErr /\ Numbered(man) /\ man \in Manifest
      BY <1>1, OpenHandle, Zenon
    <3>2. CASE bgErr \/ man.next = MaxFile
      <4>1. o = "not_published" /\ man.next = MaxFile
        BY <1>1, <2>4, <3>2, Zenon DEF ReserveOutcomes, CheckOpen, ErrorFree
      <4>2. WorkerFails("cdone") /\ UNCHANGED man
        BY <2>4, <4>1
      <4>3. worker'.pc = "cdone"
        BY <4>2 DEF WorkerFails, IdleWorker
      <4> QED
        BY <1>1, <2>4, <4>1, <4>2, <4>3, Zenon DEF ErrorFree, Compacting, Survive
    <3>3. CASE ~bgErr /\ man.next # MaxFile
      <4>1. ValidateSnapshot(ReservedManifest)
        BY <3>1, ReservedGood, Zenon DEF Numbered
      <4>2. o \in PublishOutcomes(ReservedManifest)
        BY <3>1, <3>3, <2>4, Zenon DEF ReserveOutcomes, CheckOpen, ErrorFree
      <4>3. o \in {"durable", "crash"}
        BY <4>1, <4>2, NothingFails
      <4>4. CASE o = "durable"
        <5>1. worker'.ok = TRUE /\ worker'.pc = "cbuild"
          BY <2>1, <2>4, <4>4
        <5> QED
          BY <1>1, <3>3, <5>1 DEF ErrorFree
      <4>5. CASE o = "crash"
        <5>1. proc' = "dying" /\ WorkerFails("cdone")
          BY <2>4, <4>5 DEF Survive
        <5>2. worker'.pc = "cdone"
          BY <5>1 DEF WorkerFails, IdleWorker
        <5> QED
          BY <1>1, <5>1, <5>2 DEF ErrorFree
      <4> QED
        BY <4>3, <4>4, <4>5
    <3> QED
      BY <3>2, <3>3
  <2> QED
    BY <2>2, <2>3, <2>4
<1>3. CASE CompactKeepsNothing
  <2>1. worker.pc = "cbuild" /\ UNCHANGED <<proc, man>> /\ worker \in WorkerType
    BY <1>3 DEF CompactKeepsNothing, IInv, TypeOK, WorkerType
  <2>2. worker'.pc = "ccommit" /\ worker'.ok = worker.ok
    BY <1>3, <2>1 DEF CompactKeepsNothing, WorkerType
  <2>3. worker.ok
    BY <2>1 DEF ErrorFree
  <2> QED
    BY <1>1, <2>1, <2>2, <2>3, CarriesKeeps DEF Carries, Compacting
<1>4. CASE CompactCommits
  <2> DEFINE m == CompactedManifest(man, worker.sel, worker.num, worker.kept)
             done(o) == [IdleWorker EXCEPT !.pc = "cdone", !.ok = (o = "durable")]
  <2>1. worker.pc = "ccommit"
    BY <1>4, Zenon DEF CompactCommits
  <2>2. IsTablePrefix(worker.sel, man) /\ ValidateSnapshot(m)
    BY <1>1, <2>1, Zenon DEF WorkerOutputAccepted
  <2>3. PICK o \in PublishOutcomes(m) : proc' = Survive(o) /\ worker' = done(o)
    BY <1>4, <2>2, Zenon DEF CompactCommits, CommitCompaction
  <2> HIDE DEF m
  <2>4. o \in {"durable", "crash"}
    BY <2>2, NothingFails
  <2>5. worker'.pc = "cdone" /\ worker'.ok = (o = "durable")
    BY <2>3 DEF IdleWorker
  <2>6. ~bgErr
    BY <1>1, <2>1 DEF ErrorFree, Compacting
  <2> QED
    BY <1>1, <2>3, <2>4, <2>5, <2>6, Zenon DEF ErrorFree, Survive, Compacting
<1> QED
  BY <1>2, <1>3, <1>4

=============================================================================
