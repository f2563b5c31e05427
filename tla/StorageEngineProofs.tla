------------------------- MODULE StorageEngineProofs ------------------------
EXTENDS EngineLemmas

(***************************************************************************)
(* Every step of StorageEngine keeps IInv, one lemma per locked section or *)
(* file-system step, and the theorems that follow for every value of the   *)
(* constants: any limit on sequence and file numbers, any set of faults,   *)
(* any compaction trigger and any number of threads in Close().            *)
(***************************************************************************)

----------------------------------------------------------------------------
(* Cleanup, and the outcomes of a publication.                             *)

\* What recovery takes for the last sequence is the manifest's floor or one that
\* it found in a WAL.
LEMMA MaxFromType ==
  ASSUME NEW f \in SeqNum \cup {0}, NEW S \in SUBSET SeqNum
  PROVE  MaxFrom(f, S) \in SeqNum \cup {0}
<1> DEFINE T == {f} \cup S
<1>1. T \in SUBSET (0 .. MaxSeq) /\ T # {} /\ T \subseteq SeqNum \cup {0}
  BY EngineAssumption DEF SeqNum
<1>2. Max(T) \in T
  <2> HIDE DEF T
  <2> QED
    BY <1>1, MaxInSet, EngineAssumption
<1> QED
  BY <1>1, <1>2 DEF MaxFrom

\* Only removals that were asked for can fail.
LEMMA FailuresType ==
  ASSUME NEW R, NEW F \in Failures(R)
  PROVE  F \subseteq R
BY DEF Failures

\* Removing a list of paths keeps the MANIFEST and remembers paths only.
LEMMA RemovalsOK ==
  ASSUME NEW k, DiskOK(k), NEW R \in SUBSET Path, NEW r \in Removals(k, R)
  PROVE  DiskOK(r.disk) /\ r.disk.dir.man = k.dir.man /\ r.failed \subseteq Path
<1>1. PICK failed \in Failures(R), sync \in May("cleanup_sync") :
        r = [disk |-> RemoveAll(k, R \ failed, sync), failed |-> failed]
  BY DEF Removals
<1>2. sync \in BOOLEAN /\ failed \subseteq R
  BY MayType, FailuresType
<1>3. r.disk = RemoveAll(k, R \ failed, sync) /\ r.failed = failed
  BY <1>1
<1> QED
  BY <1>2, <1>3, RemoveAllOK

\* What a directory listing makes obsolete are paths of canonical files.
LEMMA ObsoleteType ==
  ASSUME NEW d \in Dir, NEW m
  PROVE  Obsolete(d, m) \subseteq Path
BY DEF Obsolete, Path, Dir

\* Cleanup only removes files, and remembers nothing but paths.
LEMMA CleanupOK ==
  ASSUME NEW k, DiskOK(k), NEW P \in SUBSET Path, NEW m,
         NEW c \in CleanupObsoleteFiles(k, P, m)
  PROVE  DiskOK(c.disk) /\ c.disk.dir.man = k.dir.man /\ c.failed \subseteq Path
<1> DEFINE rest(F, listed) == IF listed THEN Obsolete(k.dir, m) \ (P \ F) ELSE {}
           gone(F) == P \ F
           res(F, listed, again, sync) ==
             [disk |-> RemoveAll(k, gone(F) \cup (rest(F, listed) \ again), sync),
              failed |-> F \cup again]
           one(F, listed) ==
             {res(F, listed, again, sync) :
                again \in Failures(rest(F, listed)), sync \in May("cleanup_sync")}
<1>1. PICK F \in Failures(P), listed \in May("list") : c \in one(F, listed)
  <2>1. CleanupObsoleteFiles(k, P, m)
          = UNION {one(F, listed) : F \in Failures(P), listed \in May("list")}
    BY DEF CleanupObsoleteFiles
  <2> HIDE DEF one
  <2> QED
    BY <2>1
<1>2. PICK again \in Failures(rest(F, listed)), sync \in May("cleanup_sync") :
        c = res(F, listed, again, sync)
  <2> HIDE DEF rest, gone, res
  <2> QED
    BY <1>1
<1>3. Obsolete(k.dir, m) \subseteq Path
  BY ObsoleteType DEF DiskOK
<1>4. sync \in BOOLEAN /\ F \subseteq P /\ again \subseteq rest(F, listed)
  <2> HIDE DEF rest
  <2> QED
    BY MayType, FailuresType
<1>5. F \cup again \subseteq Path
  BY <1>3, <1>4
<1>6. /\ c.disk = RemoveAll(k, gone(F) \cup (rest(F, listed) \ again), sync)
      /\ c.failed = F \cup again
  <2> HIDE DEF rest, gone
  <2> QED
    BY <1>2
<1> HIDE DEF rest, gone
<1> QED
  BY <1>4, <1>5, <1>6, RemoveAllOK

\* A publication ends in one of its three outcomes or in a crash.
LEMMA OutcomesType ==
  ASSUME NEW m
  PROVE  PublishOutcomes(m) \subseteq {"durable", "not_published", "visible", "crash"}
BY DEF PublishOutcomes

----------------------------------------------------------------------------
(* Writers.                                                                *)

\* With two file numbers left, a rotation stays below the limit of file numbers.
LEMMA RotatedManifestType ==
  ASSUME TypeOK, man.next < MaxFile - 1
  PROVE  RotatedManifest \in Manifest /\ man.next + 1 \in FileNum
<1>1. man \in Manifest /\ man.next \in FileNum /\ man.active \in FileNum
  BY DEF TypeOK, Manifest
<1>2. man.next + 1 \in FileNum /\ man.next + 2 \in FileNum
  BY <1>1, EngineAssumption DEF FileNum
<1> QED
  BY <1>1, <1>2, Zenon DEF RotatedManifest, Manifest

\* What a rotation may change, and what it keeps.
RotateEffect ==
  /\ DiskOK(disk') /\ man' \in Manifest
  /\ wal' \in [FileNum -> SUBSET SeqNum] /\ synced' \in [FileNum -> SUBSET SeqNum]
  /\ mem' \in SUBSET SeqNum /\ imm' \in SUBSET SeqNum
  /\ flushReq' \in BOOLEAN /\ termErr' \in BOOLEAN /\ proc' \in {"up", "dying"}
  /\ HandleMatchesDisk'

\* A rotation keeps the types and, unless it is left visible but not durable or
\* interrupted, the agreement of the handle with the MANIFEST.
LEMMA RotateOK ==
  ASSUME TypeOK, HandleMatchesDisk, proc = "up", ~termErr,
         NEW o \in RotateOutcomes,
         NEW k, DiskOK(k), k.dir.man = disk.dir.man,
         NEW w \in [FileNum -> SUBSET SeqNum], NEW y \in [FileNum -> SUBSET SeqNum],
         NEW full \in SUBSET SeqNum, NEW fresh \in SUBSET SeqNum,
         RotateMemTable(o, k, w, y, full, fresh)
  PROVE  RotateEffect
<1> DEFINE n == man.next + 1
<1>1. man \in Manifest /\ man = disk.dir.man /\ flushReq \in BOOLEAN /\ imm \in SUBSET SeqNum
  BY DEF TypeOK, HandleMatchesDisk
<1>2. CASE o = "refused"
  BY <1>1, <1>2 DEF RotateMemTable, RotateEffect, HandleMatchesDisk, Survive, Terminal
<1>3. CASE o # "refused"
  <2>1. o \in {"durable", "not_published", "visible", "crash"} /\ man.next < MaxFile - 1
    <3>1. man.next \in FileNum
      BY <1>1 DEF Manifest
    <3> QED
      BY <3>1, <1>3, OutcomesType, EngineAssumption DEF RotateOutcomes, FileNum
  <2>2. RotatedManifest \in Manifest /\ n \in FileNum
    BY <2>1, RotatedManifestType
  <2> HIDE DEF n
  <2>3. DiskOK(CreatedWal(k, n)) /\ CreatedWal(k, n).dir.man = man
    BY <1>1, <2>2, CreatedWalOK
  <2>4. disk' = Publish(CreatedWal(k, n), RotatedManifest, o)
    BY <1>3 DEF RotateMemTable, n
  <2>5. /\ DiskOK(disk')
        /\ disk'.dir.man = IF o = "not_published" THEN man ELSE RotatedManifest
    <3> DEFINE c == CreatedWal(k, n)
    <3> HIDE DEF c
    <3>1. DiskOK(c) /\ c.dir.man = man /\ disk' = Publish(c, RotatedManifest, o)
      BY <2>3, <2>4 DEF c
    <3>2. /\ DiskOK(Publish(c, RotatedManifest, o))
          /\ Publish(c, RotatedManifest, o).dir.man
               = IF o = "not_published" THEN c.dir.man ELSE RotatedManifest
      BY <2>1, <2>2, <3>1, PublishOK, ZenonT(30)
    <3> QED
      BY <3>1, <3>2
  <2>6. man' = IF o = "durable" THEN RotatedManifest ELSE man
    BY DEF RotateMemTable
  <2>7. termErr' = (o = "visible") /\ proc' = IF o = "crash" THEN "dying" ELSE "up"
    BY <1>3 DEF RotateMemTable, Terminal, Survive
  <2>8. HandleMatchesDisk'
    BY <2>1, <2>5, <2>6, <2>7, Zenon DEF HandleMatchesDisk
  <2>9. wal' \in [FileNum -> SUBSET SeqNum] /\ synced' \in [FileNum -> SUBSET SeqNum]
    BY <1>3, <2>2 DEF RotateMemTable, n
  <2>10. mem' \in SUBSET SeqNum /\ imm' \in SUBSET SeqNum /\ flushReq' \in BOOLEAN
    BY <1>1 DEF RotateMemTable
  <2> QED
    BY <1>1, <2>2, <2>5, <2>6, <2>7, <2>8, <2>9, <2>10 DEF RotateEffect
<1> QED
  BY <1>2, <1>3

\* What a write or a rotation may change, and the types it keeps.
WriteEffect ==
  /\ RotateEffect
  /\ nextSeq' \in SeqNum /\ acked' \in SUBSET SeqNum
  /\ worker.pc = "flush" => imm' # {}

\* ApplyWriteGroup on a memtable with room, with the rotation that may follow.
LEMMA ApplyThenRotateOK ==
  ASSUME IInv, proc = "up", ~termErr, ApplyThenRotate
  PROVE  WriteEffect
<1> DEFINE w == Appended(wal, man.active, nextSeq)
           y == IF SyncOnWrite THEN Appended(synced, man.active, nextSeq) ELSE synced
           k == IF SyncOnWrite THEN FileSync(disk) ELSE disk
           m == mem \cup {nextSeq}
<1>1. TypeOK /\ WorkerShape /\ HandleMatchesDisk
  BY DEF IInv
<1>2. /\ DiskOK(disk) /\ man \in Manifest /\ man.active \in FileNum
      /\ wal \in [FileNum -> SUBSET SeqNum] /\ synced \in [FileNum -> SUBSET SeqNum]
      /\ mem \in SUBSET SeqNum /\ imm \in SUBSET SeqNum /\ nextSeq \in SeqNum
      /\ acked \in SUBSET SeqNum /\ flushReq \in BOOLEAN /\ termErr \in BOOLEAN
  BY <1>1 DEF TypeOK, DiskOK, Manifest
<1>3. DiskOK(k) /\ k.dir.man = disk.dir.man
  BY <1>2, FileSyncOK
<1>4. w \in [FileNum -> SUBSET SeqNum] /\ y \in [FileNum -> SUBSET SeqNum]
  BY <1>2, AppendedType
<1>5. m \in SUBSET SeqNum
  BY <1>2
<1>6. nextSeq' \in SeqNum
  BY <1>2, EngineAssumption DEF ApplyThenRotate, SeqNum
<1>7. /\ Full(m) /\ imm = {} =>
           \E o \in RotateOutcomes :
             /\ RotateMemTable(o, k, w, y, m, {})
             /\ acked' = IF o = "durable" THEN acked \cup {nextSeq} ELSE acked
      /\ ~(Full(m) /\ imm = {}) =>
           /\ disk' = k /\ wal' = w /\ synced' = y /\ mem' = m
           /\ acked' = acked \cup {nextSeq}
           /\ UNCHANGED <<man, imm, flushReq, termErr, proc>>
  BY DEF ApplyThenRotate
<1> HIDE DEF w, y, k, m
<1>8. CASE Full(m) /\ imm = {}
  <2>1. PICK o \in RotateOutcomes :
          /\ RotateMemTable(o, k, w, y, m, {})
          /\ acked' = IF o = "durable" THEN acked \cup {nextSeq} ELSE acked
    BY <1>7, <1>8
  <2>2. worker.pc # "flush"
    BY <1>1, <1>8 DEF WorkerShape
  <2>3. acked' \in SUBSET SeqNum
    BY <1>2, <2>1
  <2> QED
    <3>1. {} \in SUBSET SeqNum
      OBVIOUS
    <3>2. RotateEffect
      BY <1>1, <1>3, <1>4, <1>5, <2>1, <3>1, RotateOK
    <3> QED
      BY <1>6, <2>2, <2>3, <3>2 DEF WriteEffect
<1>9. CASE ~(Full(m) /\ imm = {})
  BY <1>1, <1>2, <1>3, <1>4, <1>5, <1>6, <1>7, <1>9
  DEF WriteEffect, RotateEffect, HandleMatchesDisk, WorkerShape
<1> QED
  BY <1>8, <1>9

\* PrepareForWrite that rotates, and the write into the fresh memtable.
LEMMA RotateThenApplyOK ==
  ASSUME IInv, proc = "up", ~termErr, RotateThenApply
  PROVE  WriteEffect
<1> DEFINE fresh == IF nextSeq < MaxSeq THEN {nextSeq} ELSE {}
<1>1. TypeOK /\ WorkerShape /\ HandleMatchesDisk
  BY DEF IInv
<1>2. /\ DiskOK(disk) /\ man \in Manifest
      /\ wal \in [FileNum -> SUBSET SeqNum] /\ synced \in [FileNum -> SUBSET SeqNum]
      /\ mem \in SUBSET SeqNum /\ nextSeq \in SeqNum /\ acked \in SUBSET SeqNum
  BY <1>1 DEF TypeOK, DiskOK
<1>3. fresh \in SUBSET SeqNum
  BY <1>2
<1>4. nextSeq + Cardinality(fresh) \in SeqNum
  <2>1. CASE nextSeq < MaxSeq
    <3>1. fresh = {nextSeq} /\ Cardinality({nextSeq}) = 1
      BY <2>1, FS_Singleton
    <3> QED
      BY <3>1, <2>1, <1>2, EngineAssumption DEF SeqNum
  <2>2. CASE ~(nextSeq < MaxSeq)
    <3>1. fresh = {} /\ Cardinality({}) = 0
      BY <2>2, FS_EmptySet
    <3> QED
      BY <3>1, <1>2 DEF SeqNum
  <2> QED
    BY <2>1, <2>2
<1>5. PICK o \in RotateOutcomes :
        /\ RotateMemTable(o, disk, wal, synced, mem, fresh)
        /\ nextSeq' = IF o = "durable" THEN nextSeq + Cardinality(fresh) ELSE nextSeq
        /\ acked' = IF o = "durable" THEN acked \cup fresh ELSE acked
  BY DEF RotateThenApply
<1>6. worker.pc # "flush"
  BY <1>1 DEF WorkerShape, RotateThenApply
<1> HIDE DEF fresh
<1>7. nextSeq' \in SeqNum /\ acked' \in SUBSET SeqNum
  BY <1>2, <1>3, <1>4, <1>5
<1> QED
  BY <1>1, <1>2, <1>3, <1>5, <1>6, <1>7, RotateOK DEF WriteEffect

\* The frame of a write carries the rest of the invariant over.
LEMMA WriteEffectKeeps ==
  ASSUME IInv, WriteEffect, WriteFrame, writer' \in {"idle", "stalled", "spinning"}
  PROVE  IInv'
<1>1. TypeOK /\ WorkerShape
  BY DEF IInv
<1>2. TypeOK'
  BY <1>1, SMTT(30) DEF TypeOK, WriteEffect, RotateEffect, WriteFrame, closeVars, DiskOK
<1>3. WorkerShape'
  BY <1>1 DEF WorkerShape, WriteEffect, WriteFrame
<1> QED
  BY <1>2, <1>3 DEF IInv, WriteEffect, RotateEffect

\* ApplyWriteGroup keeps the inductive invariant.
LEMMA WriteKeeps ==
  ASSUME IInv, Write
  PROVE  IInv'
<1>1. proc = "up" /\ ~termErr /\ WriteFrame /\ writer' = writer
  BY DEF Write, LockFree, CheckOpen
<1>2. WriteEffect
  BY <1>1, ApplyThenRotateOK, RotateThenApplyOK, SMTT(30) DEF Write
<1> QED
  BY <1>1, <1>2, WriteEffectKeeps DEF IInv, TypeOK

\* A leader that waits or spins in PrepareForWrite keeps it.
LEMMA StallKeeps ==
  ASSUME IInv, WriteStalls \/ StalledSpins
  PROVE  IInv'
BY SMTT(30) DEF IInv, TypeOK, WorkerShape, HandleMatchesDisk, WriteStalls, StalledSpins, files,
       handle, errors, flags, closeVars, history

\* A leader that leaves the wait of PrepareForWrite keeps it.
LEMMA StalledResumesKeeps ==
  ASSUME IInv, StalledResumes
  PROVE  IInv'
<1>1. CASE CheckOpen
  <2>1. proc = "up" /\ ~termErr /\ WriteFrame /\ writer' = "idle" /\ RotateThenApply
    BY <1>1, SMTT(30) DEF StalledResumes, LockFree, CheckOpen
  <2> QED
    BY <2>1, RotateThenApplyOK, WriteEffectKeeps
<1>2. CASE ~CheckOpen
  <2>1. /\ UNCHANGED <<disk, wal, synced, man, mem, imm, nextSeq, pending, termErr, bgErr,
                         flushReq, compReq, proc, worker, compactor, acked, crashes>>
        /\ UNCHANGED <<closer, stopping, closing, closed, stop>> /\ writer' = "idle"
    BY <1>2, Zenon DEF StalledResumes, WriteFrame, files, closeVars
  <2>2. TypeOK'
    <3>1. TypeOK
      BY DEF IInv
    <3>2. /\ disk' \in [dir : Dir, hist : SUBSET Dir] /\ disk'.dir \in disk'.hist
          /\ wal' \in [FileNum -> SUBSET SeqNum] /\ synced' \in [FileNum -> SUBSET SeqNum]
          /\ man' \in Manifest
      BY <2>1, <3>1, SMTT(30) DEF TypeOK
    <3>3. /\ proc' \in {"up", "dying", "down", "failed"} /\ pending' \subseteq Path
          /\ mem' \subseteq SeqNum /\ imm' \subseteq SeqNum /\ nextSeq' \in SeqNum
          /\ termErr' \in BOOLEAN /\ bgErr' \in BOOLEAN
          /\ flushReq' \in BOOLEAN /\ compReq' \in BOOLEAN
          /\ writer' \in {"idle", "stalled", "spinning"}
      BY <2>1, <3>1, SMTT(30) DEF TypeOK
    <3>4. /\ worker' \in [pc : WorkerPCs, num : FileNum \cup {0}, base : FileNum \cup {0},
                          sel : Seq(Table), data : SUBSET SeqNum, all : BOOLEAN,
                          kept : BOOLEAN, ok : BOOLEAN]
          /\ compactor' \in [pc : {"idle", "wait", "gap"}, count : Nat]
          /\ closer' \in [Closers -> CloserPCs]
      BY <2>1, <3>1, SMTT(30) DEF TypeOK
    <3>5. /\ stopping' \in BOOLEAN /\ closing' \in BOOLEAN /\ closed' \in BOOLEAN
          /\ stop' \in BOOLEAN /\ acked' \subseteq SeqNum /\ crashes' \in 0 .. MaxCrashes
      BY <2>1, <3>1, SMTT(30) DEF TypeOK
    <3> QED
      BY <3>2, <3>3, <3>4, <3>5, Zenon DEF TypeOK
  <2>3. WorkerShape' /\ HandleMatchesDisk'
    BY <2>1 DEF IInv, WorkerShape, HandleMatchesDisk
  <2> QED
    BY <2>2, <2>3 DEF IInv
<1> QED
  BY <1>1, <1>2

----------------------------------------------------------------------------
(* The worker's steps.                                                     *)

\* What a step of the worker may change, and what it keeps.
WorkerEffect ==
  /\ DiskOK(disk') /\ man' \in Manifest /\ imm' \in SUBSET SeqNum
  /\ pending' \in SUBSET Path
  /\ termErr' \in BOOLEAN /\ bgErr' \in BOOLEAN
  /\ flushReq' \in BOOLEAN /\ compReq' \in BOOLEAN
  /\ proc' \in {"up", "dying"}
  /\ worker' \in WorkerType /\ WorkerShape' /\ HandleMatchesDisk'

\* A step with the effect of a worker step keeps the inductive invariant.
LEMMA WorkerEffectKeeps ==
  ASSUME IInv, WorkerEffect, WorkerFrame, UNCHANGED <<wal, synced>>
  PROVE  IInv'
<1>1. TypeOK'
  BY DEF IInv, TypeOK, WorkerEffect, WorkerFrame, WorkerType, closeVars, history, DiskOK
<1> QED
  BY <1>1 DEF IInv, WorkerEffect

\* The worker states built from the idle one have the type of the worker.
LEMMA IdleWorkerType ==
  ASSUME NEW pc \in WorkerPCs, NEW ok \in BOOLEAN
  PROVE  /\ IdleWorker \in WorkerType
         /\ [IdleWorker EXCEPT !.pc = pc] \in WorkerType
         /\ [IdleWorker EXCEPT !.pc = pc].pc = pc
         /\ [IdleWorker EXCEPT !.pc = pc, !.ok = ok] \in WorkerType
         /\ [IdleWorker EXCEPT !.pc = pc, !.ok = ok].pc = pc
<1>1. <<>> \in Seq(Table)
  OBVIOUS
<1> QED
  BY <1>1, Zenon DEF IdleWorker, WorkerType, WorkerPCs

\* A failed step leaves the worker with nothing selected.
LEMMA WorkerFailsOK ==
  ASSUME NEW pc \in {"fdone", "cdone"}, WorkerFails(pc)
  PROVE  worker' \in WorkerType /\ WorkerShape'
<1>1. pc \in WorkerPCs
  BY DEF WorkerPCs
<1>2. worker' \in WorkerType /\ worker'.pc = pc
  BY <1>1, IdleWorkerType, Zenon DEF WorkerFails
<1> QED
  BY <1>2 DEF WorkerShape

\* The choice of the next task in BackgroundWorkLoop keeps the invariant: a flush
\* is picked only when there is an immutable memtable.
LEMMA WorkerPicksKeeps ==
  ASSUME IInv, WorkerPicks
  PROVE  IInv'
<1>1. worker' \in WorkerType /\ (worker'.pc = "flush" => imm # {})
      /\ worker'.pc \in {"exited", "flush", "compact", "idle"}
  BY WorkerStart DEF WorkerPicks, WorkerType, WorkerPCs, PicksFlush
<1>2. WorkerShape'
  BY <1>1 DEF WorkerShape, WorkerPicks
<1>3. WorkerEffect
  BY <1>1, <1>2, WorkerStart
  DEF WorkerPicks, WorkerEffect, files, errors, LockFree, HandleMatchesDisk
<1> QED
  BY <1>3, WorkerEffectKeeps DEF WorkerPicks, files

\* The first locked section of FlushImmutableMemTable keeps it.
LEMMA FlushSelectsKeeps ==
  ASSUME IInv, FlushSelects
  PROVE  IInv'
<1>1. CASE man.imm = 0 \/ man.active < 2
  <2>1. WorkerFails("fdone") /\ UNCHANGED <<disk, pending>>
    BY <1>1 DEF FlushSelects
  <2>2. WorkerEffect
    BY <2>1, WorkerStart, WorkerFailsOK
    DEF FlushSelects, WorkerEffect, errors, flags, LockFree, HandleMatchesDisk
  <2> QED
    BY <2>2, WorkerEffectKeeps DEF FlushSelects
<1>2. CASE ~(man.imm = 0 \/ man.active < 2)
  <2>1. PICK c \in CleanupObsoleteFiles(disk, pending, man) :
          disk' = c.disk /\ pending' = c.failed
    BY <1>2 DEF FlushSelects
  <2>2. DiskOK(disk') /\ disk'.dir.man = disk.dir.man /\ pending' \in SUBSET Path
    BY <2>1, WorkerStart, CleanupOK
  <2>3. worker' = [IdleWorker EXCEPT !.pc = "fbuild", !.num = man.active - 1,
                                     !.base = man.imm, !.data = imm]
    BY <1>2 DEF FlushSelects
  <2>4. man.active - 1 \in FileNum /\ man.imm \in FileNum /\ imm # {}
    BY <1>2, WorkerStart, EngineAssumption DEF Manifest, FileNum, WorkerShape, FlushSelects
  <2>5. worker' \in WorkerType /\ WorkerShape'
    <3>1. <<>> \in Seq(Table)
      OBVIOUS
    <3> QED
      BY <2>3, <2>4, <3>1, WorkerStart, Zenon DEF IdleWorker, WorkerType, WorkerPCs, WorkerShape
  <2>6. WorkerEffect
    BY <2>2, <2>5, WorkerStart
    DEF FlushSelects, WorkerEffect, errors, flags, LockFree, HandleMatchesDisk
  <2> QED
    BY <2>6, WorkerEffectKeeps DEF FlushSelects
<1> QED
  BY <1>1, <1>2

\* The worker goes on with what it carries, or fails.
LEMMA TableStepOK ==
  ASSUME IInv, NEW from, NEW to, NEW done, <<from, to, done>> \in TableSteps,
         worker.pc = from, imm' = imm,
         worker' = [worker EXCEPT !.pc = to] \/ WorkerFails(done)
  PROVE  worker' \in WorkerType /\ WorkerShape'
<1>1. CASE WorkerFails(done)
  <2>1. done \in {"fdone", "cdone"}
    BY DEF TableSteps
  <2> QED
    BY <1>1, <2>1, WorkerFailsOK
<1>2. CASE worker' = [worker EXCEPT !.pc = to]
  <2>1. worker \in WorkerType /\ WorkerShape
    BY WorkerStart
  <2>2. to \in WorkerPCs
    BY DEF TableSteps, WorkerPCs
  <2>3. /\ worker' \in WorkerType /\ worker'.pc = to
        /\ worker'.num = worker.num /\ worker'.base = worker.base
        /\ worker'.data = worker.data
    BY <1>2, <2>1, <2>2 DEF WorkerType
  <2>4. \/ /\ from \in {"fbuild", "frename", "fsync"}
           /\ to \in {"frename", "fsync", "fcommit"}
        \/ /\ from \in {"cbuild", "crename", "csync"}
           /\ to \in {"crename", "csync", "ccommit"}
    BY DEF TableSteps
  <2>5. WorkerShape'
    BY <2>1, <2>3, <2>4 DEF WorkerShape
  <2> QED
    BY <2>3, <2>5
<1> QED
  BY <1>1, <1>2

\* Building the temporary table file keeps it.
LEMMA BuildTableKeeps ==
  ASSUME IInv, NEW from \in {"fbuild", "cbuild"}, NEW to, NEW done,
         <<from, to, done>> \in TableSteps, BuildTable(from, to, done)
  PROVE  IInv'
<1>1. worker.num \in FileNum
  BY TableInMaking DEF BuildTable
<1>2. DiskOK(disk') /\ disk'.dir.man = disk.dir.man
  BY <1>1, WorkerStart, WrittenTempOK DEF BuildTable
<1>3. worker' \in WorkerType /\ WorkerShape'
  BY TableStepOK DEF BuildTable
<1>4. WorkerEffect
  BY <1>2, <1>3, WorkerStart
  DEF BuildTable, WorkerEffect, errors, flags, HandleMatchesDisk
<1> QED
  BY <1>4, WorkerEffectKeeps DEF BuildTable

\* Renaming the table keeps it.
LEMMA RenameTableKeeps ==
  ASSUME IInv, NEW from \in {"frename", "crename"}, NEW to, NEW done,
         <<from, to, done>> \in TableSteps, RenameTable(from, to, done)
  PROVE  IInv'
<1>1. worker.num \in FileNum /\ worker.data \in SUBSET SeqNum
  BY TableInMaking DEF RenameTable
<1>2. /\ disk' = disk \/ disk' = Renamed(disk, worker.num, worker.data)
      /\ worker' = [worker EXCEPT !.pc = to] \/ WorkerFails(done)
  BY DEF RenameTable
<1>3. DiskOK(disk') /\ disk'.dir.man = disk.dir.man
  BY <1>1, <1>2, WorkerStart, RenamedOK
<1>4. worker' \in WorkerType /\ WorkerShape'
  BY <1>2, TableStepOK DEF RenameTable
<1>5. WorkerEffect
  BY <1>3, <1>4, WorkerStart
  DEF RenameTable, WorkerEffect, errors, flags, HandleMatchesDisk
<1> QED
  BY <1>5, WorkerEffectKeeps DEF RenameTable

\* Syncing the directory of the table keeps it.
LEMMA SyncTableKeeps ==
  ASSUME IInv, NEW from \in {"fsync", "csync"}, NEW to, NEW done,
         <<from, to, done>> \in TableSteps, SyncTable(from, to, done)
  PROVE  IInv'
<1>1. /\ disk' = disk \/ disk' = SyncDir(disk)
      /\ worker' = [worker EXCEPT !.pc = to] \/ WorkerFails(done)
  BY DEF SyncTable
<1>2. DiskOK(disk') /\ disk'.dir.man = disk.dir.man
  BY <1>1, WorkerStart, SyncDirOK
<1>3. worker' \in WorkerType /\ WorkerShape'
  BY <1>1, TableStepOK DEF SyncTable
<1>4. WorkerEffect
  BY <1>2, <1>3, WorkerStart
  DEF SyncTable, WorkerEffect, errors, flags, HandleMatchesDisk
<1> QED
  BY <1>4, WorkerEffectKeeps DEF SyncTable

\* A publication that the handle adopts only when it is durable.
LEMMA PublishKeepsAgreement ==
  ASSUME HandleMatchesDisk, proc = "up", termErr \in BOOLEAN, man \in Manifest,
         NEW k, DiskOK(k), k.dir.man = disk.dir.man, NEW m,
         NEW o \in {"durable", "not_published", "visible", "crash"},
         o # "not_published" => m \in Manifest,
         disk'.dir.man = Publish(k, m, o).dir.man,
         man' = IF o = "durable" THEN m ELSE man,
         termErr' = (termErr \/ Terminal(o)), proc' = Survive(o)
  PROVE  /\ HandleMatchesDisk' /\ man' \in Manifest
         /\ termErr' \in BOOLEAN /\ proc' \in {"up", "dying"}
         /\ DiskOK(Publish(k, m, o))
<1>1. CASE o = "not_published"
  <2>1. Publish(k, m, o) = k
    BY <1>1, NotPublishedKeeps
  <2> QED
    BY <1>1, <2>1 DEF HandleMatchesDisk, Terminal, Survive
<1>2. CASE o # "not_published"
  <2>1. DiskOK(Publish(k, m, o)) /\ Publish(k, m, o).dir.man = m
    BY <1>2, PublishOK, ZenonT(30)
  <2> QED
    BY <1>2, <2>1, Zenon DEF HandleMatchesDisk, Terminal, Survive
<1> QED
  BY <1>1, <1>2

\* The second locked section of FlushImmutableMemTable keeps it.
LEMMA FlushCommitsKeeps ==
  ASSUME IInv, FlushCommits
  PROVE  IInv'
<1> DEFINE rm == [IdleWorker EXCEPT !.pc = "fremove", !.base = worker.base]
<1>1. PICK o \in IF FlushStateUnchanged THEN PublishOutcomes(FlushedManifest)
                 ELSE {"not_published"} :
        /\ disk' = Publish(disk, FlushedManifest, o)
        /\ termErr' = (termErr \/ Terminal(o)) /\ proc' = Survive(o)
        /\ IF o = "durable"
           THEN /\ man' = FlushedManifest /\ imm' = {}
                /\ compReq' = (compReq \/ NeedsBackgroundCompaction(FlushedManifest))
                /\ worker' = rm
           ELSE WorkerFails("fdone") /\ UNCHANGED <<man, imm, compReq>>
  BY DEF FlushCommits
<1>2. o \in {"durable", "not_published", "visible", "crash"}
  BY OutcomesType
<1>3. worker.num \in FileNum /\ worker.data \in SUBSET SeqNum /\ worker.data # {}
      /\ worker.base \in FileNum
  BY WorkerStart, TableInMaking DEF FlushCommits, WorkerShape
<1>4. FlushedManifest \in Manifest
  BY <1>3, WorkerStart, FlushedManifestType
<1>5. proc = "up"
  BY DEF FlushCommits, LockFree
<1>6. man' = IF o = "durable" THEN FlushedManifest ELSE man
  BY <1>1
<1>7. /\ HandleMatchesDisk' /\ man' \in Manifest /\ DiskOK(disk')
      /\ termErr' \in BOOLEAN /\ proc' \in {"up", "dying"}
  BY <1>1, <1>2, <1>4, <1>5, <1>6, WorkerStart, PublishKeepsAgreement
<1>8. worker' \in WorkerType /\ WorkerShape'
  <2>1. CASE o = "durable"
    <3>1. <<>> \in Seq(Table)
      OBVIOUS
    <3>2. rm \in WorkerType /\ rm.pc = "fremove" /\ rm.base = worker.base
      BY <1>3, <3>1, Zenon DEF IdleWorker, WorkerType, WorkerPCs
    <3>3. worker' = rm
      BY <1>1, <2>1
    <3> HIDE DEF rm
    <3> QED
      BY <1>3, <3>2, <3>3 DEF WorkerShape
  <2>2. CASE o # "durable"
    BY <1>1, <2>2, WorkerFailsOK
  <2> QED
    BY <2>1, <2>2
<1>9. imm' \in SUBSET SeqNum /\ compReq' \in BOOLEAN
  BY <1>1, WorkerStart, Zenon DEF NeedsBackgroundCompaction
<1>10. WorkerEffect
  BY <1>7, <1>8, <1>9, WorkerStart DEF FlushCommits, WorkerEffect
<1> QED
  BY <1>10, WorkerEffectKeeps DEF FlushCommits

\* Removing the flushed WAL keeps it.
LEMMA FlushRemovesWalKeeps ==
  ASSUME IInv, FlushRemovesWal
  PROVE  IInv'
<1>1. PICK r \in Removals(disk, {<<"wal", worker.base>>}) :
        disk' = r.disk /\ pending' = pending \cup r.failed
  BY DEF FlushRemovesWal
<1>2. {<<"wal", worker.base>>} \in SUBSET Path
  BY WorkerStart DEF FlushRemovesWal, WorkerShape, Path
<1>3. DiskOK(disk') /\ disk'.dir.man = disk.dir.man /\ pending' \in SUBSET Path
  BY <1>1, <1>2, WorkerStart, RemovalsOK
<1>4. worker' \in WorkerType /\ worker'.pc = "fdone"
  BY IdleWorkerType, Zenon DEF FlushRemovesWal, WorkerPCs
<1>5. WorkerEffect
  BY <1>3, <1>4, WorkerStart
  DEF FlushRemovesWal, WorkerEffect, WorkerShape, errors, flags, HandleMatchesDisk
<1> QED
  BY <1>5, WorkerEffectKeeps DEF FlushRemovesWal

\* The selection of a background compaction, with the reservation of its number,
\* keeps it.
LEMMA CompactSelectsKeeps ==
  ASSUME IInv, CompactSelects
  PROVE  IInv'
<1> USE DEF CompactSelects
<1>1. CASE CheckOpen /\ Len(man.tables) < Trigger
  <2>1. worker' \in WorkerType /\ worker'.pc = "cdone"
    BY <1>1, IdleWorkerType, Zenon DEF WorkerPCs
  <2>2. WorkerEffect
    BY <1>1, <2>1, WorkerStart
    DEF WorkerEffect, WorkerShape, flags, HandleMatchesDisk, LockFree
  <2> QED
    BY <2>2, WorkerEffectKeeps
<1>2. CASE ~(CheckOpen /\ Len(man.tables) < Trigger)
  <2> DEFINE sel == SubSeq(man.tables, 1, Trigger)
             build == [IdleWorker EXCEPT !.pc = "cbuild", !.num = man.next,
                         !.sel = sel, !.data = TableData(sel),
                         !.all = (Len(man.tables) = Trigger)]
  <2>1. PICK o \in ReserveOutcomes :
          /\ disk' = Publish(disk, ReservedManifest, o)
          /\ termErr' = (termErr \/ Terminal(o)) /\ proc' = Survive(o)
          /\ IF o = "durable" THEN man' = ReservedManifest /\ worker' = build
             ELSE WorkerFails("cdone") /\ UNCHANGED man
    BY <1>2
  <2> HIDE DEF sel, build
  <2>2. /\ o \in {"durable", "not_published", "visible", "crash"}
        /\ o # "not_published" => CheckOpen /\ man.next # MaxFile
    BY OutcomesType DEF ReserveOutcomes
  <2>3. o # "not_published" => ReservedManifest \in Manifest /\ man.next < MaxFile
    BY <2>2, WorkerStart, ReservedManifestType
  <2>4. man' = IF o = "durable" THEN ReservedManifest ELSE man
    BY <2>1
  <2>5. /\ HandleMatchesDisk' /\ man' \in Manifest /\ DiskOK(disk')
        /\ termErr' \in BOOLEAN /\ proc' \in {"up", "dying"}
    BY <2>1, <2>2, <2>3, <2>4, WorkerStart, PublishKeepsAgreement, Zenon DEF LockFree
  <2>6. worker' \in WorkerType /\ WorkerShape'
    <3>1. CASE o = "durable"
      <4>1. man.tables \in Seq(Table) /\ man.next \in FileNum
        BY WorkerStart DEF Manifest
      <4>2. Trigger \in Nat /\ Trigger <= Len(man.tables) /\ man.next < MaxFile
        BY <1>2, <2>2, <2>3, <3>1, <4>1, EngineAssumption, SMTT(30)
      <4>3. sel \in Seq(Table)
        BY <4>1, <4>2, PrefixType DEF sel
      <4>4. TableData(sel) \in SUBSET SeqNum
        BY <4>3, TableDataType
      <4>5. build \in WorkerType /\ build.pc = "cbuild" /\ build.num = man.next
        BY <4>1, <4>3, <4>4, Zenon DEF build, IdleWorker, WorkerType, WorkerPCs
      <4> QED
        BY <2>1, <3>1, <4>1, <4>2, <4>5 DEF WorkerShape
    <3>2. CASE o # "durable"
      BY <2>1, <3>2, WorkerFailsOK
    <3> QED
      BY <3>1, <3>2
  <2>7. WorkerEffect
    BY <2>5, <2>6, WorkerStart DEF WorkerEffect, flags
  <2> QED
    BY <2>7, WorkerEffectKeeps
<1> QED
  BY <1>1, <1>2

\* A compaction without output keeps it.
LEMMA CompactKeepsNothingKeeps ==
  ASSUME IInv, CompactKeepsNothing
  PROVE  IInv'
<1>1. worker' \in WorkerType /\ worker'.pc = "ccommit" /\ worker'.num = worker.num
  BY WorkerStart, Zenon DEF CompactKeepsNothing, WorkerType, WorkerPCs
<1>2. WorkerShape'
  BY <1>1, WorkerStart DEF CompactKeepsNothing, WorkerShape
<1>3. WorkerEffect
  BY <1>1, <1>2, WorkerStart
  DEF CompactKeepsNothing, WorkerEffect, errors, flags, files, HandleMatchesDisk
<1> QED
  BY <1>3, WorkerEffectKeeps DEF CompactKeepsNothing, files

\* What the commit of a compaction, background or explicit, keeps.
CommitEffect ==
  /\ HandleMatchesDisk' /\ man' \in Manifest /\ DiskOK(disk')
  /\ termErr' \in BOOLEAN /\ proc' \in {"up", "dying"} /\ pending' \in SUBSET Path

\* The publication of a compaction and the removal of its inputs.
LEMMA CommitCompactionOK ==
  ASSUME HandleMatchesDisk, proc = "up", termErr \in BOOLEAN, man \in Manifest,
         NEW k, DiskOK(k), k.dir.man = disk.dir.man,
         NEW P \in SUBSET Path, NEW m, NEW sel \in Seq(Table),
         NEW o \in {"durable", "not_published", "visible", "crash"},
         o # "not_published" => m \in Manifest,
         CommitCompaction(o, k, P, m, sel)
  PROVE  CommitEffect
<1> USE DEF CommitCompaction
<1>1. /\ termErr' = (termErr \/ Terminal(o)) /\ proc' = Survive(o)
      /\ man' = IF o = "durable" THEN m ELSE man
  OBVIOUS
<1>2. CASE o = "durable"
  <2>1. PICK r \in Removals(Publish(k, m, o), ObsoletePaths(sel)) :
          disk' = r.disk /\ pending' = P \cup r.failed
    BY <1>2
  <2>2. ObsoletePaths(sel) \in SUBSET Path
    BY TableNumsType DEF ObsoletePaths, Path
  <2>3. DiskOK(Publish(k, m, o))
    BY <1>2, PublishOK
  <2>4. DiskOK(disk') /\ disk'.dir.man = Publish(k, m, o).dir.man
        /\ pending' \in SUBSET Path
    BY <2>1, <2>2, <2>3, RemovalsOK, Zenon
  <2> QED
    BY <1>1, <2>4, PublishKeepsAgreement, Zenon DEF CommitEffect
<1>3. CASE o # "durable"
  <2>1. disk' = Publish(k, m, o) /\ pending' = P
    BY <1>3, Zenon
  <2> QED
    BY <1>1, <2>1, PublishKeepsAgreement, Zenon DEF CommitEffect
<1> QED
  BY <1>2, <1>3

\* The commit of a background compaction keeps the invariant.
LEMMA CompactCommitsKeeps ==
  ASSUME IInv, CompactCommits
  PROVE  IInv'
<1> DEFINE m == CompactedManifest(man, worker.sel, worker.num, worker.kept)
<1>1. PICK o \in IF IsTablePrefix(worker.sel, man) THEN PublishOutcomes(m)
                 ELSE {"not_published"} :
        /\ CommitCompaction(o, disk, pending, m, worker.sel)
        /\ worker' = [IdleWorker EXCEPT !.pc = "cdone", !.ok = (o = "durable")]
  BY Zenon DEF CompactCommits
<1>2. worker \in WorkerType /\ worker.num \in FileNum /\ worker.num < MaxFile
      /\ worker.sel \in Seq(Table) /\ worker.kept \in BOOLEAN
  BY WorkerStart DEF CompactCommits, WorkerShape, WorkerType
<1>3. o # "not_published" => m \in Manifest
  BY <1>2, WorkerStart, CompactedManifestType DEF IsTablePrefix
<1> HIDE DEF m
<1>4. o \in {"durable", "not_published", "visible", "crash"}
  BY OutcomesType
<1>5. CommitEffect
  <2>1. proc = "up"
    BY DEF CompactCommits, LockFree
  <2>2. /\ HandleMatchesDisk /\ termErr \in BOOLEAN /\ man \in Manifest /\ DiskOK(disk)
        /\ pending \in SUBSET Path
    BY WorkerStart
  <2>3. CommitCompaction(o, disk, pending, m, worker.sel)
    BY <1>1
  <2> QED
    BY <1>2, <1>3, <1>4, <2>1, <2>2, <2>3, CommitCompactionOK, SMTT(30)
<1>6. worker' \in WorkerType /\ worker'.pc = "cdone"
  BY <1>1, IdleWorkerType, Zenon DEF WorkerPCs
<1>7. WorkerEffect
  BY <1>5, <1>6, WorkerStart
  DEF CompactCommits, CommitEffect, WorkerEffect, WorkerShape, flags
<1> QED
  BY <1>7, WorkerEffectKeeps DEF CompactCommits

\* Recording the outcome of a task keeps it.
LEMMA WorkerFinishesKeeps ==
  ASSUME IInv, WorkerFinishes
  PROVE  IInv'
<1>1. worker' \in WorkerType /\ worker'.pc = "idle"
  BY IdleWorkerType, Zenon DEF WorkerFinishes, WorkerPCs, IdleWorker
<1>2. bgErr' \in BOOLEAN /\ compReq' \in BOOLEAN
  BY WorkerStart DEF WorkerFinishes, NeedsBackgroundCompaction, WorkerType
<1>3. WorkerEffect
  BY <1>1, <1>2, WorkerStart
  DEF WorkerFinishes, WorkerEffect, WorkerShape, files, HandleMatchesDisk, LockFree
<1> QED
  BY <1>3, WorkerEffectKeeps DEF WorkerFinishes, files

\* Every step of BackgroundWorkLoop keeps it.
LEMMA WorkerKeeps ==
  ASSUME IInv, Worker
  PROVE  IInv'
BY WorkerPicksKeeps, WorkerFinishesKeeps, FlushSelectsKeeps, BuildTableKeeps,
   RenameTableKeeps, SyncTableKeeps, FlushCommitsKeeps, FlushRemovesWalKeeps,
   CompactSelectsKeeps, CompactKeepsNothingKeeps, CompactCommitsKeeps, SMTT(30)
DEF Worker, TableSteps

----------------------------------------------------------------------------
(* Explicit compaction.                                                    *)

\* What a step of Compact() may change, and what it keeps.
LEMMA CompactEffectKeeps ==
  ASSUME IInv, CompactFrame,
         DiskOK(disk'), man' \in Manifest, pending' \in SUBSET Path,
         termErr' \in BOOLEAN, proc' \in {"up", "dying"}, HandleMatchesDisk',
         compactor' \in [pc : {"idle", "wait", "gap"}, count : Nat]
  PROVE  IInv'
<1>1. TypeOK'
  BY DEF IInv, TypeOK, CompactFrame, flags, closeVars, history, DiskOK
<1>2. WorkerShape'
  BY Zenon DEF IInv, WorkerShape, CompactFrame
<1> QED
  BY <1>1, <1>2 DEF IInv

\* Compact() waiting for the background work and counting the tables keeps it.
LEMMA CompactWaitsKeeps ==
  ASSUME IInv, CompactCalled \/ CompactCounts
  PROVE  IInv'
<1>1. compactor' \in [pc : {"idle", "wait", "gap"}, count : Nat]
  <2>1. Len(man.tables) \in Nat
    BY WorkerStart DEF Manifest
  <2> QED
    BY <2>1 DEF IInv, TypeOK, CompactCalled, CompactCounts, IdleCompactor
<1>2. UNCHANGED <<proc, disk, man, pending, termErr>> /\ CompactFrame /\ proc = "up"
  BY DEF CompactCalled, CompactCounts, LockFree
<1>3. HandleMatchesDisk'
  BY <1>2, WorkerStart DEF HandleMatchesDisk
<1> QED
  BY <1>1, <1>2, <1>3, WorkerStart, CompactEffectKeeps

\* The explicit CompactTablePrefix keeps it, whichever of its steps fails.
LEMMA CompactRunsKeeps ==
  ASSUME IInv, CompactRuns
  PROVE  IInv'
<1>1. /\ HandleMatchesDisk /\ termErr \in BOOLEAN /\ man \in Manifest /\ DiskOK(disk)
      /\ pending \in SUBSET Path /\ man.next \in FileNum /\ man.tables \in Seq(Table)
  BY WorkerStart DEF Manifest
<1>2. proc = "up" /\ CompactFrame /\ compactor' = IdleCompactor
  BY DEF CompactRuns, LockFree
<1>3. compactor' \in [pc : {"idle", "wait", "gap"}, count : Nat]
  BY <1>2 DEF IdleCompactor
<1>4. CommitEffect
  <2>1. CASE ~CheckOpen \/ compactor.count = 0 \/ Len(man.tables) < compactor.count
    <3>1. UNCHANGED <<proc, disk, man, pending, termErr>>
      BY <2>1, Zenon DEF CompactRuns
    <3> QED
      BY <1>1, <1>2, <3>1 DEF CommitEffect, HandleMatchesDisk
  <2>2. CASE ~(~CheckOpen \/ compactor.count = 0 \/ Len(man.tables) < compactor.count)
    <3>1. PICK c \in CleanupObsoleteFiles(disk, pending, man) :
            LET n    == man.next
                sel  == SubSeq(man.tables, 1, compactor.count)
                tmp  == WrittenTemp(c.disk, n)
                sst  == Renamed(tmp, n, TableData(sel))
                fail(k) == /\ disk' = k /\ pending' = c.failed
                           /\ UNCHANGED <<proc, man, termErr>>
            IN \/ n = MaxFile /\ fail(c.disk)
               \/ n < MaxFile /\ Faults \cap {"build", "rename"} # {} /\ fail(tmp)
               \/ n < MaxFile /\ "syncdir" \in Faults /\ fail(sst)
               \/ /\ n < MaxFile
                  /\ \E kept \in IF compactor.count = Len(man.tables) THEN BOOLEAN
                                 ELSE {TRUE} :
                       LET m == CompactedManifest(man, sel, n, kept)
                       IN \E o \in PublishOutcomes(m) :
                            CommitCompaction(o, IF kept THEN SyncDir(sst) ELSE c.disk,
                                             c.failed, m, sel)
      BY <2>2, Zenon DEF CompactRuns
    <3> DEFINE n    == man.next
               sel  == SubSeq(man.tables, 1, compactor.count)
               tmp  == WrittenTemp(c.disk, n)
               sst  == Renamed(tmp, n, TableData(sel))
    <3>2. DiskOK(c.disk) /\ c.disk.dir.man = disk.dir.man /\ c.failed \in SUBSET Path
      BY <1>1, CleanupOK, Zenon
    <3>3. compactor.count \in Nat /\ compactor.count <= Len(man.tables)
      BY <1>1, <2>2 DEF IInv, TypeOK
    <3>4. sel \in Seq(Table) /\ Len(sel) = compactor.count
      <4>1. Len(man.tables) \in Nat
        BY <1>1
      <4>2. 1 \in 1 .. Len(man.tables) + 1 /\ compactor.count \in 0 .. Len(man.tables)
        BY <3>3, <4>1
      <4> QED
        BY <1>1, <3>3, <4>1, <4>2, SMTT(30)
    <3> HIDE DEF sel
    <3>5. TableData(sel) \in SUBSET SeqNum
      BY <3>4, TableDataType
    <3>6. DiskOK(tmp) /\ tmp.dir.man = disk.dir.man
      BY <1>1, <3>2, WrittenTempOK
    <3> HIDE DEF tmp
    <3>7. DiskOK(sst) /\ sst.dir.man = disk.dir.man
      BY <1>1, <3>5, <3>6, RenamedOK
    <3> HIDE DEF sst
    <3>8. DiskOK(SyncDir(sst)) /\ SyncDir(sst).dir.man = disk.dir.man
      BY <3>7, SyncDirOK
    <3>9. ASSUME disk' \in {c.disk, tmp, sst}, pending' = c.failed,
                 UNCHANGED <<proc, man, termErr>>
          PROVE  CommitEffect
      <4>1. DiskOK(disk') /\ disk'.dir.man = disk.dir.man
        BY <3>2, <3>6, <3>7, <3>9, Zenon
      <4>2. proc' = proc /\ man' = man /\ termErr' = termErr
        BY <3>9
      <4>3. HandleMatchesDisk'
        BY <1>1, <4>1, <4>2, Zenon DEF HandleMatchesDisk
      <4>4. proc' \in {"up", "dying"} /\ pending' \in SUBSET Path
        BY <1>2, <3>2, <3>9, <4>2, Zenon
      <4> QED
        BY <1>1, <4>1, <4>2, <4>3, <4>4, Zenon DEF CommitEffect
    <3>10. ASSUME n < MaxFile, NEW kept \in BOOLEAN,
                  NEW o \in PublishOutcomes(CompactedManifest(man, sel, n, kept)),
                  CommitCompaction(o, IF kept THEN SyncDir(sst) ELSE c.disk, c.failed,
                                   CompactedManifest(man, sel, n, kept), sel)
           PROVE  CommitEffect
      <4> DEFINE m == CompactedManifest(man, sel, n, kept)
                 k == IF kept THEN SyncDir(sst) ELSE c.disk
      <4>1. m \in Manifest
        BY <1>1, <3>3, <3>4, <3>10, CompactedManifestType
      <4>2. DiskOK(k) /\ k.dir.man = disk.dir.man
        BY <3>2, <3>8, Zenon
      <4>3. o \in {"durable", "not_published", "visible", "crash"}
        BY OutcomesType
      <4>4. CommitCompaction(o, k, c.failed, m, sel)
        BY <3>10
      <4> HIDE DEF m, k
      <4> QED
        BY <1>1, <1>2, <3>2, <3>4, <4>1, <4>2, <4>3, <4>4, CommitCompactionOK, ZenonT(30)
    <3>11. \/ disk' \in {c.disk, tmp, sst} /\ pending' = c.failed
              /\ UNCHANGED <<proc, man, termErr>>
           \/ /\ n < MaxFile
              /\ \E kept \in BOOLEAN :
                   \E o \in PublishOutcomes(CompactedManifest(man, sel, n, kept)) :
                     CommitCompaction(o, IF kept THEN SyncDir(sst) ELSE c.disk, c.failed,
                                      CompactedManifest(man, sel, n, kept), sel)
      BY <3>1, Zenon DEF sel, tmp, sst
    <3> QED
      BY <3>9, <3>10, <3>11
  <2> QED
    BY <2>1, <2>2
<1> QED
  BY <1>2, <1>3, <1>4, CompactEffectKeeps DEF CommitEffect

----------------------------------------------------------------------------
(* Close().                                                                *)

\* A thread in Close() is at one of its program points.
LEMMA AtType ==
  ASSUME closer \in [Closers -> CloserPCs], NEW c \in Closers, NEW pc \in CloserPCs,
         At(c, pc)
  PROVE  closer' \in [Closers -> CloserPCs]
BY DEF At

\* The part of Close() that its turns may change besides a rotation.
CloseTypes ==
  /\ closer' \in [Closers -> CloserPCs]
  /\ stopping' \in BOOLEAN /\ closing' \in BOOLEAN /\ stop' \in BOOLEAN
  /\ bgErr' \in BOOLEAN

\* The end of the loop of Close().
LEMMA CloseFinishesOK ==
  ASSUME IInv, NEW c \in Closers, CloseFinishes(c), bgErr' \in BOOLEAN
  PROVE  CloseTypes
<1>1. /\ closer \in [Closers -> CloserPCs]
      /\ stopping \in BOOLEAN /\ closing \in BOOLEAN /\ stop \in BOOLEAN
  BY DEF IInv, TypeOK
<1>2. "join" \in CloserPCs /\ "resume" \in CloserPCs
  BY DEF CloserPCs
<1> QED
  BY <1>1, <1>2, AtType, Zenon DEF CloseFinishes, CloseTypes

\* A turn either rotates or leaves files and manifest alone.
LEMMA CloseTurnOK ==
  ASSUME IInv, NEW c \in Closers, proc = "up", CloseTurn(c)
  PROVE  RotateEffect /\ CloseTypes /\ (worker.pc = "flush" => imm' # {})
<1>1. TypeOK /\ WorkerShape /\ HandleMatchesDisk
  BY DEF IInv
<1>2. /\ DiskOK(disk) /\ man \in Manifest
      /\ wal \in [FileNum -> SUBSET SeqNum] /\ synced \in [FileNum -> SUBSET SeqNum]
      /\ mem \in SUBSET SeqNum /\ imm \in SUBSET SeqNum
      /\ termErr \in BOOLEAN /\ bgErr \in BOOLEAN /\ flushReq \in BOOLEAN
      /\ closer \in [Closers -> CloserPCs]
      /\ stopping \in BOOLEAN /\ closing \in BOOLEAN /\ stop \in BOOLEAN
  BY <1>1 DEF TypeOK, DiskOK
<1>3. ASSUME NEW pc \in CloserPCs, At(c, pc), closing' = TRUE,
             UNCHANGED <<stopping, stop>>, bgErr' \in BOOLEAN
      PROVE  CloseTypes
  BY <1>2, <1>3, AtType DEF CloseTypes
<1>4. "wait_compaction" \in CloserPCs /\ "wait_flush" \in CloserPCs
  BY DEF CloserPCs
<1>5. ASSUME UNCHANGED <<files, man, mem, imm, errors, proc>>, flushReq' \in BOOLEAN
      PROVE  RotateEffect /\ (worker.pc = "flush" => imm' # {}) /\ bgErr' \in BOOLEAN
  BY <1>1, <1>2, <1>5 DEF RotateEffect, HandleMatchesDisk, WorkerShape, files, errors
<1>6. CASE /\ At(c, "wait_compaction") /\ closing' = TRUE /\ UNCHANGED <<stopping, stop>>
           /\ UNCHANGED <<files, man, mem, imm, errors, flushReq, proc>>
  <2>1. flushReq' \in BOOLEAN /\ UNCHANGED <<files, man, mem, imm, errors, proc>>
    BY <1>2, <1>6
  <2> QED
    BY <1>3, <1>4, <1>5, <1>6, <2>1
<1>7. CASE /\ At(c, "wait_flush") /\ closing' = TRUE /\ UNCHANGED <<stopping, stop>>
           /\ flushReq' = TRUE /\ UNCHANGED <<files, man, mem, imm, errors, proc>>
  BY <1>3, <1>4, <1>5, <1>7
<1>8. CASE /\ ~(termErr \/ bgErr) /\ imm = {}
           /\ \E o \in RotateOutcomes :
                /\ RotateMemTable(o, disk, wal, synced, mem, {})
                /\ bgErr' = (o \notin {"durable", "crash"})
                /\ IF o = "durable"
                   THEN /\ At(c, "wait_flush") /\ closing' = TRUE
                        /\ UNCHANGED <<stopping, stop>>
                   ELSE CloseFinishes(c)
  <2>1. PICK o \in RotateOutcomes :
          /\ RotateMemTable(o, disk, wal, synced, mem, {})
          /\ bgErr' = (o \notin {"durable", "crash"})
          /\ IF o = "durable"
             THEN At(c, "wait_flush") /\ closing' = TRUE /\ UNCHANGED <<stopping, stop>>
             ELSE CloseFinishes(c)
    BY <1>8
  <2>2. bgErr' \in BOOLEAN
    BY <2>1
  <2>3. CloseTypes
    BY <1>3, <1>4, <2>1, <2>2, CloseFinishesOK, Zenon
  <2>4. {} \in SUBSET SeqNum
    OBVIOUS
  <2>5. RotateEffect
    BY <1>1, <1>2, <1>8, <2>1, <2>4, RotateOK
  <2>6. worker.pc # "flush"
    BY <1>1, <1>8, Zenon DEF WorkerShape
  <2> QED
    BY <2>3, <2>5, <2>6
<1>9. CASE CloseFinishes(c) /\ UNCHANGED <<files, man, mem, imm, errors, flushReq, proc>>
  <2>1. flushReq' \in BOOLEAN /\ UNCHANGED <<files, man, mem, imm, errors, proc>>
    BY <1>2, <1>9
  <2> QED
    BY <1>5, <1>9, <2>1, CloseFinishesOK
<1> QED
  BY <1>6, <1>7, <1>8, <1>9, Zenon DEF CloseTurn

\* The types of the variables, group by group.
FileTypes ==
  /\ DiskOK(disk) /\ wal \in [FileNum -> SUBSET SeqNum]
  /\ synced \in [FileNum -> SUBSET SeqNum] /\ proc \in {"up", "dying", "down", "failed"}

HandleTypes ==
  /\ man \in Manifest /\ mem \subseteq SeqNum /\ imm \subseteq SeqNum
  /\ nextSeq \in SeqNum /\ pending \subseteq Path

FlagTypes ==
  /\ termErr \in BOOLEAN /\ bgErr \in BOOLEAN /\ flushReq \in BOOLEAN /\ compReq \in BOOLEAN
  /\ stopping \in BOOLEAN /\ closing \in BOOLEAN /\ closed \in BOOLEAN /\ stop \in BOOLEAN

ThreadTypes ==
  /\ writer \in {"idle", "stalled", "spinning"} /\ worker \in WorkerType
  /\ compactor \in [pc : {"idle", "wait", "gap"}, count : Nat]
  /\ closer \in [Closers -> CloserPCs]
  /\ acked \subseteq SeqNum /\ crashes \in 0 .. MaxCrashes

\* Together they are the type invariant, before a step and after it.
LEMMA TypeGroups ==
  /\ TypeOK => FileTypes /\ HandleTypes /\ FlagTypes /\ ThreadTypes
  /\ FileTypes' /\ HandleTypes' /\ FlagTypes' /\ ThreadTypes' => TypeOK'
<1>1. TypeOK => FileTypes /\ HandleTypes /\ FlagTypes /\ ThreadTypes
  BY Zenon DEF TypeOK, FileTypes, HandleTypes, FlagTypes, ThreadTypes, DiskOK, WorkerType
<1>2. FileTypes' /\ HandleTypes' /\ FlagTypes' /\ ThreadTypes' => TypeOK'
  BY Zenon DEF TypeOK, FileTypes, HandleTypes, FlagTypes, ThreadTypes, DiskOK, WorkerType
<1> QED
  BY <1>1, <1>2

\* A step that only moves a thread in Close() and the flags it sets keeps the
\* inductive invariant.
LEMMA CloserMovesKeeps ==
  ASSUME IInv, closer' \in [Closers -> CloserPCs], stopping' \in BOOLEAN,
         closed' \in BOOLEAN,
         UNCHANGED <<files, handle, errors, flags, proc, writer, worker, compactor,
                     closing, stop, history>>
  PROVE  IInv'
<1>1. /\ disk' = disk /\ wal' = wal /\ synced' = synced /\ man' = man /\ mem' = mem
      /\ imm' = imm /\ nextSeq' = nextSeq /\ pending' = pending
  BY DEF files, handle
<1>2. /\ termErr' = termErr /\ bgErr' = bgErr /\ flushReq' = flushReq
      /\ compReq' = compReq /\ acked' = acked /\ crashes' = crashes
  BY DEF errors, flags, history
<1>3. /\ proc' = proc /\ writer' = writer /\ worker' = worker
      /\ compactor' = compactor /\ closing' = closing /\ stop' = stop
  OBVIOUS
<1>4. TypeOK'
  <2>1. FileTypes /\ HandleTypes /\ FlagTypes /\ ThreadTypes
    BY TypeGroups, Zenon DEF IInv
  <2>2. FileTypes'
    BY <1>1, <1>3, <2>1 DEF FileTypes
  <2>3. HandleTypes'
    BY <1>1, <2>1 DEF HandleTypes
  <2>4. FlagTypes'
    BY <1>2, <1>3, <2>1 DEF FlagTypes
  <2>5. ThreadTypes'
    BY <1>2, <1>3, <2>1 DEF ThreadTypes
  <2> QED
    BY <2>2, <2>3, <2>4, <2>5, TypeGroups, Zenon
<1>5. WorkerShape' /\ HandleMatchesDisk'
  BY <1>1, <1>2, <1>3, Zenon DEF IInv, WorkerShape, HandleMatchesDisk
<1> QED
  BY <1>4, <1>5, Zenon DEF IInv

\* A step with the effect of a turn of Close() keeps it.
LEMMA CloseEffectKeeps ==
  ASSUME IInv, RotateEffect, CloseTypes, worker.pc = "flush" => imm' # {},
         CloseFrame, compReq' \in BOOLEAN
  PROVE  IInv'
<1>1. TypeOK'
  <2>1. /\ nextSeq' = nextSeq /\ pending' = pending /\ writer' = writer
        /\ worker' = worker /\ compactor' = compactor /\ closed' = closed
        /\ acked' = acked /\ crashes' = crashes
    BY DEF CloseFrame, history
  <2>2. HandleTypes /\ FlagTypes /\ ThreadTypes
    BY TypeGroups, Zenon DEF IInv
  <2>3. FileTypes'
    BY Zenon DEF RotateEffect, FileTypes
  <2>4. HandleTypes'
    BY <2>1, <2>2 DEF RotateEffect, HandleTypes
  <2>5. FlagTypes'
    BY <2>1, <2>2, Zenon DEF RotateEffect, CloseTypes, FlagTypes
  <2>6. ThreadTypes'
    BY <2>1, <2>2 DEF CloseTypes, ThreadTypes
  <2> QED
    BY <2>3, <2>4, <2>5, <2>6, TypeGroups, Zenon
<1>2. WorkerShape'
  BY Zenon DEF IInv, WorkerShape, CloseFrame
<1> QED
  BY <1>1, <1>2 DEF IInv, RotateEffect

\* Close() taking the lock keeps it.
LEMMA CloseLocksKeeps ==
  ASSUME IInv, NEW c \in Closers, CloseLocks(c)
  PROVE  IInv'
<1>1. CASE closed
  <2>1. "idle" \in CloserPCs
    BY DEF CloserPCs
  <2>2. closer' \in [Closers -> CloserPCs]
    BY <1>1, <2>1, AtType DEF CloseLocks, IInv, TypeOK
  <2> QED
    <3>1. UNCHANGED <<files, man, mem, imm, errors, flags, proc, stopping, closing, stop>>
          /\ CloseFrame
      BY <1>1, Zenon DEF CloseLocks
    <3>2. UNCHANGED handle /\ closed' = closed /\ stopping' = stopping
      BY <3>1 DEF CloseFrame, handle
    <3>3. stopping' \in BOOLEAN /\ closed' \in BOOLEAN
      BY <3>2, Zenon DEF IInv, TypeOK
    <3> QED
      BY <2>2, <3>1, <3>2, <3>3, CloserMovesKeeps, Zenon DEF CloseFrame
<1>2. CASE ~closed
  <2>1. CloseTurn(c) /\ compReq' = FALSE /\ CloseFrame /\ proc = "up"
    BY <1>2 DEF CloseLocks, LockFree
  <2> QED
    BY <2>1, CloseTurnOK, CloseEffectKeeps, Zenon
<1> QED
  BY <1>1, <1>2

\* Every step of Close() keeps it.
LEMMA CloseKeeps ==
  ASSUME IInv, NEW c \in Closers, CloseCalled(c) \/ Close(c)
  PROVE  IInv'
<1>1. "idle" \in CloserPCs /\ "drain" \in CloserPCs
  BY DEF CloserPCs
<1>2. /\ closer \in [Closers -> CloserPCs] /\ stopping \in BOOLEAN
      /\ closed \in BOOLEAN /\ compReq \in BOOLEAN
  BY DEF IInv, TypeOK
<1>3. CASE CloseCalled(c)
  <2>1. closer' \in [Closers -> CloserPCs]
    BY <1>1, <1>2, <1>3, AtType DEF CloseCalled
  <2> QED
    <3>1. UNCHANGED <<files, man, mem, imm, errors, flags, proc, closing, stop>>
          /\ CloseFrame /\ stopping' \in BOOLEAN
      BY <1>3, Zenon DEF CloseCalled
    <3>2. UNCHANGED handle /\ closed' \in BOOLEAN
      BY <1>2, <3>1 DEF CloseFrame, handle
    <3> QED
      BY <2>1, <3>1, <3>2, CloserMovesKeeps, Zenon DEF CloseFrame
<1>4. CASE CloseWakes(c)
  <2>1. CloseTurn(c) /\ compReq' \in BOOLEAN /\ CloseFrame /\ proc = "up"
    BY <1>2, <1>4, SMTT(30) DEF CloseWakes, LockFree
  <2> QED
    BY <2>1, CloseTurnOK, CloseEffectKeeps
<1>5. CASE CloseJoins(c)
  <2>1. closer' \in [Closers -> CloserPCs]
    BY <1>1, <1>2, <1>5, AtType, SMTT(30) DEF CloseJoins
  <2> QED
    <3>1. stopping' \in BOOLEAN /\ closed' \in BOOLEAN
      BY <1>2, <1>5, Zenon DEF CloseJoins
    <3> QED
      BY <1>5, <2>1, <3>1, CloserMovesKeeps, Zenon DEF CloseJoins
<1>6. CASE CloseResumes(c)
  <2>1. closer' \in [Closers -> CloserPCs] /\ stopping' \in BOOLEAN
    BY <1>1, <1>2, <1>6, AtType DEF CloseResumes
  <2> QED
    <3>1. UNCHANGED <<files, man, mem, imm, errors, flags, proc, closing, stop>>
          /\ CloseFrame
      BY <1>6, Zenon DEF CloseResumes
    <3>2. UNCHANGED handle /\ closed' \in BOOLEAN
      BY <1>2, <3>1 DEF CloseFrame, handle
    <3> QED
      BY <2>1, <3>1, <3>2, CloserMovesKeeps, Zenon DEF CloseFrame
<1> QED
  BY <1>3, <1>4, <1>5, <1>6, CloseLocksKeeps DEF Close

----------------------------------------------------------------------------
(* Crashes, power losses and Open().                                       *)

\* The end of a handle keeps it.
LEMMA NoHandleKeeps ==
  ASSUME IInv, NoHandle, UNCHANGED <<files, acked>>, proc' = "down",
         crashes' \in 0 .. MaxCrashes
  PROVE  IInv'
<1>1. <<>> \in Seq(Table) /\ {} \in SUBSET SeqNum /\ 1 \in FileNum /\ 2 \in FileNum
  BY EngineAssumption DEF FileNum
<1>2. InitialManifest \in Manifest
  BY <1>1, Zenon DEF InitialManifest, Manifest
<1>3. "idle" \in WorkerPCs /\ "idle" \in CloserPCs
  BY DEF WorkerPCs, CloserPCs
<1>4. IdleWorker \in WorkerType /\ IdleWorker.pc = "idle"
  BY <1>3, IdleWorkerType, Zenon DEF IdleWorker
<1>5. 1 \in SeqNum
  BY EngineAssumption DEF SeqNum
<1>6. closer' \in [Closers -> CloserPCs]
  BY <1>3 DEF NoHandle
<1>7. compactor' \in [pc : {"idle", "wait", "gap"}, count : Nat]
  BY DEF NoHandle, IdleCompactor
<1>8. TypeOK'
  BY <1>2, <1>4, <1>5, <1>6, <1>7, Zenon DEF IInv, TypeOK, NoHandle, files, WorkerType
<1>9. WorkerShape' /\ HandleMatchesDisk'
  BY <1>4 DEF NoHandle, WorkerShape, HandleMatchesDisk
<1> QED
  BY <1>8, <1>9 DEF IInv

\* A crash or the destruction of a closed handle keeps it.
LEMMA CrashKeeps ==
  ASSUME IInv, Crash \/ Release
  PROVE  IInv'
<1>1. crashes \in 0 .. MaxCrashes
  BY DEF IInv, TypeOK
<1>2. crashes' \in 0 .. MaxCrashes
  BY <1>1, EngineAssumption DEF Crash, Release
<1> QED
  BY <1>2, NoHandleKeeps DEF Crash, Release

\* What a WAL holds after a power loss was written to it.
LEMMA SurvivesType ==
  ASSUME TypeOK, NEW n \in FileNum, NEW upTo
  PROVE  Survives(n, upTo) \in SUBSET SeqNum
BY DEF TypeOK, Survives, Prefix

\* A power loss keeps it.
LEMMA PowerLossKeeps ==
  ASSUME IInv, PowerLoss
  PROVE  IInv'
<1>1. PICK d \in disk.hist, ci \in WalCuts, ca \in WalCuts :
        /\ disk' = [dir |-> d, hist |-> {d}]
        /\ wal' = [n \in FileNum |-> IF n = d.man.imm THEN Survives(n, ci)
                                    ELSE IF n = d.man.active THEN Survives(n, ca)
                                    ELSE synced[n]]
  BY Zenon DEF PowerLoss
<1>2. TypeOK
  BY DEF IInv
<1>3. d \in Dir
  BY <1>2 DEF TypeOK
<1>4. DiskOK(disk')
  BY <1>1, <1>3 DEF DiskOK
<1>5. \A n \in FileNum : /\ Survives(n, ci) \in SUBSET SeqNum
                        /\ Survives(n, ca) \in SUBSET SeqNum
                        /\ synced[n] \in SUBSET SeqNum
  BY <1>2, SurvivesType, Zenon DEF TypeOK
<1>6. wal' \in [FileNum -> SUBSET SeqNum]
  BY <1>1, <1>5, Zenon
<1>7. synced' \in [FileNum -> SUBSET SeqNum] /\ proc = "down"
  BY <1>6, Zenon DEF PowerLoss
<1>8. TypeOK'
  <2>1. UNCHANGED <<proc, handle, errors, flags, writer, worker, compactor, closeVars,
                    history>>
    BY Zenon DEF PowerLoss
  <2>2. /\ man' = man /\ mem' = mem /\ imm' = imm /\ nextSeq' = nextSeq
        /\ pending' = pending /\ termErr' = termErr /\ bgErr' = bgErr
        /\ flushReq' = flushReq /\ compReq' = compReq
    BY <2>1, Zenon DEF handle, errors, flags
  <2>3. /\ closer' = closer /\ stopping' = stopping /\ closing' = closing
        /\ closed' = closed /\ stop' = stop /\ acked' = acked /\ crashes' = crashes
    BY <2>1 DEF closeVars, history
  <2>4. proc' = proc /\ writer' = writer /\ worker' = worker /\ compactor' = compactor
    BY <2>1
  <2>5. FileTypes /\ HandleTypes /\ FlagTypes /\ ThreadTypes
    BY <1>2, TypeGroups, Zenon
  <2>6. FileTypes'
    BY <1>4, <1>6, <1>7, <2>4, Zenon DEF FileTypes
  <2>7. HandleTypes'
    BY <2>2, <2>5 DEF HandleTypes
  <2>8. FlagTypes'
    BY <2>2, <2>3, <2>5 DEF FlagTypes
  <2>9. ThreadTypes'
    BY <2>3, <2>4, <2>5 DEF ThreadTypes
  <2> QED
    BY <2>6, <2>7, <2>8, <2>9, TypeGroups, Zenon
<1>9. WorkerShape' /\ HandleMatchesDisk'
  BY Zenon DEF IInv, PowerLoss, WorkerShape, HandleMatchesDisk, handle
<1> QED
  BY <1>8, <1>9 DEF IInv

\* Recovery refuses a directory whose sequences are used up, so that the next
\* sequence of a handle that opens is one.
LEMMA NextSequenceType ==
  ASSUME TypeOK, Opens(disk.dir, MaxSeq, MaxSeq)
  PROVE  NextSequence(disk.dir.man, ImmData(disk.dir.man, MaxSeq), wal[disk.dir.man.active])
           \in SeqNum
<1> DEFINE m == disk.dir.man
           i == ImmData(m, MaxSeq)
           b == Survives(m.active, MaxSeq)
           a == wal[m.active]
           S == {m.last} \cup (i \cup a)
           T == {m.last} \cup (i \cup b)
<1>1. m \in Manifest /\ m.active \in FileNum /\ m.imm \in FileNum \cup {0}
      /\ m.last \in SeqNum \cup {0}
  BY Zenon DEF TypeOK, Dir, Manifest
<1>2. i \in SUBSET SeqNum /\ b \in SUBSET SeqNum /\ a \in SUBSET SeqNum
  <2>1. a \in SUBSET SeqNum
    BY <1>1 DEF TypeOK
  <2>2. b \in SUBSET SeqNum
    BY <1>1, SurvivesType
  <2>3. i \in SUBSET SeqNum
    BY <1>1, SurvivesType DEF ImmData
  <2> QED
    BY <2>1, <2>2, <2>3, Zenon
<1>3. a \subseteq b
  <2>1. \A s \in a : s <= MaxSeq
    BY <1>2, EngineAssumption DEF SeqNum
  <2> QED
    BY <2>1 DEF Survives, Prefix
<1>4. MaxSeq \in Nat /\ SeqNum = 1 .. MaxSeq
  BY EngineAssumption DEF SeqNum
<1>5. S \in SUBSET (0 .. MaxSeq) /\ T \in SUBSET (0 .. MaxSeq) /\ S # {} /\ T # {}
      /\ S \subseteq T
  <2>1. m.last \in 0 .. MaxSeq /\ SeqNum \subseteq 0 .. MaxSeq
    BY <1>1, <1>4
  <2> HIDE DEF m, i, a, b
  <2>2. S \in SUBSET (0 .. MaxSeq) /\ T \in SUBSET (0 .. MaxSeq)
    BY <1>2, <2>1, Zenon
  <2>3. S \subseteq T /\ m.last \in S
    BY <1>3, Zenon
  <2> QED
    BY <2>2, <2>3, Zenon
<1>6. MaxFrom(m.last, i \cup b) < MaxSeq
  BY Zenon DEF Opens
<1>7. Max(T) < MaxSeq
  BY <1>6 DEF MaxFrom
<1>8. Max(S) \in S /\ \A x \in T : x <= Max(T)
  <2> HIDE DEF S, T
  <2> QED
    BY <1>4, <1>5, MaxInSet, Zenon
<1>9. Max(S) + 1 \in SeqNum
  <2> HIDE DEF S, T
  <2>1. Max(S) \in 0 .. MaxSeq /\ Max(S) <= Max(T) /\ Max(T) \in 0 .. MaxSeq
    BY <1>4, <1>5, <1>8, MaxInSet, Zenon
  <2> QED
    BY <1>4, <1>7, <2>1
<1> QED
  BY <1>9, Zenon DEF NextSequence, MaxFrom

\* Open() keeps it: a handle that opens has read the MANIFEST, and cleanup leaves
\* that alone.
LEMMA OpenKeeps ==
  ASSUME IInv, DownIsIdle, Open
  PROVE  IInv' /\ DownIsIdle'
<1> DEFINE m == disk.dir.man
           i == ImmData(m, MaxSeq)
           a == wal[m.active]
<1>1. /\ TypeOK /\ worker = IdleWorker /\ proc = "down"
      /\ UNCHANGED <<wal, synced, errors, writer, worker, compactor, closeVars, history>>
  BY Zenon DEF IInv, DownIsIdle, Open
<1>2. worker.pc = "idle"
  BY <1>1 DEF IdleWorker
<1>3. WorkerShape'
  BY <1>1, <1>2 DEF WorkerShape
<1>e. /\ wal' = wal /\ synced' = synced /\ termErr' = termErr /\ bgErr' = bgErr
      /\ writer' = writer /\ worker' = worker /\ compactor' = compactor
      /\ acked' = acked /\ crashes' = crashes
  BY <1>1 DEF errors, history
<1>c. /\ closer' = closer /\ stopping' = stopping /\ closing' = closing
      /\ closed' = closed /\ stop' = stop
  BY <1>1 DEF closeVars
<1>g. FileTypes /\ HandleTypes /\ FlagTypes /\ ThreadTypes'
  <2>1. FileTypes /\ HandleTypes /\ FlagTypes /\ ThreadTypes
    BY <1>1, TypeGroups, Zenon
  <2> QED
    BY <1>e, <1>c, <2>1 DEF ThreadTypes
<1>4. CASE Opens(disk.dir, MaxSeq, MaxSeq)
  <2>1. /\ proc' = "up" /\ man' = m /\ mem' = a /\ imm' = i
        /\ nextSeq' = NextSequence(m, i, a)
        /\ flushReq' = (i # {}) /\ compReq' = NeedsBackgroundCompaction(m)
    BY <1>4, Zenon DEF Open
  <2>2. PICK c \in CleanupObsoleteFiles(disk, {}, m) : disk' = c.disk /\ pending' = c.failed
    BY <1>4, Zenon DEF Open
  <2>3. DiskOK(disk) /\ {} \in SUBSET Path
    BY <1>1 DEF TypeOK, DiskOK
  <2>4. DiskOK(disk') /\ disk'.dir.man = m /\ pending' \subseteq Path
    BY <2>2, <2>3, CleanupOK, Zenon
  <2>5. nextSeq' \in SeqNum
    BY <1>1, <1>4, <2>1, NextSequenceType, Zenon
  <2>6. m \in Manifest /\ m.active \in FileNum /\ m.imm \in FileNum \cup {0}
    BY <1>1, Zenon DEF TypeOK, Dir, Manifest
  <2>7. i \in SUBSET SeqNum /\ a \in SUBSET SeqNum
    BY <1>1, <2>6, SurvivesType, Zenon DEF ImmData, TypeOK
  <2>8. flushReq' \in BOOLEAN /\ compReq' \in BOOLEAN
    BY <2>1, Zenon DEF NeedsBackgroundCompaction
  <2> HIDE DEF m, i, a
  <2>9. TypeOK'
    <3>1. mem' \subseteq SeqNum /\ imm' \subseteq SeqNum /\ man' \in Manifest
      BY <2>1, <2>6, <2>7, Zenon
    <3>2. FileTypes'
      BY <1>e, <1>g, <2>1, <2>4, Zenon DEF FileTypes
    <3>3. HandleTypes'
      BY <2>4, <2>5, <3>1, Zenon DEF HandleTypes
    <3>4. FlagTypes'
      BY <1>e, <1>c, <1>g, <2>8 DEF FlagTypes
    <3> QED
      BY <1>g, <3>2, <3>3, <3>4, TypeGroups, Zenon
  <2> QED
    BY <1>3, <2>1, <2>4, <2>9 DEF IInv, HandleMatchesDisk, DownIsIdle
<1>5. CASE ~Opens(disk.dir, MaxSeq, MaxSeq)
  <2>1. proc' = "failed" /\ UNCHANGED <<disk, handle, flags>>
    BY <1>5, Zenon DEF Open
  <2>2. TypeOK'
    <3>1. /\ disk' = disk /\ man' = man /\ mem' = mem /\ imm' = imm
          /\ nextSeq' = nextSeq /\ pending' = pending
          /\ flushReq' = flushReq /\ compReq' = compReq
      BY <2>1 DEF handle, flags
    <3>2. FileTypes'
      BY <1>e, <1>g, <2>1, <3>1 DEF FileTypes
    <3>3. HandleTypes'
      BY <1>g, <3>1 DEF HandleTypes
    <3>4. FlagTypes'
      BY <1>e, <1>c, <1>g, <3>1 DEF FlagTypes
    <3> QED
      BY <1>g, <3>2, <3>3, <3>4, TypeGroups, Zenon
  <2> QED
    BY <1>3, <2>1, <2>2 DEF IInv, HandleMatchesDisk, DownIsIdle
<1> QED
  BY <1>4, <1>5

----------------------------------------------------------------------------
(* The theorems.                                                           *)

\* The steps of the threads of an open handle.
HandleStep ==
  \/ Write \/ WriteStalls \/ StalledSpins \/ StalledResumes \/ Worker
  \/ CompactCalled \/ CompactCounts \/ CompactRuns
  \/ \E c \in Closers : CloseCalled(c) \/ Close(c)

\* Only the end of a process or of a handle leads to the state without one.
LEMMA HandleStays ==
  ASSUME HandleStep
  PROVE  proc' # "down"
<1>1. \A o : Survive(o) # "down"
  BY DEF Survive
<1>2. ASSUME NEW o, NEW k, NEW w, NEW y, NEW full, NEW fresh,
             RotateMemTable(o, k, w, y, full, fresh)
      PROVE  proc' # "down"
  BY <1>1, <1>2 DEF RotateMemTable
<1>3. ASSUME proc = "up", ApplyThenRotate \/ RotateThenApply
      PROVE  proc' # "down"
  BY <1>2, <1>3 DEF ApplyThenRotate, RotateThenApply
<1>4. CASE Write \/ StalledResumes
  BY <1>3, <1>4 DEF Write, StalledResumes, LockFree
<1>5. CASE WriteStalls \/ StalledSpins \/ CompactCalled \/ CompactCounts
  BY <1>5 DEF WriteStalls, StalledSpins, CompactCalled, CompactCounts, LockFree
<1>6. CASE Worker
  BY <1>1, <1>6, Zenon DEF Worker, WorkerPicks, WorkerFinishes, FlushSelects, BuildTable,
       RenameTable, SyncTable, FlushCommits, FlushRemovesWal, CompactSelects,
       CompactKeepsNothing, CompactCommits, CommitCompaction, LockFree
<1>7. CASE CompactRuns
  BY <1>1, <1>7, Zenon DEF CompactRuns, CommitCompaction, LockFree
<1>8. CASE \E c \in Closers : CloseCalled(c) \/ Close(c)
  <2>1. PICK c \in Closers : CloseCalled(c) \/ Close(c)
    BY <1>8
  <2>2. ASSUME proc = "up", CloseTurn(c) PROVE proc' # "down"
    BY <1>2, <2>2 DEF CloseTurn
  <2>3. CASE CloseLocks(c) \/ CloseWakes(c)
    BY <2>2, <2>3 DEF CloseLocks, CloseWakes, LockFree
  <2>4. CASE CloseCalled(c) \/ CloseJoins(c) \/ CloseResumes(c)
    BY <2>4 DEF CloseCalled, CloseJoins, CloseResumes, LockFree
  <2> QED
    BY <2>1, <2>3, <2>4 DEF Close
<1> QED
  BY <1>4, <1>5, <1>6, <1>7, <1>8 DEF HandleStep

\* Init establishes the inductive invariant: a database just created and opened.
LEMMA InitIInv == Init => IInv /\ DownIsIdle
<1> SUFFICES ASSUME Init PROVE IInv /\ DownIsIdle
  OBVIOUS
<1>1. <<>> \in Seq(Table) /\ {} \in SUBSET SeqNum /\ 1 \in FileNum /\ 2 \in FileNum
      /\ 1 \in SeqNum
  BY EngineAssumption DEF FileNum, SeqNum
<1>2. InitialManifest \in Manifest
  BY <1>1, Zenon DEF InitialManifest, Manifest
<1>3. InitialDir \in Dir /\ InitialDir.man = InitialManifest
  BY <1>1, <1>2, Zenon DEF InitialDir, Dir
<1>4. "idle" \in WorkerPCs /\ "idle" \in CloserPCs
  BY DEF WorkerPCs, CloserPCs
<1>5. IdleWorker \in WorkerType /\ IdleWorker.pc = "idle"
  BY <1>4, IdleWorkerType, Zenon DEF IdleWorker
<1>6. DiskOK(disk) /\ disk.dir = InitialDir
  BY <1>3 DEF Init, DiskOK
<1>7. closer \in [Closers -> CloserPCs] /\ wal \in [FileNum -> SUBSET SeqNum]
      /\ synced \in [FileNum -> SUBSET SeqNum]
  BY <1>1, <1>4 DEF Init
<1>8. compactor \in [pc : {"idle", "wait", "gap"}, count : Nat]
  BY DEF Init, IdleCompactor
<1>9. 0 \in 0 .. MaxCrashes
  BY EngineAssumption
<1>10. TypeOK
  BY <1>1, <1>2, <1>5, <1>6, <1>7, <1>8, <1>9, Zenon DEF Init, TypeOK, WorkerType, DiskOK
<1> QED
  BY <1>3, <1>5, <1>6, <1>10, Zenon DEF Init, IInv, WorkerShape, HandleMatchesDisk, DownIsIdle

\* Every step of the engine keeps it.
LEMMA NextIInv ==
  ASSUME IInv, DownIsIdle, [Next]_vars
  PROVE  IInv' /\ DownIsIdle'
<1>1. CASE HandleStep
  <2>1. IInv'
    BY <1>1, WriteKeeps, StallKeeps, StalledResumesKeeps, WorkerKeeps, CompactWaitsKeeps,
       CompactRunsKeeps, CloseKeeps, SMTT(30) DEF HandleStep
  <2> QED
    BY <1>1, <2>1, HandleStays DEF DownIsIdle
<1>2. CASE Crash \/ Release
  BY <1>2, CrashKeeps, Zenon DEF DownIsIdle, Crash, Release, NoHandle
<1>3. CASE PowerLoss
  BY <1>3, PowerLossKeeps, Zenon DEF DownIsIdle, PowerLoss
<1>4. CASE Open
  BY <1>4, OpenKeeps, Zenon
<1>5. CASE UNCHANGED vars
  <2>1. /\ UNCHANGED <<files, handle, errors, flags, proc, writer, worker, compactor,
                       closing, stop, history>>
        /\ closer' = closer /\ stopping' = stopping /\ closed' = closed
    BY <1>5 DEF vars, closeVars
  <2>2. /\ closer' \in [Closers -> CloserPCs] /\ stopping' \in BOOLEAN
        /\ closed' \in BOOLEAN
    BY <2>1, Zenon DEF IInv, TypeOK
  <2> QED
    BY <2>1, <2>2, CloserMovesKeeps, Zenon DEF DownIsIdle
<1> QED
  BY <1>1, <1>2, <1>3, <1>4, <1>5 DEF Next, HandleStep

\* Every variable of the engine keeps its type, whatever the limits, the faults
\* and the number of threads in Close(): no operation allocates a file number or a
\* sequence number past its limit, and the directory in use is always among those
\* a power loss may leave.
THEOREM TypeCorrect == Spec => []TypeOK
<1>1. IInv /\ DownIsIdle /\ [Next]_vars => IInv' /\ DownIsIdle'
  BY NextIInv
<1>2. IInv => TypeOK
  BY DEF IInv
<1> QED
  BY InitIInv, <1>1, <1>2, PTL DEF Spec

\* The manifest in memory is the MANIFEST on disk at every step of an open handle
\* whose terminal_error_ is not set: no interleaving of writers, worker, Compact()
\* and Close() lets one of them publish a snapshot that another then overwrites
\* from a stale copy.
THEOREM HandleAgreesWithDisk == Spec => []HandleMatchesDisk
<1>1. IInv /\ DownIsIdle /\ [Next]_vars => IInv' /\ DownIsIdle'
  BY NextIInv
<1>2. IInv => HandleMatchesDisk
  BY DEF IInv
<1> QED
  BY InitIInv, <1>1, <1>2, PTL DEF Spec

=============================================================================
