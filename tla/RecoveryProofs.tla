--------------------------- MODULE RecoveryProofs ---------------------------
EXTENDS StorageEngineProofs, RecoverySteps, EngineSteps

(***************************************************************************)
(* Crashes, power losses and Open() keep RInv as well, and what follows    *)
(* from it for every value of the constants: whatever moment the process   *)
(* or the machine dies, Open() accepts the directory it finds and recovers *)
(* every acknowledged write, without holes.  The last section is about     *)
(* what Close() leaves behind and about sticky errors.                     *)
(***************************************************************************)

----------------------------------------------------------------------------
(* Crashes, power losses and Open().                                       *)

\* Between two handles there is neither a Compact() nor a terminal error.
DownIsClean == proc = "down" => ~termErr /\ compactor.pc = "idle"

\* The end of a process or of a handle.
LEMMA CrashKeepsR ==
  ASSUME RInv, Crash \/ Release
  PROVE  RInv' /\ DownIsClean'
<1>1. /\ proc' = "down" /\ NoHandle /\ UNCHANGED <<files, acked>>
  BY DEF Crash, Release
<1>2. disk' = disk /\ wal' = wal /\ synced' = synced /\ acked' = acked
  BY <1>1 DEF files
<1>3. /\ worker' = IdleWorker /\ compactor' = IdleCompactor /\ ~stop' /\ ~compReq' /\ ~termErr'
  BY <1>1 DEF NoHandle
<1>4. ImagesGood' /\ WalsSynced'
  BY <1>1, <1>2 DEF RInv, ImagesGood, Images, WalsSynced
<1>5. worker'.pc = "idle" /\ worker'.num = 0 /\ compactor'.pc = "idle"
  BY <1>3 DEF IdleWorker, IdleCompactor
<1>6. WorkerGood'
  BY <1>3, <1>5, EmptyHanded
<1>7. QuietGood' /\ HandleGood'
  BY <1>1, <1>3, <1>5 DEF QuietGood, HandleGood
<1> QED
  BY <1>1, <1>3, <1>4, <1>5, <1>6, <1>7 DEF RInv, DownIsClean

\* A WAL that the process left is replayed to its end.
LEMMA SurvivesAll ==
  ASSUME IInv, WalsSynced, NEW n \in FileNum
  PROVE  Survives(n, MaxSeq) = wal[n]
<1>1. wal[n] \in SUBSET SeqNum /\ synced[n] \subseteq wal[n]
  BY DEF IInv, TypeOK, WalsSynced
<1>2. \A s \in wal[n] : s <= MaxSeq
  BY <1>1, EngineAssumption DEF SeqNum
<1> QED
  BY <1>1, <1>2 DEF Survives, Prefix

\* With synced writes a power loss leaves the WALs whole and one of the images.
LEMMA PowerLossKeepsR ==
  ASSUME RecoverySetting, IInv, RInv, DownIsClean, PowerLoss
  PROVE  RInv' /\ DownIsClean'
<1>1. /\ proc = "down" /\ PowerFails /\ SyncOnWrite /\ synced' = wal'
      /\ UNCHANGED <<proc, handle, errors, flags, writer, worker, compactor, closeVars, history>>
  BY Zenon DEF PowerLoss, RecoverySetting
<1>2. PICK d \in disk.hist, ci \in WalCuts, ca \in WalCuts :
        /\ disk' = [dir |-> d, hist |-> {d}]
        /\ wal' = [n \in FileNum |-> IF n = d.man.imm THEN Survives(n, ci)
                                    ELSE IF n = d.man.active THEN Survives(n, ca)
                                    ELSE synced[n]]
  BY Zenon DEF PowerLoss
<1>3. ci = MaxSeq /\ ca = MaxSeq
  BY <1>1 DEF WalCuts
<1>4. WalsSynced /\ synced = wal /\ wal \in [FileNum -> SUBSET SeqNum]
  BY <1>1 DEF RInv, WalsSynced, IInv, TypeOK
<1>5. wal' = wal
  <2>1. \A n \in FileNum : Survives(n, MaxSeq) = wal[n]
    BY <1>4, SurvivesAll
  <2>2. wal' = [n \in FileNum |-> wal[n]]
    BY <1>2, <1>3, <1>4, <2>1
  <2> QED
    BY <1>4, <2>2
<1>6. /\ proc' = proc /\ acked' = acked /\ compReq' = compReq /\ flushReq' = flushReq
      /\ worker' = worker /\ writer' = writer /\ compactor' = compactor /\ closer' = closer
      /\ stop' = stop /\ closed' = closed /\ termErr' = termErr
  BY <1>1, Zenon DEF handle, errors, flags, closeVars, history
<1>7. ImagesGood'
  <2>1. disk'.hist = {d} /\ d \in disk.hist
    BY <1>2
  <2>2. Images = disk.hist /\ Images' = {d}
    BY <1>1, <2>1 DEF Images
  <2> QED
    BY <1>1, <1>5, <1>6, <2>1, <2>2 DEF RInv, ImagesGood
<1>8. WalsSynced'
  BY <1>1 DEF WalsSynced
<1>9. HandleGood' /\ WorkerGood' /\ QuietGood'
  BY <1>1, <1>6, Zenon DEF RInv, HandleGood, WorkerGood, QuietGood, Flushing, Compacting, OutputInPlace
<1> QED
  BY <1>1, <1>6, <1>7, <1>8, <1>9, Zenon DEF RInv, DownIsClean

\* Two stretches of sequence numbers, one after the other, behind the last one of the tables.
LEMMA Stretches ==
  ASSUME NEW l \in Nat, NEW q \in Nat, NEW p \in l .. q
  PROVE  /\ p \in Nat /\ l <= p /\ p <= q
         /\ {l} \cup ((l + 1) .. p) = l .. p
         /\ {l} \cup (((l + 1) .. p) \cup ((p + 1) .. q)) = l .. q
OBVIOUS

\* Open() accepts a good directory and finds the writes 1 .. q in it.
LEMMA GoodOpens ==
  ASSUME IInv, WalsSynced, NEW d \in Dir, NEW q \in 0 .. MaxSeq - 1, Good(d, wal, q)
  PROVE  /\ Opens(d, MaxSeq, MaxSeq) /\ Recovered(d, MaxSeq, MaxSeq) = 1 .. q
         /\ ImmData(d.man, MaxSeq) = ImmWal(d.man, wal)
         /\ NextSequence(d.man, ImmData(d.man, MaxSeq), wal[d.man.active]) = q + 1
<1> DEFINE m == d.man
           i == ImmWal(m, wal)
           a == wal[m.active]
<1>1. m \in Manifest /\ m.active \in FileNum /\ m.imm \in FileNum \cup {0} /\ m.last \in Nat
  BY EngineAssumption DEF Dir, Manifest, SeqNum
<1>2. Survives(m.active, MaxSeq) = a
  BY <1>1, SurvivesAll
<1>3. ImmData(m, MaxSeq) = i
  BY <1>1, SurvivesAll DEF ImmData, ImmWal
<1>4. Numbered(m) /\ Present(d) /\ Holds(m, wal, q)
  BY DEF Good
<1>5. /\ TableData(m.tables) \cup m.dead = 1 .. m.last
      /\ \E p \in m.last .. q :
           i = (m.last + 1) .. p /\ (m.imm # 0 => m.last < p) /\ a = (p + 1) .. q
  BY <1>4, Zenon DEF Holds
<1> HIDE DEF i, a
<1>6. PICK p \in m.last .. q :
        i = (m.last + 1) .. p /\ (m.imm # 0 => m.last < p) /\ a = (p + 1) .. q
  BY <1>5
<1>7. p \in Nat /\ q \in Nat /\ m.last <= p /\ p <= q /\ q < MaxSeq /\ MaxSeq \in Nat
  <2>1. MaxSeq \in Nat /\ q \in Nat /\ q < MaxSeq
    BY EngineAssumption
  <2> QED
    BY <1>1, <1>6, <2>1, Stretches, Zenon
<1>8. {m.last} \cup i = m.last .. p /\ {m.last} \cup (i \cup a) = m.last .. q
  <2>1. /\ {m.last} \cup ((m.last + 1) .. p) = m.last .. p
        /\ {m.last} \cup (((m.last + 1) .. p) \cup ((p + 1) .. q)) = m.last .. q
    <3>1. m.last \in Nat /\ q \in Nat
      BY <1>1, <1>7
    <3> QED
      BY <3>1, Stretches
  <2> QED
    BY <1>6, <2>1
<1>9. MaxFrom(m.last, i) = p /\ MaxFrom(m.last, i \cup a) = q
  <2>1. m.last <= q
    BY <1>1, <1>7
  <2>2. Max(m.last .. p) = p /\ Max(m.last .. q) = q
    BY <1>1, <1>7, <2>1, MaxOfRange
  <2> QED
    BY <1>8, <2>2, Zenon DEF MaxFrom
<1>10. Opens(d, MaxSeq, MaxSeq)
  <2>1. /\ \A t \in DOMAIN m.tables : d.sst[m.tables[t].num] = m.tables[t].data
        /\ (m.imm # 0 => m.imm \in d.wal) /\ m.active \in d.wal
    BY <1>4, Zenon DEF Present
  <2>2. (\A s \in i : s > m.last) /\ \A s \in a : s > p
    BY <1>1, <1>6, <1>7
  <2>3. m.imm # 0 => i # {}
    <3>1. m.last < p => p \in (m.last + 1) .. p
      BY <1>1, <1>7
    <3> QED
      BY <1>6, <3>1
  <2> HIDE DEF m
  <2>4. d.man = m
    BY DEF m
  <2> QED
    BY <1>2, <1>3, <1>7, <1>9, <2>1, <2>2, <2>3, <2>4, Zenon DEF Opens
<1>11. Recovered(d, MaxSeq, MaxSeq) = 1 .. q
  <2>1. (1 .. m.last) \cup i \cup a = 1 .. q
    BY <1>1, <1>6, <1>7
  <2>2. UNION {d.sst[n] : n \in TableNums(m.tables)} = TableData(m.tables)
    <3>1. \A t \in DOMAIN m.tables : d.sst[m.tables[t].num] = m.tables[t].data
      BY <1>4, Zenon DEF Present
    <3> HIDE DEF m
    <3>2. {d.sst[n] : n \in TableNums(m.tables)} = {m.tables[t].data : t \in DOMAIN m.tables}
      BY <3>1 DEF TableNums
    <3> QED
      BY <3>2, Zenon DEF TableData
  <2>3. Replayed(d, m.active, MaxSeq) = a
    BY <1>2, <1>4 DEF Replayed, Present
  <2>4. Replayed(d, m.imm, MaxSeq) = i
    <3>1. CASE m.imm = 0
      <4>1. 0 \notin d.wal /\ i = {}
        BY <3>1 DEF Dir, FileNum, i, ImmWal
      <4> QED
        BY <3>1, <4>1 DEF Replayed
    <3>2. CASE m.imm # 0
      BY <3>2, <1>3, <1>4 DEF Replayed, Present, ImmData
    <3> QED
      BY <3>1, <3>2
  <2>5. Recovered(d, MaxSeq, MaxSeq) = TableData(m.tables) \cup m.dead \cup i \cup a
    <3> DEFINE u == UNION {d.sst[n] : n \in TableNums(m.tables)}
    <3>1. Recovered(d, MaxSeq, MaxSeq)
            = u \cup m.dead \cup Replayed(d, m.imm, MaxSeq) \cup Replayed(d, m.active, MaxSeq)
      BY Zenon DEF Recovered
    <3>2. u = TableData(m.tables)
      BY <2>2
    <3> HIDE DEF u, m
    <3> QED
      BY <3>1, <3>2, <2>3, <2>4
  <2> HIDE DEF m
  <2> QED
    BY <1>5, <2>1, <2>5
<1>12. NextSequence(m, i, a) = q + 1
  BY <1>9 DEF NextSequence
<1> QED
  BY <1>3, <1>10, <1>11, <1>12, Zenon DEF i, a

\* Open() succeeds, recovers everything and removes nothing that is live.
LEMMA OpenKeepsR ==
  ASSUME RecoverySetting, IInv, RInv, DownIsIdle, DownIsClean, Open
  PROVE  RInv' /\ DownIsClean'
<1> DEFINE m == disk.dir.man
           i == ImmData(m, MaxSeq)
           a == wal[m.active]
<1>1. /\ proc = "down" /\ worker = IdleWorker /\ ~termErr /\ compactor.pc = "idle"
      /\ UNCHANGED <<wal, synced, errors, writer, worker, compactor, closeVars, history>>
  BY Zenon DEF DownIsIdle, DownIsClean, Open
<1>2. /\ wal' = wal /\ synced' = synced /\ termErr' = termErr /\ worker' = worker
      /\ compactor' = compactor /\ closer' = closer /\ stop' = stop /\ closed' = closed
      /\ acked' = acked
  BY <1>1 DEF errors, closeVars, history
<1>3. PICK q \in 0 .. MaxSeq - 1 : acked \subseteq 1 .. q /\ Safe(disk, wal, q)
  BY DEF RInv, ImagesGood, Images, ImagesOf, Safe
<1>4. DiskOK(disk) /\ disk.dir \in Dir /\ WalsSynced
  BY DEF IInv, TypeOK, DiskOK, RInv
<1>5. Good(disk.dir, wal, q)
  BY <1>3, <1>4, SafeDir
<1>6. Opens(disk.dir, MaxSeq, MaxSeq) /\ i = ImmWal(m, wal) /\ NextSequence(m, i, a) = q + 1
  BY <1>4, <1>5, GoodOpens, Zenon
<1>7. /\ proc' = "up" /\ man' = m /\ mem' = a /\ imm' = i
      /\ nextSeq' = NextSequence(m, i, a)
      /\ compReq' = NeedsBackgroundCompaction(m)
  BY <1>6, Zenon DEF Open
<1>8. PICK c \in CleanupObsoleteFiles(disk, {}, m) : disk' = c.disk /\ pending' = c.failed
  BY <1>6, Zenon DEF Open
<1>9. Safe(disk', wal, q) /\ pending' = {} /\ disk'.dir.man = m
  BY <1>3, <1>4, <1>8, SafeCleanup, Zenon
<1> HIDE DEF m, i, a
<1>10. ImagesGood'
  BY <1>2, <1>3, <1>6, <1>7, <1>9, ImagesHold
<1>11. HandleGood'
  BY <1>1, <1>2, <1>6, <1>7, <1>9, Zenon DEF HandleGood, a
<1>12. WorkerGood'
  <2>1. worker'.pc = "idle" /\ worker'.num = 0
    <3>1. worker' = IdleWorker
      BY <1>1, <1>2, Zenon
    <3> QED
      BY <3>1 DEF IdleWorker
  <2>2. compReq' => Trigger # 0
    BY <1>7, CompactionWanted, Zenon
  <2> QED
    BY <2>1, <2>2, EmptyHanded
<1>13. QuietGood'
  BY <1>1, <1>2 DEF RInv, QuietGood
<1>14. WalsSynced'
  BY <1>2, <1>4 DEF WalsSynced
<1> QED
  BY <1>7, <1>10, <1>11, <1>12, <1>13, <1>14 DEF RInv, DownIsClean

----------------------------------------------------------------------------
(* The invariant.                                                          *)

\* Every step of the worker keeps the invariant.
LEMMA WorkerKeepsR ==
  ASSUME RecoverySetting, IInv, RInv, Worker
  PROVE  RInv'
<1>1. CASE WorkerPicks \/ WorkerFinishes
  BY <1>1, WorkerPicksR
<1>2. CASE FlushSelects \/ FlushCommits \/ FlushRemovesWal
  BY <1>2, FlushSelectsR, FlushCommitsR, FlushRemovesWalR
<1>3. CASE CompactSelects \/ CompactKeepsNothing \/ CompactCommits
  BY <1>3, CompactSelectsR, CompactKeepsNothingR, CompactCommitsR
<1>4. CASE \/ BuildTable("fbuild", "frename", "fdone")
           \/ RenameTable("frename", "fsync", "fdone")
           \/ SyncTable("fsync", "fcommit", "fdone")
  <2>1. /\ <<"fbuild", "frename", "fdone">> \in TableSteps
        /\ <<"frename", "fsync", "fdone">> \in TableSteps
        /\ <<"fsync", "fcommit", "fdone">> \in TableSteps
    BY DEF TableSteps
  <2> QED
    BY <1>4, <2>1, TableStepR
<1>5. CASE \/ BuildTable("cbuild", "crename", "cdone")
           \/ RenameTable("crename", "csync", "cdone")
           \/ SyncTable("csync", "ccommit", "cdone")
  <2>1. /\ <<"cbuild", "crename", "cdone">> \in TableSteps
        /\ <<"crename", "csync", "cdone">> \in TableSteps
        /\ <<"csync", "ccommit", "cdone">> \in TableSteps
    BY DEF TableSteps
  <2> QED
    BY <1>5, <2>1, TableStepR
<1> QED
  BY <1>1, <1>2, <1>3, <1>4, <1>5 DEF Worker

RecoveryInv == IInv /\ DownIsIdle /\ RInv /\ DownIsClean

\* A database just created holds no write, and every image is its directory.
LEMMA InitRInv ==
  ASSUME Init
  PROVE  RInv /\ DownIsClean
<1> DEFINE m == InitialManifest
<1>1. /\ m.active = 1 /\ m.imm = 0 /\ m.next = 2 /\ m.last = 0 /\ m.tables = <<>> /\ m.dead = {}
  BY DEF InitialManifest
<1>2. DOMAIN m.tables = {} /\ 1 \in FileNum /\ FileNum \subseteq Nat
  BY <1>1, EngineAssumption DEF FileNum
<1>3. InitialDir.man = m /\ InitialDir.wal = {1}
  BY DEF InitialDir
<1> HIDE DEF m
<1>4. Numbered(m)
  BY <1>1, <1>2 DEF Numbered, ValidateSnapshot
<1>5. Present(InitialDir)
  BY <1>1, <1>2, <1>3 DEF Present
<1>6. wal[1] = {} /\ \A n \in FileNum : wal[n] = {} /\ synced[n] = {}
  BY <1>2 DEF Init
<1>7. Holds(m, wal, 0)
  <2>1. TableData(m.tables) \cup m.dead = 1 .. m.last
    BY <1>1, <1>2 DEF TableData
  <2>2. 0 \in m.last .. 0 /\ ImmWal(m, wal) = (m.last + 1) .. 0 /\ wal[m.active] = (0 + 1) .. 0
    BY <1>1, <1>6 DEF ImmWal
  <2> QED
    BY <1>1, <2>1, <2>2 DEF Holds
<1>8. Good(InitialDir, wal, 0)
  BY <1>3, <1>4, <1>5, <1>7 DEF Good
<1>9. Images = {InitialDir}
  BY DEF Init, Images
<1>10. ImagesGood
  <2>1. 0 \in 0 .. MaxSeq - 1 /\ acked \subseteq 1 .. 0 /\ nextSeq = 0 + 1
    BY EngineAssumption DEF Init
  <2> QED
    BY <1>8, <1>9, <2>1 DEF ImagesGood
<1>11. WalsSynced
  BY <1>6 DEF Init, WalsSynced
<1>12. HandleGood
  <2>1. man = m /\ disk.dir.man = m /\ ~termErr /\ pending = {} /\ mem = {} /\ imm = {}
    BY <1>3 DEF Init, m
  <2> QED
    BY <1>1, <1>6, <2>1, Zenon DEF HandleGood, ImmWal
<1>13. WorkerGood
  <2>1. worker.pc = "idle" /\ worker.num = 0 /\ ~compReq
    BY DEF Init, IdleWorker
  <2> QED
    BY <2>1 DEF WorkerGood, Flushing, Compacting, OutputInPlace
<1>14. QuietGood
  BY DEF Init, IdleCompactor, QuietGood
<1> QED
  BY <1>10, <1>11, <1>12, <1>13, <1>14 DEF Init, RInv, DownIsClean

\* The recovery invariant is inductive.
LEMMA NextRInv ==
  ASSUME RecoverySetting, RecoveryInv, [Next]_vars
  PROVE  RecoveryInv'
<1>1. IInv /\ DownIsIdle /\ RInv /\ DownIsClean
  BY DEF RecoveryInv
<1>2. IInv' /\ DownIsIdle'
  BY <1>1, NextIInv
<1>3. CASE HandleStep
  <2>1. DownIsClean'
    BY <1>3, HandleStays DEF DownIsClean
  <2>2. RInv'
    <3>1. CASE Write \/ WriteStalls \/ StalledSpins \/ StalledResumes
      BY <1>1, <3>1, WriteKeepsR
    <3>2. CASE Worker
      BY <1>1, <3>2, WorkerKeepsR
    <3>3. CASE CompactCalled \/ CompactCounts \/ CompactRuns
      BY <1>1, <3>3, CompactWaitsR, CompactRunsR
    <3>4. CASE \E c \in Closers : CloseCalled(c) \/ Close(c)
      BY <1>1, <3>4, CloseKeepsR
    <3> QED
      BY <1>3, <3>1, <3>2, <3>3, <3>4 DEF HandleStep
  <2> QED
    BY <1>2, <2>1, <2>2 DEF RecoveryInv
<1>4. CASE Crash \/ Release
  BY <1>1, <1>2, <1>4, CrashKeepsR DEF RecoveryInv
<1>5. CASE PowerLoss
  BY <1>1, <1>2, <1>5, PowerLossKeepsR DEF RecoveryInv
<1>6. CASE Open
  BY <1>1, <1>2, <1>6, OpenKeepsR DEF RecoveryInv
<1>7. CASE UNCHANGED vars
  <2>1. /\ UNCHANGED <<disk, wal, synced, proc, man, mem, imm, nextSeq, pending, termErr>>
        /\ UNCHANGED <<flushReq, compReq, writer, worker, compactor, closer, closed, stop, acked>>
    BY <1>7 DEF vars, files, handle, errors, flags, closeVars, history
  <2>2. ImagesGood' /\ WalsSynced' /\ HandleGood'
    BY <1>1, <2>1, Zenon DEF RInv, ImagesGood, Images, WalsSynced, HandleGood
  <2>3. WorkerGood' /\ QuietGood'
    BY <1>1, <2>1, Zenon DEF RInv, WorkerGood, QuietGood, Flushing, Compacting, OutputInPlace
  <2>4. RInv' /\ DownIsClean'
    BY <1>1, <2>1, <2>2, <2>3 DEF RInv, DownIsClean
  <2> QED
    BY <1>2, <2>4 DEF RecoveryInv
<1> QED
  BY <1>3, <1>4, <1>5, <1>6, <1>7 DEF Next, HandleStep

\* Every image opens, and holds exactly the writes 1 .. q.
LEMMA EveryImage ==
  ASSUME RecoveryInv
  PROVE  \E q \in 0 .. MaxSeq - 1 :
           /\ acked \subseteq 1 .. q /\ (proc = "up" => nextSeq = q + 1)
           /\ \A d \in Images :
                /\ Opens(d, MaxSeq, MaxSeq) /\ Recovered(d, MaxSeq, MaxSeq) = 1 .. q
                /\ Good(d, wal, q)
<1>1. IInv /\ RInv /\ WalsSynced
  BY DEF RecoveryInv, RInv
<1>2. PICK q \in 0 .. MaxSeq - 1 :
        /\ acked \subseteq 1 .. q /\ (proc = "up" => nextSeq = q + 1)
        /\ \A d \in Images : Good(d, wal, q)
  BY <1>1 DEF RInv, ImagesGood
<1>3. Images \subseteq Dir
  BY <1>1 DEF IInv, TypeOK, Images
<1>4. \A d \in Images :
        Opens(d, MaxSeq, MaxSeq) /\ Recovered(d, MaxSeq, MaxSeq) = 1 .. q
  BY <1>1, <1>2, <1>3, GoodOpens, Zenon
<1> QED
  BY <1>2, <1>4

\* The recovery invariant holds throughout.
LEMMA RecoveryInvariant ==
  ASSUME RecoverySetting
  PROVE  Spec => []RecoveryInv
<1>1. Init => RecoveryInv
  BY InitIInv, InitRInv DEF RecoveryInv
<1>2. RecoveryInv /\ [Next]_vars => RecoveryInv'
  BY NextRInv
<1> QED
  BY <1>1, <1>2, PTL DEF Spec

----------------------------------------------------------------------------
(* The theorems.                                                           *)

\* Whenever the process dies, and whichever directory since the last SyncDir a power loss
\* leaves, DB::Open accepts what it finds: OpenManifestSSTables finds every table whole and
\* RecoverWals replays the WALs in order.  No interleaving of flush, compaction, rotation,
\* cleanup and Close() leaves a MANIFEST that names a missing file.
THEOREM EveryImageOpensAlways ==
  ASSUME RecoverySetting
  PROVE  Spec => []EveryImageOpens
<1>1. Spec => []RecoveryInv
  BY RecoveryInvariant, PTL
<1>2. RecoveryInv => EveryImageOpens
  <2> SUFFICES ASSUME RecoveryInv PROVE EveryImageOpens
    OBVIOUS
  <2>1. proc # "failed"
    BY DEF RecoveryInv, RInv
  <2>2. WalCuts = {MaxSeq}
    BY DEF WalCuts, RecoverySetting
  <2> QED
    BY <2>1, <2>2, EveryImage DEF EveryImageOpens
<1> QED
  BY <1>1, <1>2, PTL

\* A write that DB::Write acknowledged is in what Open() recovers after any crash, and, with
\* sync_on_write, after any power loss.
THEOREM AckedSurvives ==
  ASSUME RecoverySetting
  PROVE  Spec => []AckedRecoverable
<1>1. Spec => []RecoveryInv
  BY RecoveryInvariant, PTL
<1>2. RecoveryInv => AckedRecoverable
  BY EveryImage DEF AckedRecoverable
<1> QED
  BY <1>1, <1>2, PTL

\* Recovery has no holes: the writes that Open() finds in the tables and the WALs of a
\* directory that a crash leaves are all those up to some sequence number.
THEOREM RecoveryFindsPrefix ==
  ASSUME RecoverySetting
  PROVE  Spec => []RecoveryIsPrefix
<1>1. Spec => []RecoveryInv
  BY RecoveryInvariant, PTL
<1>2. RecoveryInv => RecoveryIsPrefix
  <2> SUFFICES ASSUME RecoveryInv, NEW d \in Images
               PROVE  Recovered(d, MaxSeq, MaxSeq) = 1 .. Cardinality(Recovered(d, MaxSeq, MaxSeq))
    BY DEF RecoveryIsPrefix
  <2>1. PICK q \in 0 .. MaxSeq - 1 : Recovered(d, MaxSeq, MaxSeq) = 1 .. q
    BY EveryImage
  <2>2. q \in Nat
    BY EngineAssumption
  <2>3. Cardinality(1 .. q) = q
    <3>1. Cardinality(1 .. q) = IF 1 > q THEN 0 ELSE q - 1 + 1
      BY <2>2, FS_Interval
    <3> QED
      BY <2>2, <3>1
  <2> QED
    BY <2>1, <2>3
<1> QED
  BY <1>1, <1>2, PTL

\* next_sequence_ is above every sequence number that a recovery from here would find, so
\* that no write is given the number of another, over any sequence of crashes and reopens.
THEOREM SequencesStayFresh ==
  ASSUME RecoverySetting
  PROVE  Spec => []SequencesFresh
<1>1. Spec => []RecoveryInv
  BY RecoveryInvariant, PTL
<1>2. RecoveryInv => SequencesFresh
  <2> SUFFICES ASSUME RecoveryInv, proc = "up",
                      NEW s \in acked \cup Recovered(disk.dir, MaxSeq, MaxSeq)
               PROVE  s < nextSeq
    BY DEF SequencesFresh
  <2>1. disk.dir \in Images
    BY DEF RecoveryInv, IInv, TypeOK, Images
  <2>2. PICK q \in 0 .. MaxSeq - 1 :
          acked \subseteq 1 .. q /\ nextSeq = q + 1 /\ Recovered(disk.dir, MaxSeq, MaxSeq) = 1 .. q
    BY <2>1, EveryImage
  <2>3. s \in 1 .. q /\ q \in Nat
    BY <2>2, EngineAssumption
  <2> QED
    BY <2>2, <2>3
<1> QED
  BY <1>1, <1>2, PTL

\* An open handle reads every acknowledged write: rotation hands the MemTable over, the flush
\* the immutable one, and a compaction its inputs, without a moment where a write is in none.
THEOREM AckedStaysReadable ==
  ASSUME RecoverySetting
  PROVE  Spec => []AckedReadable
<1>1. Spec => []RecoveryInv
  BY RecoveryInvariant, PTL
<1>2. RecoveryInv => AckedReadable
  <2> SUFFICES ASSUME RecoveryInv, proc = "up"
               PROVE  acked \subseteq mem \cup imm \cup TableData(man.tables) \cup man.dead
    BY DEF AckedReadable
  <2>1. PICK q \in 0 .. MaxSeq - 1 :
          acked \subseteq 1 .. q /\ Holds(man, wal, q)
    BY OpenHandle, Zenon DEF RecoveryInv
  <2>2. mem = wal[man.active] /\ imm = ImmWal(man, wal) /\ man \in Manifest
    BY OpenHandle, Zenon DEF RecoveryInv
  <2>3. PICK p \in man.last .. q :
          /\ TableData(man.tables) \cup man.dead = 1 .. man.last
          /\ imm = (man.last + 1) .. p /\ mem = (p + 1) .. q
    BY <2>1, <2>2, Zenon DEF Holds
  <2>4. man.last \in Nat /\ p \in Nat /\ q \in Nat
    BY <2>2, <2>3, EngineAssumption DEF Manifest, SeqNum
  <2>5. 1 .. q \subseteq (1 .. man.last) \cup ((man.last + 1) .. p) \cup ((p + 1) .. q)
    BY <2>3, <2>4
  <2> QED
    BY <2>1, <2>3, <2>5
<1> QED
  BY <1>1, <1>2, PTL

\* CleanupObsoleteFiles, the removal of a flushed WAL and that of compacted tables never
\* remove a file that the MANIFEST on disk names.
THEOREM LiveFilesStay ==
  ASSUME RecoverySetting
  PROVE  Spec => []LiveFilesKept
<1>1. Spec => []RecoveryInv
  BY RecoveryInvariant, PTL
<1>2. RecoveryInv => LiveFilesKept
  <2> SUFFICES ASSUME RecoveryInv PROVE LiveFilesKept
    OBVIOUS
  <2>1. disk.dir \in Images
    BY DEF RecoveryInv, IInv, TypeOK, Images
  <2>2. Present(disk.dir) /\ Numbered(disk.dir.man)
    BY <2>1, EveryImage DEF Good
  <2>3. {disk.dir.man.active, disk.dir.man.imm} \ {0} \subseteq disk.dir.wal
    BY <2>2, Zenon DEF Present
  <2>4. \A n \in TableNums(disk.dir.man.tables) : disk.dir.sst[n] # {}
    BY <2>2, Zenon DEF Present, Numbered, TableNums
  <2> QED
    BY <2>3, <2>4 DEF LiveFilesKept
<1> QED
  BY <1>1, <1>2, PTL

\* A file number is given to one file only: the table that the worker is building has a number
\* below next_file_number that no live table and no WAL has, although writers rotate and
\* allocate numbers while it builds.
THEOREM OutputNumberIsOwn ==
  ASSUME RecoverySetting
  PROVE  Spec => []OutputNumberUnclaimed
<1>1. Spec => []RecoveryInv
  BY RecoveryInvariant, PTL
<1>2. RecoveryInv => OutputNumberUnclaimed
  <2> SUFFICES ASSUME RecoveryInv, proc = "up", worker.num # 0
               PROVE  /\ worker.num < man.next
                      /\ worker.num \notin TableNums(man.tables) \cup {man.active, man.imm}
    BY DEF OutputNumberUnclaimed
  <2>1. IInv /\ RInv
    BY DEF RecoveryInv
  <2>2. Flushing \/ Compacting
    BY <2>1 DEF RInv, WorkerGood
  <2> QED
    BY <2>1, <2>2, OutputIsNew
<1> QED
  BY <1>1, <1>2, PTL

\* What the worker has in hand passes the checks in front of its commit.
LEMMA WorkerOutputFits == RecoveryInv => WorkerOutputAccepted
<1> SUFFICES ASSUME RecoveryInv, proc = "up" PROVE WorkerOutputAccepted
  BY DEF WorkerOutputAccepted
<1>1. IInv /\ RInv
  BY DEF RecoveryInv
<1>2. PICK q \in 0 .. MaxSeq - 1 : Holds(man, wal, q)
  BY <1>1, OpenHandle, Zenon
<1>3. man \in Manifest /\ Numbered(man) /\ worker \in WorkerType
  BY <1>1, OpenHandle, Zenon
<1>4. CASE worker.pc = "fcommit"
  <2>1. /\ imm = ImmWal(man, wal) /\ imm # {} /\ man.imm # 0 /\ worker.base = man.imm
        /\ worker.num = man.active - 1 /\ worker.data = imm
    BY <1>1, <1>4, OpenHandle, Zenon DEF RInv, WorkerGood, Flushing
  <2>2. worker.num \in FileNum /\ worker.data \in SUBSET SeqNum
    BY <1>1, <1>4, OutputIsNew DEF Flushing
  <2>3. q \in Nat /\ man.active \in Nat
    BY <1>3, EngineAssumption DEF Manifest, FileNum
  <2>4. Numbered(FlushedManifest)
    BY <1>2, <1>3, <2>1, <2>2, <2>3, FlushedGood, Zenon
  <2>5. FlushStateUnchanged
    BY <2>1, <2>3 DEF FlushStateUnchanged
  <2> QED
    BY <1>4, <2>4, <2>5, Zenon DEF WorkerOutputAccepted, Numbered
<1>5. CASE worker.pc = "ccommit"
  <2> DEFINE sel == worker.sel
             n == worker.num
             c == Len(sel)
             m == CompactedManifest(man, sel, n, worker.kept)
  <2>1. /\ c \in 1 .. Len(man.tables) /\ sel = SubSeq(man.tables, 1, c) /\ n < man.next
        /\ n \notin TableNums(man.tables) \cup {man.active, man.imm}
        /\ (man.imm # 0 => n # man.active - 1)
    BY <1>1, <1>5, Zenon DEF RInv, WorkerGood, Compacting
  <2>2. n \in FileNum /\ n <= man.next
    <3>1. n \in FileNum
      BY <1>1, <1>5, OutputIsNew, Zenon DEF Compacting
    <3>2. man.next \in FileNum
      BY <1>3, NumbersTaken, Zenon
    <3>3. n < man.next
      BY <2>1, Zenon
    <3> HIDE DEF n
    <3> QED
      BY <3>1, <3>2, <3>3 DEF FileNum
  <2>3. worker.kept \in BOOLEAN
    BY <1>3 DEF WorkerType
  <2>4. IsCompacted(m, man, sel, n, TRUE) \/ IsCompacted(m, man, sel, n, FALSE)
    <3>1. CASE worker.kept = TRUE
      BY <3>1, Zenon DEF IsCompacted
    <3>2. CASE worker.kept = FALSE
      BY <3>2, Zenon DEF IsCompacted
    <3> QED
      BY <2>3, <3>1, <3>2, Zenon
  <2> HIDE DEF sel, n, c, m
  <2>5. IsTablePrefix(sel, man)
    <3>1. man.tables \in Seq(Table)
      BY <1>3 DEF Manifest
    <3>2. sel \in Seq(Table) /\ Len(sel) = c /\ \A i \in 1 .. c : sel[i] = man.tables[i]
      BY <2>1, <3>1, PrefixOf, Zenon
    <3>3. DOMAIN sel = 1 .. c /\ c <= Len(man.tables)
      BY <2>1, <3>1, <3>2
    <3> QED
      BY <3>2, <3>3 DEF IsTablePrefix
  <2>6. Replaces(m, man, sel, n)
    BY <1>3, <2>1, <2>2, <2>4, CompactedGood, Zenon
  <2>7. ValidateSnapshot(m)
    BY <2>6, Zenon DEF Replaces, Numbered
  <2> QED
    BY <1>5, <2>5, <2>7 DEF WorkerOutputAccepted, sel, n, m
<1> QED
  BY <1>4, <1>5 DEF WorkerOutputAccepted

\* The checks in front of a commit (ImmutableFlushStateUnchanged, IsTablePrefix, the
\* validation in ManifestState::Publish) never reject what the worker built, whatever was
\* written, rotated or compacted since it chose its inputs.
THEOREM WorkerOutputIsAccepted ==
  ASSUME RecoverySetting
  PROVE  Spec => []WorkerOutputAccepted
<1>1. Spec => []RecoveryInv
  BY RecoveryInvariant, PTL
<1>2. RecoveryInv => WorkerOutputAccepted
  BY WorkerOutputFits
<1> QED
  BY <1>1, <1>2, PTL

----------------------------------------------------------------------------
(* Close() and sticky errors.                                              *)

\* A Close() that returns has joined the worker and, unless an error is sticky, left no
\* immutable MemTable behind, in the handle and in the MANIFEST: with any number of threads
\* in Close() while its last sync cannot fail, and with one of them when it can.
THEOREM CloseDrains ==
  ASSUME ClosersAgree
  PROVE  Spec => []ClosedIsDrained
<1> DEFINE Inv == IInv /\ DownIsIdle /\ CloseInv
<1>1. Init => Inv
  <2>1. Init => CloseInv
    <3> SUFFICES ASSUME Init PROVE CloseInv
      OBVIOUS
    <3>1. imm = {} /\ man = InitialManifest /\ worker = IdleWorker /\ ~stop /\ ~closed
      BY Zenon DEF Init
    <3>2. man.imm = 0
      BY <3>1 DEF InitialManifest
    <3>3. worker.pc # "exited"
      BY <3>1 DEF IdleWorker
    <3> QED
      BY <3>1, <3>2, <3>3, Zenon DEF CloseInv, ImmMatches, StopDrained
  <2> QED
    BY <2>1, InitIInv, Zenon
<1>2. Inv /\ [Next]_vars => Inv'
  BY NextIInv, NextClose, Zenon
<1>3. Inv => ClosedIsDrained
  BY DEF CloseInv, StopDrained, Drained, ClosedIsDrained
<1> QED
  BY <1>1, <1>2, <1>3, PTL DEF Spec

\* No step makes an error sticky while file numbers are left.
LEMMA NextErrorFree ==
  ASSUME RecoverySetting, Faults = {}, Closers = {}, RecoveryInv, WorkerOutputAccepted,
         ErrorFree, [Next]_vars
  PROVE  ErrorFree'
<1>1. IInv /\ RInv /\ DownIsIdle /\ proc # "failed"
  BY DEF RecoveryInv, RInv
<1>2. CASE Write \/ WriteStalls \/ StalledSpins \/ StalledResumes
  BY <1>1, <1>2, WriteErrorFree
<1>3. CASE Worker
  <2>1. CASE WorkerPicks \/ WorkerFinishes
    BY <1>1, <2>1, LoopErrorFree
  <2>2. CASE FlushSelects \/ FlushCommits \/ FlushRemovesWal
    BY <1>1, <2>2, FlushErrorFree
  <2>3. CASE CompactSelects \/ CompactKeepsNothing \/ CompactCommits
    BY <1>1, <2>3, CompactionErrorFree
  <2>4. CASE \/ BuildTable("fbuild", "frename", "fdone") \/ BuildTable("cbuild", "crename", "cdone")
             \/ RenameTable("frename", "fsync", "fdone") \/ RenameTable("crename", "csync", "cdone")
             \/ SyncTable("fsync", "fcommit", "fdone") \/ SyncTable("csync", "ccommit", "cdone")
    BY <1>1, <2>4, TableErrorFree DEF TableSteps
  <2> QED
    BY <1>3, <2>1, <2>2, <2>3, <2>4, Zenon DEF Worker
<1>4. CASE CompactCalled \/ CompactCounts \/ CompactRuns
  BY <1>1, <1>4, CompactErrorFree
<1>5. CASE Crash \/ Release
  <2>1. proc' = "down" /\ ~closing' /\ ~closed' /\ ~stop' /\ ~bgErr' /\ worker' = IdleWorker
    BY <1>5, Zenon DEF Crash, Release, NoHandle
  <2> QED
    BY <2>1, Zenon DEF ErrorFree, IdleWorker
<1>6. CASE PowerLoss
  <2>1. proc = "down" /\ UNCHANGED <<proc, bgErr, closing, closed, stop, worker>>
    BY <1>6, Zenon DEF PowerLoss, errors, closeVars
  <2> QED
    BY <2>1, Zenon DEF ErrorFree
<1>7. CASE Open
  <2>1. /\ proc = "down" /\ proc' \in {"up", "failed"}
        /\ UNCHANGED <<bgErr, closing, closed, stop, worker>>
    BY <1>7, Zenon DEF Open, errors, closeVars
  <2>2. worker.ok = TRUE /\ worker.pc = "idle"
    <3>1. worker = IdleWorker
      BY <1>1, <2>1, Zenon DEF DownIsIdle
    <3> QED
      BY <3>1 DEF IdleWorker
  <2> QED
    BY <2>1, <2>2, Zenon DEF ErrorFree, Compacting
<1>8. CASE UNCHANGED vars
  <2>1. UNCHANGED <<proc, disk, man, bgErr, closing, closed, stop, worker>>
    BY <1>8 DEF vars, files, handle, errors, closeVars
  <2> QED
    BY <2>1, Zenon DEF ErrorFree, Compacting
<1> QED
  BY <1>2, <1>3, <1>4, <1>5, <1>6, <1>7, <1>8, Zenon DEF Next

\* When nobody calls Close(), every background error and every terminal error has a failed
\* file-system step or the end of the file numbers behind it: no interleaving of writers,
\* flushes, compactions, Compact(), crashes and reopening makes BackgroundWorkLoop record one
\* on a healthy database.
THEOREM HealthyHasNoErrors ==
  ASSUME RecoverySetting, Closers = {}
  PROVE  Spec => []OnlyFaultsRaiseErrors
<1>1. CASE Faults # {}
  <2>1. ~(Faults \subseteq {"visible"})
    BY <1>1 DEF RecoverySetting
  <2>2. OnlyFaultsRaiseErrors
    BY <2>1 DEF OnlyFaultsRaiseErrors
  <2> QED
    BY <2>2, PTL
<1>2. CASE Faults = {}
  <2>1. Spec => []RecoveryInv
    BY RecoveryInvariant, PTL
  <2>2. Init => ErrorFree
    <3> SUFFICES ASSUME Init PROVE ErrorFree
      OBVIOUS
    <3>1. worker.pc = "idle" /\ worker.ok = TRUE
      BY DEF Init, IdleWorker
    <3>2. ~closing /\ ~closed /\ ~stop /\ ~bgErr
      BY DEF Init
    <3> QED
      BY <3>1, <3>2 DEF ErrorFree, Compacting
  <2>3. RecoveryInv /\ ErrorFree /\ [Next]_vars => ErrorFree'
    BY <1>2, NextErrorFree, WorkerOutputFits
  <2>4. RecoveryInv /\ ErrorFree => OnlyFaultsRaiseErrors
    <3> SUFFICES ASSUME RecoveryInv, ErrorFree, proc = "up", man.next < MaxFile - 1
                 PROVE  ~termErr /\ ~bgErr
      BY DEF OnlyFaultsRaiseErrors
    <3>1. ~termErr
      BY DEF RecoveryInv, RInv, HandleGood
    <3>2. ~(man.next = MaxFile)
      BY EngineAssumption
    <3> QED
      BY <3>1, <3>2 DEF ErrorFree
  <2> QED
    BY <2>1, <2>2, <2>3, <2>4, PTL DEF Spec
<1> QED
  BY <1>1, <1>2

=============================================================================
