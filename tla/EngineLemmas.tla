---------------------------- MODULE EngineLemmas ----------------------------
EXTENDS StorageEngine, FiniteSetTheorems, TLAPS

(***************************************************************************)
(* What the proofs about StorageEngine share: facts about the operators it *)
(* is built from (publication, removal of files, cleanup, tables), the two *)
(* inductive invariants, and what they say of a disk and of the worker.    *)
(*                                                                         *)
(* IInv joins the type invariant, the agreement of the handle's manifest   *)
(* with the MANIFEST on disk, and WorkerShape, what the background worker  *)
(* has in its hands at each of its program points.  WorkerShape is what    *)
(* makes the first two inductive: the manifest of a flush is one only      *)
(* because the flushed memtable is not empty and its file number is a      *)
(* reserved one.                                                           *)
(*                                                                         *)
(* RInv is crash safety.  It says of every directory a crash may leave     *)
(* what a reader of that directory relies on: its files are there and      *)
(* whole, the tables hold the writes up to the manifest's last sequence,   *)
(* the immutable WAL the next ones and the active WAL the rest, and all of *)
(* these directories hold the same writes.  It is inductive only with what *)
(* protects the files between two publications: the numbers a flush and a  *)
(* compaction have in hand are not those of live files, their finished     *)
(* output stays in place, and Compact() cleans up only when no worker is   *)
(* at work.                                                                *)
(***************************************************************************)

----------------------------------------------------------------------------
(* The operators the engine is built from.                                 *)

\* A non-empty set of numbers up to a bound has a largest element, so that Max
\* (the last sequence of a flushed table, next_sequence_ after recovery) is one
\* of them.
LEMMA MaxInSet ==
  ASSUME NEW n \in Nat, NEW S \in SUBSET (0 .. n), S # {}
  PROVE  Max(S) \in S /\ \A x \in S : x <= Max(S)
<1> DEFINE T == {n - x : x \in S}
<1>1. T \subseteq Nat /\ T # {}
  <2>1. \A x \in S : n - x \in Nat
    OBVIOUS
  <2>2. T # {}
    BY Zenon
  <2> QED
    BY <2>1, <2>2
<1>2. PICK t \in T : \A u \in T : <<u, t>> \notin OpToRel(<, Nat)
  <2> HIDE DEF T
  <2> QED
    BY <1>1, WFMin, NatLessThanWellFounded, Zenon
<1>3. PICK m \in S : t = n - m
  OBVIOUS
<1>4. \A x \in S : m >= x
  <2> TAKE x \in S
  <2>1. <<n - x, t>> \notin OpToRel(<, Nat)
    BY <1>2, Zenon
  <2>2. ~ (n - x < t)
    BY <2>1, <1>1 DEF OpToRel
  <2> QED
    BY <2>2, <1>3
<1> QED
  BY <1>4, Zenon DEF Max

\* The directory every process sees is one of those a power loss may leave.
DiskOK(k) == k \in [dir : Dir, hist : SUBSET Dir] /\ k.dir \in k.hist

\* An operation done again on another directory makes it a directory.
LEMMA RedoneType ==
  ASSUME NEW h \in Dir, NEW c \in Dir, NEW d \in Dir
  PROVE  Redone(h, c, d) \in Dir
BY DEF Redone, Dir

\* A directory operation yields the directory it was asked for.
LEMMA TouchOK ==
  ASSUME NEW k, DiskOK(k), NEW d \in Dir
  PROVE  DiskOK(Touch(k, d)) /\ Touch(k, d).dir = d
<1>1. k.dir \in Dir /\ k.hist \subseteq Dir
  BY DEF DiskOK
<1>2. \A h \in k.hist : Redone(h, k.dir, d) \in Dir
  BY <1>1, RedoneType
<1> QED
  BY <1>1, <1>2 DEF DiskOK, Touch

\* SyncDir changes what a power loss may leave, not what processes see.
LEMMA SyncDirOK ==
  ASSUME NEW k, DiskOK(k)
  PROVE  DiskOK(SyncDir(k)) /\ SyncDir(k).dir = k.dir
BY DEF DiskOK, SyncDir

\* So does the fsync of a file.
LEMMA FileSyncOK ==
  ASSUME NEW k, DiskOK(k)
  PROVE  DiskOK(FileSync(k)) /\ FileSync(k).dir = k.dir
BY SyncDirOK DEF FileSync

\* A publication replaces the MANIFEST in the directory, or leaves it alone when
\* it was not published.
LEMMA PublishOK ==
  ASSUME NEW k, DiskOK(k), NEW m \in Manifest,
         NEW o \in {"durable", "not_published", "visible", "crash"}
  PROVE  /\ DiskOK(Publish(k, m, o))
         /\ Publish(k, m, o).dir.man = IF o = "not_published" THEN k.dir.man ELSE m
<1> DEFINE d == [k.dir EXCEPT !.man = m]
           r == Touch(FileSync(k), d)
<1>1. d \in Dir /\ d.man = m
  BY DEF DiskOK, Dir
<1>2. DiskOK(r) /\ r.dir = d
  <2> HIDE DEF d
  <2> QED
    BY <1>1, FileSyncOK, TouchOK
<1>3. DiskOK(SyncDir(r)) /\ SyncDir(r).dir = d
  <2> HIDE DEF r
  <2> QED
    BY <1>2, SyncDirOK
<1> HIDE DEF r
<1> QED
  <2>1. CASE o = "not_published"
    BY <2>1 DEF Publish
  <2>2. CASE o \in {"visible", "crash"}
    <3>1. Publish(k, m, o) = r
      BY <2>2 DEF Publish, r
    <3> QED
      BY <3>1, <2>2, <1>1, <1>2
  <2>3. CASE o = "durable"
    <3>1. Publish(k, m, o) = SyncDir(r)
      BY <2>3 DEF Publish, r
    <3> QED
      BY <3>1, <2>3, <1>1, <1>3
  <2> QED
    BY <2>1, <2>2, <2>3

\* ManifestState::Publish that reports kNotPublished leaves the directory alone.
LEMMA NotPublishedKeeps ==
  ASSUME NEW k, NEW m
  PROVE  Publish(k, m, "not_published") = k
BY DEF Publish

\* Removing files leaves a directory with the same MANIFEST.
LEMMA UnlinkOK ==
  ASSUME NEW d \in Dir, NEW R
  PROVE  Unlink(d, R) \in Dir /\ Unlink(d, R).man = d.man
BY Zenon DEF Unlink, Dir

\* BestEffortRemove and BestEffortSyncDir keep the MANIFEST.
LEMMA RemoveAllOK ==
  ASSUME NEW k, DiskOK(k), NEW R, NEW sync \in BOOLEAN
  PROVE  /\ DiskOK(RemoveAll(k, R, sync))
         /\ RemoveAll(k, R, sync).dir.man = k.dir.man
<1>1. k.dir \in Dir /\ k.hist \subseteq Dir
  BY DEF DiskOK
<1>2. \A S : Unlink(k.dir, S) \in Dir /\ Unlink(k.dir, S).man = k.dir.man
  BY <1>1, UnlinkOK
<1>3. \A h \in k.hist : \A S : Unlink(h, S) \in Dir
  BY <1>1, UnlinkOK
<1>4. k.dir \in k.hist /\ R \in SUBSET R
  BY DEF DiskOK
<1> QED
  BY <1>1, <1>2, <1>3, <1>4 DEF RemoveAll, DiskOK

\* A step that may fail does or does not.
LEMMA MayType ==
  ASSUME NEW f
  PROVE  May(f) \subseteq BOOLEAN
BY Zenon DEF May

\* Writing <num>.sst.tmp keeps the MANIFEST.
LEMMA WrittenTempOK ==
  ASSUME NEW k, DiskOK(k), NEW n \in FileNum
  PROVE  DiskOK(WrittenTemp(k, n)) /\ WrittenTemp(k, n).dir.man = k.dir.man
<1> DEFINE d == [k.dir EXCEPT !.tmp = @ \cup {n}]
<1>1. d \in Dir /\ d.man = k.dir.man
  BY DEF DiskOK, Dir
<1> HIDE DEF d
<1>2. DiskOK(Touch(k, d)) /\ Touch(k, d).dir = d
  BY <1>1, TouchOK
<1>3. WrittenTemp(k, n) = FileSync(Touch(k, d))
  BY DEF WrittenTemp, d
<1> QED
  BY <1>1, <1>2, <1>3, FileSyncOK

\* Renaming it to <num>.sst keeps the MANIFEST.
LEMMA RenamedOK ==
  ASSUME NEW k, DiskOK(k), NEW n \in FileNum, NEW data \in SUBSET SeqNum
  PROVE  DiskOK(Renamed(k, n, data)) /\ Renamed(k, n, data).dir.man = k.dir.man
<1> DEFINE d == [k.dir EXCEPT !.tmp = @ \ {n}, !.sst = [@ EXCEPT ![n] = data]]
<1>1. d \in Dir /\ d.man = k.dir.man
  BY Zenon DEF DiskOK, Dir
<1> HIDE DEF d
<1>2. Renamed(k, n, data) = Touch(k, d)
  BY DEF Renamed, d
<1> QED
  BY <1>1, <1>2, TouchOK

\* Creating the WAL of a rotation keeps the MANIFEST.
LEMMA CreatedWalOK ==
  ASSUME NEW k, DiskOK(k), NEW n \in FileNum
  PROVE  DiskOK(CreatedWal(k, n)) /\ CreatedWal(k, n).dir.man = k.dir.man
<1> DEFINE d == [k.dir EXCEPT !.wal = @ \cup {n}]
<1>1. d \in Dir /\ d.man = k.dir.man
  BY DEF DiskOK, Dir
<1> HIDE DEF d
<1>2. DiskOK(Touch(k, d)) /\ Touch(k, d).dir = d
  BY <1>1, TouchOK
<1>3. CreatedWal(k, n) = FileSync(Touch(k, d))
  BY DEF CreatedWal, d
<1> QED
  BY <1>1, <1>2, <1>3, FileSyncOK

\* Tables hold sequence numbers.
LEMMA TableDataType ==
  ASSUME NEW t \in Seq(Table)
  PROVE  TableData(t) \subseteq SeqNum
<1>1. \A i \in DOMAIN t : t[i] \in Table
  OBVIOUS
<1> QED
  BY <1>1 DEF TableData, Table

\* Tables have file numbers.
LEMMA TableNumsType ==
  ASSUME NEW t \in Seq(Table)
  PROVE  TableNums(t) \subseteq FileNum
<1>1. \A i \in DOMAIN t : t[i] \in Table
  OBVIOUS
<1> QED
  BY <1>1 DEF TableNums, Table

----------------------------------------------------------------------------
(* Types, and the agreement of the handle with the directory.              *)

\* A flush has an immutable MemTable to write and a table number reserved for it;
\* a compaction has reserved a number below the last one.
WorkerShape ==
  /\ worker.pc = "flush" => imm # {}
  /\ worker.pc \in {"fbuild", "frename", "fsync", "fcommit"} =>
       worker.num \in FileNum /\ worker.base \in FileNum /\ worker.data # {}
  /\ worker.pc = "fremove" => worker.base \in FileNum
  /\ worker.pc \in {"cbuild", "crename", "csync", "ccommit"} =>
       worker.num \in FileNum /\ worker.num < MaxFile

IInv == TypeOK /\ WorkerShape /\ HandleMatchesDisk

\* Between two handles there is no background worker.
DownIsIdle == proc = "down" => worker = IdleWorker

WorkerType == [pc : WorkerPCs, num : FileNum \cup {0}, base : FileNum \cup {0},
               sel : Seq(Table), data : SUBSET SeqNum, all : BOOLEAN,
               kept : BOOLEAN, ok : BOOLEAN]

\* The parts of the invariant the worker's steps start from.
LEMMA WorkerStart ==
  ASSUME IInv
  PROVE  /\ DiskOK(disk) /\ man \in Manifest /\ imm \in SUBSET SeqNum
         /\ pending \in SUBSET Path
         /\ termErr \in BOOLEAN /\ bgErr \in BOOLEAN
         /\ flushReq \in BOOLEAN /\ compReq \in BOOLEAN
         /\ worker \in WorkerType /\ WorkerShape /\ HandleMatchesDisk
BY DEF IInv, TypeOK, DiskOK, WorkerType

\* The steps a flush and a compaction share: from where to where, and where a
\* failure leads.
TableSteps == {<<"fbuild", "frename", "fdone">>, <<"frename", "fsync", "fdone">>,
               <<"fsync", "fcommit", "fdone">>, <<"cbuild", "crename", "cdone">>,
               <<"crename", "csync", "cdone">>, <<"csync", "ccommit", "cdone">>}

\* The number and the data of the table in the making.
LEMMA TableInMaking ==
  ASSUME IInv, worker.pc \in {"fbuild", "frename", "fsync", "fcommit",
                              "cbuild", "crename", "csync", "ccommit"}
  PROVE  worker.num \in FileNum /\ worker.data \in SUBSET SeqNum
BY WorkerStart DEF WorkerShape, WorkerType

\* A WAL append keeps the type of the WALs.
LEMMA AppendedType ==
  ASSUME NEW f \in [FileNum -> SUBSET SeqNum], NEW n \in FileNum, NEW q \in SeqNum
  PROVE  Appended(f, n, q) \in [FileNum -> SUBSET SeqNum]
BY DEF Appended

\* The manifest of a flush is one: its floor is the largest sequence flushed.
LEMMA FlushedManifestType ==
  ASSUME man \in Manifest, worker.num \in FileNum, worker.data \in SUBSET SeqNum,
         worker.data # {}
  PROVE  FlushedManifest \in Manifest
<1>1. Max(worker.data) \in SeqNum
  <2>1. worker.data \in SUBSET (0 .. MaxSeq) /\ MaxSeq \in Nat
    BY EngineAssumption DEF SeqNum
  <2>2. Max(worker.data) \in worker.data
    BY <2>1, MaxInSet, Zenon
  <2> QED
    BY <2>2
<1>2. [num |-> worker.num, data |-> worker.data] \in Table
  BY DEF Table
<1>3. Append(man.tables, [num |-> worker.num, data |-> worker.data]) \in Seq(Table)
  BY <1>2 DEF Manifest
<1> QED
  BY <1>1, <1>3, Zenon DEF FlushedManifest, Manifest

\* A number is reserved only below the limit of file numbers.
LEMMA ReservedManifestType ==
  ASSUME man \in Manifest, man.next # MaxFile
  PROVE  ReservedManifest \in Manifest /\ man.next < MaxFile
BY EngineAssumption, SMTT(30) DEF Manifest, FileNum, ReservedManifest

\* The selected tables are tables of the manifest.
LEMMA PrefixType ==
  ASSUME NEW t \in Seq(Table), NEW n \in Nat, n <= Len(t)
  PROVE  SubSeq(t, 1, n) \in Seq(Table) /\ SubSeq(t, n + 1, Len(t)) \in Seq(Table)
<1>1. Len(t) \in Nat
  OBVIOUS
<1>2. 1 \in 1 .. Len(t) + 1 /\ n \in 0 .. Len(t) /\ n + 1 \in 1 .. Len(t) + 1
      /\ Len(t) \in n .. Len(t)
  BY <1>1
<1> QED
  BY <1>1, <1>2

\* The manifest of a compaction is one.
LEMMA CompactedManifestType ==
  ASSUME NEW m \in Manifest, NEW sel \in Seq(Table), Len(sel) <= Len(m.tables),
         NEW n \in FileNum, n < MaxFile, NEW kept \in BOOLEAN
  PROVE  CompactedManifest(m, sel, n, kept) \in Manifest
<1> DEFINE rest == SubSeq(m.tables, Len(sel) + 1, Len(m.tables))
           new == [num |-> n, data |-> TableData(sel)]
<1>1. m.tables \in Seq(Table) /\ Len(sel) \in Nat
  BY DEF Manifest
<1>2. rest \in Seq(Table)
  BY <1>1, PrefixType
<1>3. TableData(sel) \in SUBSET SeqNum
  BY TableDataType
<1>4. new \in Table
  BY <1>3 DEF Table
<1>5. n + 1 \in FileNum
  BY EngineAssumption DEF FileNum
<1>6. CASE kept
  <2> HIDE DEF rest, new
  <2>1. <<new>> \in Seq(Table)
    BY <1>4
  <2>2. <<new>> \o rest \in Seq(Table)
    BY <1>2, <2>1
  <2>3. CompactedManifest(m, sel, n, kept)
          = [m EXCEPT !.tables = <<new>> \o rest, !.next = IF @ = n THEN n + 1 ELSE @]
    BY <1>6 DEF CompactedManifest, rest, new
  <2> QED
    BY <1>5, <2>2, <2>3, Zenon DEF Manifest
<1>7. CASE ~kept
  <2> HIDE DEF rest
  <2>1. CompactedManifest(m, sel, n, kept)
          = [m EXCEPT !.tables = rest, !.dead = @ \cup TableData(sel),
                      !.next = IF @ = n + 1 THEN n ELSE @]
    BY <1>7 DEF CompactedManifest, rest
  <2> QED
    BY <1>2, <1>3, <2>1, Zenon DEF Manifest
<1> QED
  BY <1>6, <1>7

----------------------------------------------------------------------------
(* Crash safety: the setting and the invariant.                            *)

\* Callers leave Compact() alone (CompactGap.cfg shows what happens otherwise), no
\* publication stays visible without being durable, no unlink fails, and when the
\* machine may lose power writes are synced on a file system with an ordered journal.
RecoverySetting ==
  /\ QuietCompact /\ Faults \cap {"visible", "remove"} = {}
  /\ PowerFails => SyncOnWrite /\ JournaledDir

ImmWal(m, w) == IF m.imm = 0 THEN {} ELSE w[m.imm]

\* Manifest m and the WALs w hold the writes 1 .. q, in order.
Holds(m, w, q) ==
  /\ TableData(m.tables) \cup m.dead = 1 .. m.last
  /\ \E p \in m.last .. q :
       /\ ImmWal(m, w) = (m.last + 1) .. p /\ (m.imm # 0 => m.last < p)
       /\ w[m.active] = (p + 1) .. q

\* Every table has data, and a number is reserved for the flush of the immutable WAL.
Numbered(m) ==
  /\ ValidateSnapshot(m)
  /\ \A i \in DOMAIN m.tables : m.tables[i].data # {}
  /\ m.imm # 0 => m.imm < m.active - 1 /\ m.active - 1 \notin TableNums(m.tables)

\* The files the manifest names are there, and the tables are whole.
Present(d) ==
  /\ \A i \in DOMAIN d.man.tables : d.sst[d.man.tables[i].num] = d.man.tables[i].data
  /\ d.man.active \in d.wal /\ (d.man.imm # 0 => d.man.imm \in d.wal)

Good(d, w, q) == Numbered(d.man) /\ Present(d) /\ Holds(d.man, w, q)

\* The directories a crash may leave all hold the same writes.
ImagesGood ==
  \E q \in 0 .. MaxSeq - 1 :
    /\ acked \subseteq 1 .. q
    /\ \A d \in Images : Good(d, wal, q)
    /\ proc = "up" => nextSeq = q + 1

WalsSynced == (\A n \in FileNum : synced[n] \subseteq wal[n]) /\ (SyncOnWrite => synced = wal)

HandleGood ==
  proc = "up" =>
    /\ man = disk.dir.man /\ ~termErr /\ pending = {}
    /\ mem = wal[man.active] /\ imm = ImmWal(man, wal)

Flushing   == worker.pc \in {"fbuild", "frename", "fsync", "fcommit"}
Compacting == worker.pc \in {"cbuild", "crename", "csync", "ccommit"}
OutputInPlace ==
  worker.pc \in {"fsync", "fcommit", "csync"} \/ (worker.pc = "ccommit" /\ worker.kept)

WorkerGood ==
  /\ ~Flushing /\ ~Compacting => worker.num = 0
  /\ compReq \/ worker.pc = "compact" => Trigger # 0
  /\ proc = "up" =>
       /\ Flushing =>
            /\ man.imm # 0 /\ worker.base = man.imm /\ worker.num = man.active - 1
            /\ worker.data = imm
       /\ Compacting =>
            /\ Len(worker.sel) \in 1 .. Len(man.tables)
            /\ worker.sel = SubSeq(man.tables, 1, Len(worker.sel))
            /\ worker.data = TableData(worker.sel)
            /\ worker.num < man.next
            /\ worker.num \notin TableNums(man.tables) \cup {man.active, man.imm}
            /\ man.imm # 0 => worker.num # man.active - 1
       /\ OutputInPlace => disk.dir.sst[worker.num] = worker.data
       /\ worker.pc = "fremove" => worker.base < man.active /\ worker.base # man.imm

\* Nobody writes or closes under a Compact(), and it counts the tables of a resting worker.
QuietGood ==
  /\ compactor.pc # "idle" => writer = "idle" /\ \A c \in Closers : closer[c] = "idle"
  /\ stop => closed \/ \E c \in Closers : closer[c] = "join"
  /\ compactor.pc = "gap" =>
       ~Flushing /\ ~Compacting /\ worker.pc \in {"idle", "exited"} /\ ~flushReq /\ ~compReq /\ ~stop

RInv == ImagesGood /\ WalsSynced /\ HandleGood /\ WorkerGood /\ QuietGood /\ proc # "failed"

----------------------------------------------------------------------------
(* Directories.                                                            *)

\* What a crash may leave of disk k.
ImagesOf(k) == IF PowerFails THEN k.hist ELSE {k.dir}
Safe(k, w, q) == \A d \in ImagesOf(k) : Good(d, w, q)

\* The files a manifest names.
Live(m) == {<<"wal", m.active>>, <<"wal", m.imm>>} \cup {<<"sst", n>> : n \in TableNums(m.tables)}

\* The directory in use is one of the images.
LEMMA SafeDir ==
  ASSUME NEW k, DiskOK(k), NEW w, NEW q, Safe(k, w, q)
  PROVE  Good(k.dir, w, q)
BY DEF Safe, ImagesOf, DiskOK

\* With a journal, a directory operation adds one image.
LEMMA SafeTouch ==
  ASSUME RecoverySetting, NEW k, NEW w, NEW q, Safe(k, w, q), NEW d, Good(d, w, q)
  PROVE  Safe(Touch(k, d), w, q)
<1>1. Touch(k, d).dir = d /\ (PowerFails => Touch(k, d).hist = k.hist \cup {d})
  BY DEF Touch, RecoverySetting
<1> QED
  BY <1>1 DEF Safe, ImagesOf

\* SyncDir leaves one image.
LEMMA SafeSyncDir ==
  ASSUME NEW k, NEW w, NEW q, Good(k.dir, w, q)
  PROVE  Safe(SyncDir(k), w, q)
<1>1. SyncDir(k).dir = k.dir /\ SyncDir(k).hist = {k.dir}
  BY DEF SyncDir
<1> QED
  BY <1>1 DEF Safe, ImagesOf

\* With an ordered journal the fsync of a file leaves one directory.
LEMMA SafeFileSync ==
  ASSUME RecoverySetting, NEW k, NEW w, NEW q, Good(k.dir, w, q)
  PROVE  Safe(FileSync(k), w, q)
<1>1. CASE JournaledDir
  BY <1>1, SafeSyncDir DEF FileSync
<1>2. CASE ~JournaledDir
  BY <1>2 DEF FileSync, RecoverySetting, Safe, ImagesOf
<1> QED
  BY <1>1, <1>2

\* A crash in a publication leaves the old MANIFEST or the new one.
LEMMA SafePublish ==
  ASSUME RecoverySetting, NEW k, DiskOK(k), NEW w, NEW q, NEW m \in Manifest,
         NEW o \in {"durable", "not_published", "crash"},
         o = "not_published" => Safe(k, w, q),
         o = "crash" => Good(k.dir, w, q),
         o # "not_published" => Good([k.dir EXCEPT !.man = m], w, q)
  PROVE  Safe(Publish(k, m, o), w, q)
<1> DEFINE d == [k.dir EXCEPT !.man = m]
           r == Touch(FileSync(k), d)
<1>1. CASE o = "not_published"
  BY <1>1, NotPublishedKeeps
<1>2. CASE o = "crash"
  <2>1. Publish(k, m, o) = r
    BY <1>2 DEF Publish
  <2>2. Safe(FileSync(k), w, q) /\ Good(d, w, q)
    BY <1>2, SafeFileSync
  <2> HIDE DEF d
  <2> QED
    BY <2>1, <2>2, SafeTouch
<1>3. CASE o = "durable"
  <2>1. Publish(k, m, o) = SyncDir(r) /\ Good(d, w, q)
    BY <1>3 DEF Publish
  <2>2. r.dir = d
    BY DEF Touch
  <2> HIDE DEF r, d
  <2> QED
    BY <2>1, <2>2, SafeSyncDir
<1> QED
  BY <1>1, <1>2, <1>3

\* Where a publication leaves the directory.
LEMMA PublishDir ==
  ASSUME NEW k, DiskOK(k), NEW m \in Manifest, NEW o \in {"durable", "not_published", "crash"}
  PROVE  /\ Publish(k, m, o).dir.sst = k.dir.sst /\ Publish(k, m, o).dir.wal = k.dir.wal
         /\ o = "not_published" => Publish(k, m, o).dir.man = k.dir.man
         /\ o # "not_published" => Publish(k, m, o).dir.man = m
<1> DEFINE d == [k.dir EXCEPT !.man = m]
<1>1. d.sst = k.dir.sst /\ d.wal = k.dir.wal /\ d.man = m
  BY DEF DiskOK, Dir
<1>2. Publish(k, m, o).dir = IF o = "not_published" THEN k.dir ELSE d
  BY DEF Publish, Touch, SyncDir
<1> HIDE DEF d
<1> QED
  BY <1>1, <1>2

\* Directories that differ in files the manifest does not name.
LEMMA GoodSame ==
  ASSUME NEW d, NEW e, NEW w, NEW q, Good(d, w, q), e.man = d.man,
         \A n \in TableNums(d.man.tables) : e.sst[n] = d.sst[n],
         d.man.active \in e.wal, d.man.imm # 0 => d.man.imm \in e.wal
  PROVE  Good(e, w, q)
<1>1. \A i \in DOMAIN d.man.tables : d.man.tables[i].num \in TableNums(d.man.tables)
  BY DEF TableNums
<1> QED
  BY <1>1 DEF Good, Present

\* Unlinking files that the manifest does not name keeps a directory good.
LEMMA GoodUnlink ==
  ASSUME NEW d \in Dir, NEW w, NEW q, Good(d, w, q), NEW S, S \cap Live(d.man) = {}
  PROVE  Good(Unlink(d, S), w, q)
<1> DEFINE e == Unlink(d, S)
<1>1. /\ e.man = d.man /\ e.wal = {n \in d.wal : <<"wal", n>> \notin S}
      /\ e.sst = [n \in FileNum |-> IF <<"sst", n>> \in S THEN {} ELSE d.sst[n]]
  BY DEF Unlink, Dir
<1>2. <<"wal", d.man.active>> \notin S /\ <<"wal", d.man.imm>> \notin S
      /\ \A n \in TableNums(d.man.tables) : <<"sst", n>> \notin S
  BY DEF Live
<1>3. d.man.tables \in Seq(Table)
  BY DEF Dir, Manifest
<1>4. TableNums(d.man.tables) \subseteq FileNum
  BY <1>3, TableNumsType
<1>5. d.man.active \in d.wal /\ (d.man.imm # 0 => d.man.imm \in d.wal)
  BY DEF Good, Present
<1> HIDE DEF e
<1>6. \A n \in TableNums(d.man.tables) : e.sst[n] = d.sst[n]
  BY <1>1, <1>2, <1>4, Zenon
<1>7. d.man.active \in e.wal /\ (d.man.imm # 0 => d.man.imm \in e.wal)
  BY <1>1, <1>2, <1>5
<1>8. Good(e, w, q)
  BY <1>1, <1>6, <1>7, GoodSame, Zenon
<1> QED
  BY <1>8 DEF e

\* BestEffortRemove of dead files, whichever of the unlinks reach the disk.
LEMMA SafeRemoveAll ==
  ASSUME RecoverySetting, NEW k, DiskOK(k), NEW w, NEW q, Safe(k, w, q), NEW R, R \cap Live(k.dir.man) = {},
         NEW sync \in BOOLEAN
  PROVE  Safe(RemoveAll(k, R, sync), w, q) /\ RemoveAll(k, R, sync).dir = Unlink(k.dir, R)
<1>1. Good(k.dir, w, q) /\ k.dir \in Dir
  BY SafeDir DEF DiskOK
<1>2. ASSUME NEW S \in SUBSET R PROVE Good(Unlink(k.dir, S), w, q)
  <2>1. S \cap Live(k.dir.man) = {}
    BY Zenon
  <2> QED
    BY <1>1, <2>1, GoodUnlink
<1>3. Good(Unlink(k.dir, R), w, q)
  BY <1>2
<1>4. CASE PowerFails
  BY <1>2, <1>3, <1>4 DEF RemoveAll, Safe, ImagesOf, RecoverySetting
<1>5. CASE ~PowerFails
  BY <1>3, <1>5 DEF RemoveAll, Safe, ImagesOf
<1> QED
  BY <1>4, <1>5

\* No removal fails.
LEMMA NoFailures ==
  ASSUME RecoverySetting, NEW R
  PROVE  Failures(R) = {{}}
BY DEF RecoverySetting, Failures

\* CleanupObsoleteFiles lists no file that the manifest names.
LEMMA ObsoleteIsDead ==
  ASSUME NEW d, NEW m
  PROVE  Obsolete(d, m) \cap Live(m) = {}
BY DEF Obsolete, Live

\* Orphan cleanup leaves what the MANIFEST names.
LEMMA SafeCleanup ==
  ASSUME RecoverySetting, NEW k, DiskOK(k), NEW w, NEW q, Safe(k, w, q),
         NEW c \in CleanupObsoleteFiles(k, {}, k.dir.man)
  PROVE  Safe(c.disk, w, q) /\ c.failed = {} /\ DiskOK(c.disk) /\ c.disk.dir.man = k.dir.man
<1> DEFINE m == k.dir.man
           gone(F) == {} \ F
           rest(F, listed) == IF listed THEN Obsolete(k.dir, m) \ gone(F) ELSE {}
           res(F, listed, again, sync) ==
             [disk |-> RemoveAll(k, gone(F) \cup (rest(F, listed) \ again), sync),
              failed |-> F \cup again]
           one(F, listed) ==
             {res(F, listed, again, sync) :
                again \in Failures(rest(F, listed)), sync \in May("cleanup_sync")}
<1>1. PICK F \in Failures({}), listed \in May("list") : c \in one(F, listed)
  <2>1. CleanupObsoleteFiles(k, {}, m)
          = UNION {one(F, listed) : F \in Failures({}), listed \in May("list")}
    BY DEF CleanupObsoleteFiles
  <2> HIDE DEF one
  <2> QED
    BY <2>1
<1>2. PICK again \in Failures(rest(F, listed)), sync \in May("cleanup_sync") :
        c = res(F, listed, again, sync)
  <2> HIDE DEF rest, gone, res
  <2> QED
    BY <1>1
<1>3. F = {} /\ again = {} /\ sync \in BOOLEAN
  BY NoFailures, MayType
<1> DEFINE R == gone(F) \cup (rest(F, listed) \ again)
<1>4. c.disk = RemoveAll(k, R, sync) /\ c.failed = {}
  <2> HIDE DEF rest, gone
  <2> QED
    BY <1>2, <1>3
<1>5. R \cap Live(m) = {}
  BY ObsoleteIsDead
<1> HIDE DEF R
<1>6. Safe(c.disk, w, q)
  BY <1>3, <1>4, <1>5, SafeRemoveAll
<1>7. DiskOK(c.disk) /\ c.disk.dir.man = k.dir.man
  BY <1>3, <1>4, RemoveAllOK
<1> QED
  BY <1>4, <1>6, <1>7

\* The removal of a flushed WAL or of compacted tables.
LEMMA SafeRemovals ==
  ASSUME RecoverySetting, NEW k, DiskOK(k), NEW w, NEW q, Safe(k, w, q),
         NEW R, R \cap Live(k.dir.man) = {}, NEW r \in Removals(k, R)
  PROVE  Safe(r.disk, w, q) /\ r.failed = {} /\ r.disk.dir = Unlink(k.dir, R)
<1>1. PICK failed \in Failures(R), sync \in May("cleanup_sync") :
        r = [disk |-> RemoveAll(k, R \ failed, sync), failed |-> failed]
  BY DEF Removals
<1>2. failed = {} /\ R \ failed = R /\ sync \in BOOLEAN
  BY NoFailures, MayType
<1>3. r.disk = RemoveAll(k, R, sync) /\ r.failed = {} /\ sync \in BOOLEAN
  BY <1>1, <1>2
<1> QED
  BY <1>3, SafeRemoveAll

\* A new WAL, a temporary file and a table under a number that no live file has.
LEMMA SafeCreatedWal ==
  ASSUME RecoverySetting, NEW k, DiskOK(k), NEW w, NEW q, Good(k.dir, w, q), NEW n \in FileNum
  PROVE  /\ Safe(CreatedWal(k, n), w, q)
         /\ CreatedWal(k, n).dir = [k.dir EXCEPT !.wal = @ \cup {n}]
<1> DEFINE d == [k.dir EXCEPT !.wal = @ \cup {n}]
<1>1. d.man = k.dir.man /\ d.sst = k.dir.sst /\ d.wal = k.dir.wal \cup {n}
  BY DEF DiskOK, Dir
<1>2. Touch(k, d).dir = d
  BY DEF Touch
<1>3. CreatedWal(k, n) = FileSync(Touch(k, d))
  BY DEF CreatedWal
<1>4. FileSync(Touch(k, d)).dir = d
  BY DEF FileSync, Touch, SyncDir
<1> HIDE DEF d
<1>5. k.dir.man.active \in k.dir.wal /\ (k.dir.man.imm # 0 => k.dir.man.imm \in k.dir.wal)
  BY DEF Good, Present
<1>6. Good(d, w, q)
  BY <1>1, <1>5, GoodSame
<1>7. Safe(CreatedWal(k, n), w, q)
  BY <1>2, <1>3, <1>6, SafeFileSync
<1> QED
  BY <1>3, <1>4, <1>7 DEF d

\* SSTableBuilder writes a temporary file.
LEMMA SafeWrittenTemp ==
  ASSUME RecoverySetting, NEW k, DiskOK(k), NEW w, NEW q, Good(k.dir, w, q), NEW n \in FileNum
  PROVE  /\ Safe(WrittenTemp(k, n), w, q)
         /\ WrittenTemp(k, n).dir.sst = k.dir.sst
<1> DEFINE d == [k.dir EXCEPT !.tmp = @ \cup {n}]
<1>1. d.man = k.dir.man /\ d.sst = k.dir.sst /\ d.wal = k.dir.wal
  BY DEF DiskOK, Dir
<1>2. Touch(k, d).dir = d
  BY DEF Touch
<1>3. WrittenTemp(k, n) = FileSync(Touch(k, d))
  BY DEF WrittenTemp
<1>4. FileSync(Touch(k, d)).dir = d
  BY DEF FileSync, Touch, SyncDir
<1> HIDE DEF d
<1>5. k.dir.man.active \in k.dir.wal /\ (k.dir.man.imm # 0 => k.dir.man.imm \in k.dir.wal)
  BY DEF Good, Present
<1>6. Good(d, w, q)
  BY <1>1, <1>5, GoodSame
<1>7. Safe(WrittenTemp(k, n), w, q)
  BY <1>2, <1>3, <1>6, SafeFileSync
<1> QED
  BY <1>1, <1>3, <1>4, <1>7

\* The rename of a temporary file to a table that no manifest names yet.
LEMMA SafeRenamed ==
  ASSUME RecoverySetting, NEW k, DiskOK(k), NEW w, NEW q, Safe(k, w, q), NEW n \in FileNum,
         n \notin TableNums(k.dir.man.tables), NEW data \in SUBSET SeqNum
  PROVE  /\ Safe(Renamed(k, n, data), w, q)
         /\ Renamed(k, n, data).dir.sst[n] = data
<1> DEFINE d == [k.dir EXCEPT !.tmp = @ \ {n}, !.sst = [@ EXCEPT ![n] = data]]
<1>1. d.man = k.dir.man /\ d.sst = [k.dir.sst EXCEPT ![n] = data] /\ d.wal = k.dir.wal
  BY DEF DiskOK, Dir
<1>2. Renamed(k, n, data) = Touch(k, d) /\ Touch(k, d).dir = d
  BY DEF Renamed, Touch
<1> HIDE DEF d
<1>3. k.dir.sst \in [FileNum -> SUBSET SeqNum] /\ k.dir.man.tables \in Seq(Table)
  BY DEF DiskOK, Dir, Manifest
<1>4. /\ \A i \in TableNums(k.dir.man.tables) : d.sst[i] = k.dir.sst[i]
      /\ d.sst[n] = data
  BY <1>1, <1>3, TableNumsType
<1>5. k.dir.man.active \in k.dir.wal /\ (k.dir.man.imm # 0 => k.dir.man.imm \in k.dir.wal)
      /\ Good(k.dir, w, q)
  BY SafeDir, Zenon DEF Good, Present
<1>6. Good(d, w, q)
  BY <1>1, <1>4, <1>5, GoodSame, Zenon
<1>7. Safe(Touch(k, d), w, q)
  BY <1>6, SafeTouch
<1> QED
  BY <1>1, <1>2, <1>4, <1>7, Zenon

\* The same for every table that may be renamed.
RenamedIsSafe(k, w, q) ==
  \A n \in FileNum, data \in SUBSET SeqNum :
    n \notin TableNums(k.dir.man.tables) =>
      /\ Safe(Renamed(k, n, data), w, q)
      /\ Renamed(k, n, data).dir.sst[n] = data

\* Renaming a finished table over a number the MANIFEST does not name is safe.
LEMMA RenamesAreSafe ==
  ASSUME RecoverySetting, NEW k, DiskOK(k), NEW w, NEW q, Safe(k, w, q)
  PROVE  RenamedIsSafe(k, w, q)
BY SafeRenamed DEF RenamedIsSafe

----------------------------------------------------------------------------
(* Manifests.                                                              *)

\* The numbers and the data of the tables of a manifest have their types.
LEMMA NumsOfTables ==
  ASSUME NEW m \in Manifest
  PROVE  /\ m.tables \in Seq(Table) /\ TableNums(m.tables) \subseteq Nat
         /\ \A i \in DOMAIN m.tables :
              /\ m.tables[i].num \in TableNums(m.tables) /\ m.tables[i] \in Table
              /\ m.tables[i].num \in FileNum /\ m.tables[i].data \subseteq SeqNum
<1>1. m.tables \in Seq(Table)
  BY DEF Manifest
<1>2. TableNums(m.tables) \subseteq FileNum /\ FileNum \subseteq Nat
  BY <1>1, TableNumsType, EngineAssumption DEF FileNum
<1>3. \A i \in DOMAIN m.tables : m.tables[i].num \in TableNums(m.tables)
  BY DEF TableNums
<1>4. \A i \in DOMAIN m.tables : m.tables[i] \in Table
  BY <1>1
<1>5. \A i \in DOMAIN m.tables : m.tables[i].num \in FileNum /\ m.tables[i].data \subseteq SeqNum
  BY <1>4 DEF Table
<1> QED
  BY <1>1, <1>2, <1>3, <1>4, <1>5, Zenon

\* The tables of a valid manifest have numbers of their own, below the next one.
LEMMA NumbersTaken ==
  ASSUME NEW m \in Manifest, Numbered(m)
  PROVE  /\ m.active < m.next /\ m.imm < m.next /\ m.imm # m.active
         /\ \A n \in TableNums(m.tables) : n < m.next /\ n # m.active /\ n # m.imm
         /\ m.next \notin TableNums(m.tables)
         /\ m.next \in FileNum /\ m.active \in FileNum /\ m.imm \in FileNum \cup {0}
<1>1. m.next \in FileNum /\ m.active \in FileNum /\ m.imm \in FileNum \cup {0}
      /\ m.tables \in Seq(Table)
  BY DEF Manifest
<1>2. m.active < m.next /\ m.imm < m.next /\ m.imm # m.active
  BY <1>1, EngineAssumption DEF Numbered, ValidateSnapshot, FileNum
<1>3. \A n \in TableNums(m.tables) : n < m.next /\ n # m.active /\ n # m.imm
  BY DEF Numbered, ValidateSnapshot, TableNums
<1>4. m.next \notin TableNums(m.tables)
  BY <1>1, <1>3, EngineAssumption DEF FileNum
<1> QED
  BY <1>1, <1>2, <1>3, <1>4

\* A flush or a compaction that takes a file number changes nothing that recovery reads.
LEMMA ReservedGood ==
  ASSUME man \in Manifest, Numbered(man)
  PROVE  /\ Numbered(ReservedManifest)
         /\ \A w, q : Holds(man, w, q) => Holds(ReservedManifest, w, q)
<1> DEFINE m == ReservedManifest
<1>1. /\ m.active = man.active /\ m.imm = man.imm /\ m.last = man.last /\ m.next = man.next + 1
      /\ m.tables = man.tables /\ m.dead = man.dead
  BY DEF ReservedManifest, Manifest
<1> HIDE DEF m
<1>2. /\ man.next \in Nat /\ man.active \in Nat /\ man.imm \in Nat
      /\ man.active < man.next /\ man.imm < man.next
  BY NumbersTaken, EngineAssumption DEF FileNum
<1>3. /\ \A i \in DOMAIN man.tables : man.tables[i].num \in TableNums(man.tables)
      /\ TableNums(man.tables) \subseteq Nat
  BY NumsOfTables
<1>4. \A i \in DOMAIN man.tables : man.tables[i].num < man.next + 1
  <2>1. \A n \in TableNums(man.tables) : n \in Nat /\ n < man.next
    BY <1>3, NumbersTaken, Zenon
  <2>2. \A n \in TableNums(man.tables) : n < man.next + 1
    <3>1. \A n, k \in Nat : n < k => n < k + 1
      OBVIOUS
    <3> QED
      BY <1>2, <2>1, <3>1, Zenon
  <2> QED
    BY <1>3, <2>2, Zenon
<1>5. Numbered(m)
  <2>1. man.next + 1 > man.active /\ man.next + 1 > man.imm
    BY <1>2
  <2>2. ValidateSnapshot(man)
    BY Zenon DEF Numbered
  <2>3. ValidateSnapshot(m)
    <3>1. /\ m.imm # m.active /\ m.next > m.active /\ m.next > m.imm
      BY <1>1, <2>1, <2>2, Zenon DEF ValidateSnapshot
    <3>2. \A i \in DOMAIN m.tables :
            /\ m.tables[i].num \notin {m.active, m.imm} /\ m.tables[i].num < m.next
            /\ \A s \in m.tables[i].data : s <= m.last
      BY <1>1, <1>4, <2>2, Zenon DEF ValidateSnapshot
    <3>3. \A i \in DOMAIN m.tables : \A j \in DOMAIN m.tables : i < j =>
            /\ m.tables[i].num # m.tables[j].num
            /\ \A s \in m.tables[i].data, t \in m.tables[j].data : s < t
      BY <1>1, <2>2, Zenon DEF ValidateSnapshot
    <3> QED
      BY <3>1, <3>2, <3>3, Zenon DEF ValidateSnapshot
  <2> QED
    BY <1>1, <2>3, Zenon DEF Numbered
<1>6. \A w, q : Holds(man, w, q) => Holds(m, w, q)
  BY <1>1 DEF Holds, ImmWal
<1> QED
  BY <1>5, <1>6 DEF m

\* A table appended to the others.
LEMMA AppendedTable ==
  ASSUME NEW t \in Seq(Table), NEW x \in Table
  PROVE  /\ TableData(Append(t, x)) = TableData(t) \cup x.data
         /\ TableNums(Append(t, x)) = TableNums(t) \cup {x.num}
         /\ DOMAIN Append(t, x) = DOMAIN t \cup {Len(t) + 1}
         /\ Append(t, x)[Len(t) + 1] = x
         /\ \A i \in DOMAIN t : Append(t, x)[i] = t[i] /\ i \in Nat /\ i < Len(t) + 1
<1> DEFINE u == Append(t, x)
<1>1. /\ DOMAIN u = DOMAIN t \cup {Len(t) + 1} /\ u[Len(t) + 1] = x
      /\ \A i \in DOMAIN t : u[i] = t[i] /\ i \in Nat /\ i < Len(t) + 1
  OBVIOUS
<1> HIDE DEF u
<1>2. TableData(u) = TableData(t) \cup x.data
  BY <1>1 DEF TableData
<1>3. TableNums(u) = TableNums(t) \cup {x.num}
  BY <1>1 DEF TableNums
<1> QED
  BY <1>1, <1>2, <1>3 DEF u

\* The largest of a range of sequence numbers.
LEMMA MaxOfRange ==
  ASSUME NEW a \in Nat, NEW b \in Nat, a <= b
  PROVE  Max(a .. b) = b
<1>1. a .. b \in SUBSET (0 .. b) /\ b \in a .. b
  OBVIOUS
<1>2. Max(a .. b) \in a .. b /\ \A x \in a .. b : x <= Max(a .. b)
  BY <1>1, MaxInSet, Zenon
<1> QED
  BY <1>1, <1>2

\* FlushImmutableMemTable: the table takes the place of the immutable WAL.
LEMMA FlushedGood ==
  ASSUME man \in Manifest, Numbered(man), NEW w, NEW q \in Nat, Holds(man, w, q),
         man.imm # 0, worker.data = ImmWal(man, w), worker.data \in SUBSET SeqNum,
         worker.num \in FileNum, worker.num = man.active - 1
  PROVE  Numbered(FlushedManifest) /\ Holds(FlushedManifest, w, q)
<1> DEFINE m == FlushedManifest
           x == [num |-> worker.num, data |-> worker.data]
<1>1. /\ m.active = man.active /\ m.imm = 0 /\ m.last = Max(worker.data) /\ m.next = man.next
      /\ m.tables = Append(man.tables, x) /\ m.dead = man.dead
  BY DEF FlushedManifest, Manifest
<1>2. x \in Table /\ x.num = worker.num /\ x.data = worker.data /\ man.tables \in Seq(Table)
  BY DEF Table, Manifest
<1> HIDE DEF m, x
<1>3. /\ TableData(m.tables) = TableData(man.tables) \cup x.data
      /\ TableNums(m.tables) = TableNums(man.tables) \cup {x.num}
      /\ DOMAIN m.tables = DOMAIN man.tables \cup {Len(man.tables) + 1}
      /\ m.tables[Len(man.tables) + 1] = x
      /\ \A i \in DOMAIN man.tables : m.tables[i] = man.tables[i] /\ i \in Nat /\ i < Len(man.tables) + 1
  BY <1>1, <1>2, AppendedTable
<1>4. PICK p \in man.last .. q :
        /\ ImmWal(man, w) = (man.last + 1) .. p /\ man.last < p
        /\ w[man.active] = (p + 1) .. q
  BY DEF Holds
<1>5. man.last \in Nat /\ p \in Nat /\ man.active \in Nat /\ man.next \in Nat /\ man.active < man.next
  <2>1. man.last \in SeqNum \cup {0} /\ man.active \in FileNum /\ man.next \in FileNum
    BY DEF Manifest
  <2>2. man.active < man.next
    BY NumbersTaken, Zenon
  <2>3. man.last \in Nat /\ man.active \in Nat /\ man.next \in Nat
    BY <2>1, EngineAssumption DEF SeqNum, FileNum
  <2> QED
    BY <1>4, <2>2, <2>3
<1>6. m.last = p /\ x.data = (man.last + 1) .. p
  <2>1. Max((man.last + 1) .. p) = p
    <3>1. man.last + 1 \in Nat /\ man.last + 1 <= p
      BY <1>4, <1>5
    <3> QED
      BY <1>5, <3>1, MaxOfRange
  <2> QED
    BY <1>1, <1>2, <1>4, <2>1
<1>7. TableData(man.tables) \cup man.dead = 1 .. man.last
  BY DEF Holds
<1>8. Holds(m, w, q)
  <2>1. TableData(m.tables) \cup m.dead = 1 .. m.last
    <3>1. 1 .. man.last \cup (man.last + 1) .. p = 1 .. p
      BY <1>4, <1>5
    <3> QED
      BY <1>1, <1>3, <1>6, <1>7, <3>1
  <2>2. ImmWal(m, w) = (m.last + 1) .. p /\ p \in m.last .. q /\ w[m.active] = (p + 1) .. q
    BY <1>1, <1>4, <1>5, <1>6 DEF ImmWal
  <2> QED
    BY <1>1, <2>1, <2>2 DEF Holds
<1>9. ASSUME NEW i \in DOMAIN m.tables
      PROVE  /\ m.tables[i].num \notin {m.active, m.imm}
             /\ m.tables[i].num < m.next
             /\ \A s \in m.tables[i].data : s <= m.last
             /\ m.tables[i].data # {}
  <2>1. CASE i = Len(man.tables) + 1
    <3>1. x.num # man.active /\ x.num < man.next /\ x.num # 0
      BY <1>2, <1>5, EngineAssumption DEF FileNum
    <3>2. p \in x.data /\ \A s \in x.data : s <= p
      BY <1>4, <1>5, <1>6
    <3> QED
      BY <1>1, <1>3, <1>6, <2>1, <3>1, <3>2, Zenon
  <2>2. CASE i \in DOMAIN man.tables
    <3>1. /\ man.tables[i].num \in FileNum /\ man.tables[i].data \subseteq SeqNum
      BY <2>2, NumsOfTables
    <3>2. /\ man.tables[i].num \notin {man.active, man.imm} /\ man.tables[i].num < man.next
          /\ \A s \in man.tables[i].data : s <= man.last
          /\ man.tables[i].data # {}
      BY <2>2 DEF Numbered, ValidateSnapshot
    <3>3. \A s \in man.tables[i].data : s <= p
      <4>1. \A a, b, c \in Nat : a <= b /\ b < c => a <= c
        OBVIOUS
      <4>2. SeqNum \subseteq Nat
        BY EngineAssumption DEF SeqNum
      <4>3. man.last \in Nat /\ p \in Nat /\ man.last < p
        BY <1>4, <1>5, Zenon
      <4>4. \A s \in man.tables[i].data : s \in Nat /\ s <= man.last
        BY <3>1, <3>2, <4>2, Zenon
      <4> QED
        BY <4>1, <4>3, <4>4, Zenon
    <3>4. m.tables[i] = man.tables[i]
      BY <1>3, <2>2, Zenon
    <3>5. man.tables[i].num # 0
      BY <3>1, EngineAssumption DEF FileNum
    <3> QED
      BY <1>1, <1>6, <3>2, <3>3, <3>4, <3>5, Zenon
  <2> QED
    BY <1>3, <2>1, <2>2, Zenon
<1>10. ASSUME NEW i \in DOMAIN m.tables, NEW j \in DOMAIN m.tables, i < j
       PROVE  /\ m.tables[i].num # m.tables[j].num
              /\ \A s \in m.tables[i].data, t \in m.tables[j].data : s < t
  <2>1. i \in DOMAIN man.tables
    BY <1>2, <1>3, <1>10
  <2>2. CASE j \in DOMAIN man.tables
    BY <1>3, <1>10, <2>1, <2>2 DEF Numbered, ValidateSnapshot
  <2>3. CASE j = Len(man.tables) + 1
    <3>1. m.tables[i].num # m.tables[j].num
      <4>1. man.tables[i].num \in TableNums(man.tables) /\ man.active - 1 \notin TableNums(man.tables)
        BY <2>1, NumsOfTables DEF Numbered
      <4> QED
        BY <1>2, <1>3, <2>1, <2>3, <4>1
    <3>2. man.tables[i].data \subseteq SeqNum /\ \A s \in man.tables[i].data : s <= man.last
      <4>1. man.tables[i].data \subseteq SeqNum
        BY <2>1, NumsOfTables
      <4> QED
        BY <2>1, <4>1 DEF Numbered, ValidateSnapshot
    <3>3. \A s \in man.tables[i].data, t \in x.data : s < t
      BY <1>5, <1>6, <3>2, EngineAssumption DEF SeqNum
    <3> QED
      BY <1>3, <2>1, <2>3, <3>1, <3>3, Zenon
  <2> QED
    BY <1>3, <2>2, <2>3
<1>11. ValidateSnapshot(m)
  <2>1. m.imm # m.active /\ m.next > m.active /\ m.next > m.imm
    BY <1>1, <1>5, EngineAssumption DEF Manifest, FileNum
  <2> QED
    BY <1>9, <1>10, <2>1 DEF ValidateSnapshot
<1>12. Numbered(m)
  BY <1>1, <1>9, <1>11 DEF Numbered
<1> QED
  BY <1>8, <1>12 DEF m

\* The oldest c tables and the others.
LEMMA PrefixSplit ==
  ASSUME NEW t \in Seq(Table), NEW c \in 1 .. Len(t)
  PROVE  LET sel == SubSeq(t, 1, c)  rest == SubSeq(t, c + 1, Len(t))
         IN  /\ sel \in Seq(Table) /\ rest \in Seq(Table)
             /\ Len(sel) = c /\ Len(rest) = Len(t) - c
             /\ \A i \in 1 .. c : sel[i] = t[i]
             /\ \A i \in 1 .. Len(t) - c : rest[i] = t[c + i]
             /\ TableData(t) = TableData(sel) \cup TableData(rest)
             /\ TableNums(t) = TableNums(sel) \cup TableNums(rest)
<1> DEFINE sel == SubSeq(t, 1, c)
           rest == SubSeq(t, c + 1, Len(t))
<1>1. Len(t) \in Nat /\ c \in Nat /\ c <= Len(t)
  OBVIOUS
<1>2. sel \in Seq(Table) /\ rest \in Seq(Table)
  BY <1>1, PrefixType
<1>3. /\ Len(sel) = c /\ Len(rest) = Len(t) - c
      /\ \A i \in 1 .. c : sel[i] = t[i]
      /\ \A i \in 1 .. Len(t) - c : rest[i] = t[c + i]
  BY <1>1
<1> HIDE DEF sel, rest
<1>4. DOMAIN t = 1 .. Len(t) /\ DOMAIN sel = 1 .. c /\ DOMAIN rest = 1 .. Len(t) - c
  BY <1>2, <1>3
<1>5. ASSUME NEW i \in DOMAIN t
      PROVE  \/ i \in DOMAIN sel /\ sel[i] = t[i]
             \/ i - c \in DOMAIN rest /\ rest[i - c] = t[i]
  <2>1. CASE i <= c
    BY <1>1, <1>3, <1>4, <2>1
  <2>2. CASE ~(i <= c)
    <3>1. i - c \in 1 .. Len(t) - c /\ c + (i - c) = i
      BY <1>1, <1>4, <2>2
    <3> QED
      BY <1>3, <1>4, <3>1
  <2> QED
    BY <2>1, <2>2
<1>6. \A i \in DOMAIN sel : i \in DOMAIN t /\ t[i] = sel[i]
  BY <1>1, <1>3, <1>4
<1>7. \A i \in DOMAIN rest : c + i \in DOMAIN t /\ t[c + i] = rest[i]
  BY <1>1, <1>3, <1>4
<1>8. TableData(t) = TableData(sel) \cup TableData(rest)
  BY <1>5, <1>6, <1>7 DEF TableData
<1>9. TableNums(t) = TableNums(sel) \cup TableNums(rest)
  BY <1>5, <1>6, <1>7 DEF TableNums
<1> QED
  BY <1>2, <1>3, <1>8, <1>9 DEF sel, rest

\* The prefix of a sequence of tables.
LEMMA PrefixOf ==
  ASSUME NEW t \in Seq(Table), NEW c \in 1 .. Len(t)
  PROVE  /\ SubSeq(t, 1, c) \in Seq(Table) /\ Len(SubSeq(t, 1, c)) = c
         /\ \A i \in 1 .. c : SubSeq(t, 1, c)[i] = t[i]
BY PrefixSplit

\* A table put before others.
LEMMA PrependedTable ==
  ASSUME NEW t \in Seq(Table), NEW x \in Table
  PROVE  LET u == <<x>> \o t
         IN  /\ DOMAIN u = 1 .. Len(t) + 1 /\ u[1] = x
             /\ \A i \in 1 .. Len(t) + 1 : i # 1 => i - 1 \in DOMAIN t /\ u[i] = t[i - 1]
             /\ TableData(u) = x.data \cup TableData(t)
             /\ TableNums(u) = {x.num} \cup TableNums(t)
<1> DEFINE u == <<x>> \o t
<1>1. /\ DOMAIN u = 1 .. Len(t) + 1 /\ u[1] = x /\ DOMAIN t = 1 .. Len(t) /\ Len(t) \in Nat
      /\ \A i \in 1 .. Len(t) + 1 : i # 1 => u[i] = t[i - 1]
  OBVIOUS
<1>2. \A i \in 1 .. Len(t) + 1 : i # 1 => i - 1 \in DOMAIN t
  BY <1>1
<1>3. \A i \in DOMAIN t : i + 1 \in DOMAIN u /\ u[i + 1] = t[i]
  <2> TAKE i \in DOMAIN t
  <2>1. i + 1 \in 1 .. Len(t) + 1 /\ i + 1 # 1 /\ (i + 1) - 1 = i
    BY <1>1
  <2> QED
    BY <1>1, <2>1
<1> HIDE DEF u
<1>4. TableData(u) = x.data \cup TableData(t)
  <2>1. \A i \in DOMAIN u : u[i].data \subseteq x.data \cup TableData(t)
    <3> TAKE i \in DOMAIN u
    <3>1. u[i] = x \/ \E j \in DOMAIN t : u[i] = t[j]
      BY <1>1, <1>2
    <3>2. \A j \in DOMAIN t : t[j].data \subseteq TableData(t)
      BY DEF TableData
    <3> QED
      BY <3>1, <3>2
  <2>2. \A j \in DOMAIN t : t[j].data \subseteq TableData(u)
    <3> TAKE j \in DOMAIN t
    <3>1. \A i \in DOMAIN u : u[i].data \subseteq TableData(u)
      BY DEF TableData
    <3> QED
      BY <1>3, <3>1
  <2>3. x.data \subseteq TableData(u)
    <3>1. 1 \in DOMAIN u
      BY <1>1
    <3> QED
      BY <1>1, <3>1 DEF TableData
  <2>4. TableData(u) \subseteq x.data \cup TableData(t)
    BY <2>1 DEF TableData
  <2>5. TableData(t) \subseteq TableData(u)
    BY <2>2 DEF TableData
  <2> QED
    BY <2>3, <2>4, <2>5
<1>5. TableNums(u) = {x.num} \cup TableNums(t)
  BY <1>1, <1>2, <1>3 DEF TableNums
<1> QED
  BY <1>1, <1>2, <1>4, <1>5 DEF u

Replacement(sel, n) == [num |-> n, data |-> TableData(sel)]
Rest(m, c) == SubSeq(m.tables, c + 1, Len(m.tables))
IsCompacted(r, m, sel, n, kept) == r = CompactedManifest(m, sel, n, kept)

\* r has one table numbered n, at most, in the place of those of sel, and holds as much as m.
Replaces(r, m, sel, n) ==
  /\ Numbered(r)
  /\ \A w, q : Holds(m, w, q) => Holds(r, w, q)
  /\ r.active = m.active /\ r.imm = m.imm
  /\ \A i \in DOMAIN r.tables :
       \/ r.tables[i].num = n /\ r.tables[i].data = TableData(sel)
       \/ \E j \in DOMAIN m.tables : r.tables[i] = m.tables[j]
  /\ TableNums(r.tables) \cap TableNums(sel) = {}
  /\ TableNums(r.tables) \subseteq TableNums(m.tables) \cup {n}

\* Every table of r was one of m.
AllOld(r, m) == \A i \in DOMAIN r.tables : \E j \in DOMAIN m.tables : r.tables[i] = m.tables[j]

\* Where the tables behind a prefix of c tables stand, with a table before them and without.
LEMMA PlaceBehind ==
  ASSUME NEW len \in Nat, NEW c \in 1 .. len
  PROVE  /\ c \in Nat /\ len - c \in Nat
         /\ \A i \in 1 .. len - c : i \in Nat /\ i + c \in Nat /\ i + c \in 1 .. len
                                   /\ i + c > c /\ c + i = i + c
         /\ \A i \in 1 .. (len - c) + 1 :
              /\ i \in Nat
              /\ i # 1 => /\ i - 1 \in 1 .. len - c /\ i + c - 1 \in 1 .. len
                         /\ i + c - 1 > c /\ c + (i - 1) = i + c - 1
         /\ \A j \in 1 .. c, i \in Nat : j \in 1 .. len /\ (i > c => j < i)
  OBVIOUS

\* The next number is above those taken, whether number n is used or given back.
LEMMA NextAbove ==
  ASSUME NEW next \in Nat, NEW n \in Nat, n <= next, NEW k \in Nat, k < next
  PROVE  /\ k < IF next = n THEN n + 1 ELSE next
         /\ k # n => k < IF next = n + 1 THEN n ELSE next
         /\ n < IF next = n THEN n + 1 ELSE next
  OBVIOUS

\* CompactTablePrefix: what the oldest tables held is in the new table, or dropped for good.
LEMMA CompactedGood ==
  ASSUME NEW m \in Manifest, Numbered(m), NEW c \in 1 .. Len(m.tables),
         NEW sel, sel = SubSeq(m.tables, 1, c), NEW n \in FileNum, n <= m.next,
         n \notin TableNums(m.tables) \cup {m.active, m.imm}, m.imm # 0 => n # m.active - 1,
         NEW kept \in BOOLEAN, NEW r, IsCompacted(r, m, sel, n, kept)
  PROVE  Replaces(r, m, sel, n) /\ (kept = FALSE => AllOld(r, m))
<1> DEFINE x == Replacement(sel, n)
           rest == Rest(m, c)
           pre == <<x>> \o rest
           len == Len(m.tables)
           used == IF m.next = n THEN n + 1 ELSE m.next
           back == IF m.next = n + 1 THEN n ELSE m.next
<1>t. m.tables \in Seq(Table)
  BY DEF Manifest
<1>s. /\ Len(sel) = c /\ sel \in Seq(Table)
      /\ x \in Table /\ x.num = n /\ x.data = TableData(sel)
  <2>1. Len(sel) = c /\ sel \in Seq(Table)
    BY <1>t, PrefixSplit
  <2> QED
    BY <2>1, TableDataType, Zenon DEF Table, Replacement
<1>k. kept => r = [m EXCEPT !.tables = pre, !.next = used]
  BY <1>s, Zenon DEF IsCompacted, CompactedManifest, Replacement, Rest
<1>d. ~kept => r = [m EXCEPT !.tables = rest, !.dead = @ \cup TableData(sel), !.next = back]
  BY <1>s, Zenon DEF IsCompacted, CompactedManifest, Rest
<1>2. /\ TableNums(m.tables) \subseteq Nat
      /\ \A i \in DOMAIN m.tables : m.tables[i].num \in TableNums(m.tables)
  BY NumsOfTables
<1>3. /\ rest \in Seq(Table) /\ Len(rest) = len - c
      /\ \A i \in 1 .. c : sel[i] = m.tables[i]
      /\ \A i \in 1 .. len - c : rest[i] = m.tables[c + i]
      /\ TableData(m.tables) = TableData(sel) \cup TableData(rest)
      /\ TableNums(m.tables) = TableNums(sel) \cup TableNums(rest)
  BY <1>t, PrefixSplit DEF Rest
<1>4. /\ DOMAIN pre = 1 .. Len(rest) + 1 /\ pre[1] = x
      /\ \A i \in 1 .. Len(rest) + 1 : i # 1 => pre[i] = rest[i - 1]
      /\ TableData(pre) = x.data \cup TableData(rest)
      /\ TableNums(pre) = {x.num} \cup TableNums(rest)
  <2>1. x \in Table /\ rest \in Seq(Table)
    BY <1>s, <1>3
  <2> HIDE DEF x, rest
  <2> QED
    BY <2>1, PrependedTable
<1>5. DOMAIN m.tables = 1 .. len /\ DOMAIN sel = 1 .. c /\ DOMAIN rest = 1 .. len - c
  <2> HIDE DEF rest
  <2>1. \A s \in Seq(Table) : DOMAIN s = 1 .. Len(s)
    OBVIOUS
  <2>2. rest \in Seq(Table) /\ Len(rest) = len - c
    BY <1>3
  <2>3. Len(sel) = c /\ sel \in Seq(Table)
    BY <1>s
  <2>4. DOMAIN rest = 1 .. len - c
    BY <2>1, <2>2, Zenon
  <2>5. DOMAIN sel = 1 .. c
    BY <2>1, <2>3, Zenon
  <2> QED
    BY <1>t, <2>1, <2>4, <2>5, Zenon
<1> HIDE DEF x, rest, pre, used, back
<1>1. r.active = m.active /\ r.imm = m.imm /\ r.last = m.last
  BY <1>k, <1>d, Zenon DEF Manifest
<1>e. kept => r.tables = pre /\ r.next = used /\ r.dead = m.dead
  BY <1>k, Zenon DEF Manifest
<1>f. ~kept => r.tables = rest /\ r.next = back /\ r.dead = m.dead \cup TableData(sel)
  BY <1>d, Zenon DEF Manifest
<1>l. len \in Nat
  BY <1>t
<1> HIDE DEF len
<1>c. c \in 1 .. len
  BY DEF len
<1>p. /\ c \in Nat /\ len - c \in Nat
      /\ \A i \in 1 .. len - c : i \in Nat /\ i + c \in Nat /\ i + c \in 1 .. len
                                   /\ i + c > c /\ c + i = i + c
      /\ \A i \in 1 .. (len - c) + 1 :
           /\ i \in Nat
           /\ i # 1 => /\ i - 1 \in 1 .. len - c /\ i + c - 1 \in 1 .. len
                      /\ i + c - 1 > c /\ c + (i - 1) = i + c - 1
      /\ \A j \in 1 .. c, i \in Nat : j \in 1 .. len /\ (i > c => j < i)
  BY <1>c, <1>l, PlaceBehind, Zenon
<1>r. /\ kept => DOMAIN r.tables = 1 .. (len - c) + 1
      /\ ~kept => DOMAIN r.tables = 1 .. len - c
  BY <1>e, <1>f, <1>3, <1>4, <1>5, Zenon
\* Where a table of the new manifest comes from.
<1> DEFINE old(i) == IF kept THEN i + c - 1 ELSE i + c
<1>6. ASSUME NEW i \in DOMAIN r.tables
      PROVE  \/ kept /\ i = 1 /\ r.tables[i] = x
             \/ /\ old(i) \in DOMAIN m.tables /\ old(i) > c /\ r.tables[i] = m.tables[old(i)]
  <2>1. CASE kept /\ i = 1
    BY <1>e, <1>4, <2>1, Zenon
  <2>2. CASE kept /\ i # 1
    <3>1. i \in 1 .. (len - c) + 1
      BY <1>r, <2>2, Zenon
    <3>2. r.tables[i] = rest[i - 1]
      BY <1>e, <1>3, <1>4, <2>2, <3>1, Zenon
    <3>3. rest[i - 1] = m.tables[i + c - 1]
      BY <1>3, <1>p, <2>2, <3>1, Zenon
    <3>4. i + c - 1 \in DOMAIN m.tables /\ i + c - 1 > c
      BY <1>5, <1>p, <2>2, <3>1, Zenon
    <3> QED
      BY <2>2, <3>2, <3>3, <3>4, Zenon
  <2>3. CASE ~kept
    <3>1. i \in 1 .. len - c
      BY <1>r, <2>3, Zenon
    <3>2. r.tables[i] = m.tables[i + c]
      BY <1>f, <1>3, <1>p, <2>3, <3>1, Zenon
    <3>3. i + c \in DOMAIN m.tables /\ i + c > c
      BY <1>5, <1>p, <3>1, Zenon
    <3> QED
      BY <2>3, <3>2, <3>3, Zenon
  <2> QED
    BY <2>1, <2>2, <2>3, Zenon
<1>7. DOMAIN r.tables \subseteq Nat
  BY <1>r, <1>p, Zenon
<1>8. \A i, j \in DOMAIN m.tables : i < j =>
           /\ m.tables[i].num # m.tables[j].num
           /\ \A s \in m.tables[i].data, t \in m.tables[j].data : s < t
  BY Zenon DEF Numbered, ValidateSnapshot
<1>9. ASSUME NEW s \in TableData(sel)
      PROVE  \E j \in 1 .. c : j \in DOMAIN m.tables /\ s \in m.tables[j].data
  <2>1. PICK j \in DOMAIN sel : s \in sel[j].data
    BY Zenon DEF TableData
  <2>2. j \in 1 .. c /\ sel[j] = m.tables[j] /\ j \in DOMAIN m.tables
    <3>1. j \in 1 .. c
      BY <1>5, Zenon
    <3>2. j \in 1 .. len
      BY <1>l, <1>p, <3>1
    <3> QED
      BY <1>3, <1>5, <3>1, <3>2, Zenon
  <2> QED
    BY <2>1, <2>2, Zenon
<1>10. /\ m.next \in Nat /\ m.active \in Nat /\ m.imm \in Nat /\ n \in Nat /\ n # 0
       /\ m.active < m.next /\ m.imm < m.next /\ m.imm # m.active
       /\ \A k \in TableNums(m.tables) : k < m.next /\ k # m.active /\ k # m.imm
  BY NumbersTaken, EngineAssumption DEF FileNum
<1>11. /\ r.active < r.next /\ r.imm < r.next /\ (kept => n < r.next)
       /\ \A k \in TableNums(m.tables) : k < r.next
  <2>1. CASE kept
    <3>1. n < used /\ \A k \in Nat : k < m.next => k < used
      BY <1>10, NextAbove, Zenon DEF used
    <3> QED
      BY <1>1, <1>2, <1>10, <1>e, <2>1, <3>1, Zenon
  <2>2. CASE ~kept
    <3>1. \A k \in Nat : k < m.next /\ k # n => k < back
      BY <1>10, NextAbove, Zenon DEF back
    <3>2. n # m.active /\ n # m.imm /\ n \notin TableNums(m.tables)
      OBVIOUS
    <3> QED
      BY <1>1, <1>2, <1>10, <1>f, <2>2, <3>1, <3>2, Zenon
  <2> QED
    BY <2>1, <2>2
<1>12. ASSUME NEW i \in DOMAIN r.tables
       PROVE  /\ r.tables[i].num \notin {r.active, r.imm} /\ r.tables[i].num < r.next
              /\ \A s \in r.tables[i].data : s <= r.last
              /\ r.tables[i].data # {}
  <2>1. CASE kept /\ r.tables[i] = x
    <3>1. \A s \in x.data : s <= m.last
      BY <1>s, <1>9, Zenon DEF Numbered, ValidateSnapshot
    <3>2. x.data # {}
      <4>1. 1 \in DOMAIN sel /\ sel[1] = m.tables[1] /\ 1 \in DOMAIN m.tables
        <5>1. 1 \in 1 .. c
          BY <1>p
        <5> QED
          BY <1>3, <1>5, <1>p, <5>1, Zenon
      <4>2. m.tables[1].data # {}
        BY <4>1 DEF Numbered
      <4>3. sel[1].data \subseteq TableData(sel)
        BY <4>1, Zenon DEF TableData
      <4> QED
        BY <1>s, <4>1, <4>2, <4>3, Zenon
    <3> QED
      BY <1>1, <1>s, <1>11, <2>1, <3>1, <3>2, Zenon
  <2>2. CASE old(i) \in DOMAIN m.tables /\ r.tables[i] = m.tables[old(i)]
    <3> HIDE DEF old
    <3>1. m.tables[old(i)].num \in TableNums(m.tables)
      BY <1>2, <2>2, Zenon
    <3>2. m.tables[old(i)].data # {} /\ \A s \in m.tables[old(i)].data : s <= m.last
      BY <2>2, Zenon DEF Numbered, ValidateSnapshot
    <3> QED
      BY <1>1, <1>10, <1>11, <2>2, <3>1, <3>2, Zenon
  <2> QED
    BY <1>6, <2>1, <2>2, Zenon
<1>13. ASSUME NEW i \in DOMAIN r.tables, NEW j \in DOMAIN r.tables, i < j
       PROVE  /\ r.tables[i].num # r.tables[j].num
              /\ \A s \in r.tables[i].data, t \in r.tables[j].data : s < t
  <2>1. old(j) \in DOMAIN m.tables /\ old(j) > c /\ r.tables[j] = m.tables[old(j)]
    <3>1. ~(j = 1)
      <4>1. i \in 1 .. (len - c) + 1 \/ i \in 1 .. len - c
        BY <1>r, Zenon
      <4>2. i >= 1
        BY <1>p, <4>1
      <4> QED
        BY <1>13, <4>2, <1>7
    <3> QED
      BY <1>6, <3>1, Zenon
  <2>2. CASE kept /\ r.tables[i] = x
    <3>1. m.tables[old(j)].num \in TableNums(m.tables)
      BY <1>2, <2>1, Zenon
    <3>2. \A s \in x.data, t \in m.tables[old(j)].data : s < t
      <4> TAKE s \in x.data, t \in m.tables[old(j)].data
      <4>1. PICK k \in 1 .. c : k \in DOMAIN m.tables /\ s \in m.tables[k].data
        BY <1>s, <1>9, Zenon
      <4> HIDE DEF old
      <4>2. k < old(j)
        <5>1. old(j) \in Nat
          BY <1>5, <1>l, <2>1
        <5> QED
          BY <1>p, <2>1, <4>1, <5>1, Zenon
      <4> QED
        BY <1>8, <2>1, <4>1, <4>2, Zenon
    <3> HIDE DEF old
    <3> QED
      BY <1>s, <2>1, <2>2, <3>1, <3>2, Zenon
  <2>3. CASE old(i) \in DOMAIN m.tables /\ r.tables[i] = m.tables[old(i)]
    <3>1. old(i) < old(j)
      BY <1>p, <1>7, <1>13
    <3> HIDE DEF old
    <3> QED
      BY <1>8, <2>1, <2>3, <3>1, Zenon
  <2> QED
    BY <1>6, <2>2, <2>3, Zenon
<1>14. TableNums(r.tables) \subseteq TableNums(m.tables) \cup {n}
  BY <1>e, <1>f, <1>s, <1>3, <1>4, Zenon
<1>15. Numbered(r)
  <2>1. ValidateSnapshot(r)
    <3>1. r.imm # r.active /\ r.next > r.active /\ r.next > r.imm
      BY <1>1, <1>10, <1>11
    <3> QED
      BY <1>12, <1>13, <3>1, Zenon DEF ValidateSnapshot
  <2>2. r.imm # 0 => r.imm < r.active - 1 /\ r.active - 1 \notin TableNums(r.tables)
    BY <1>1, <1>14 DEF Numbered
  <2> QED
    BY <1>12, <2>1, <2>2, Zenon DEF Numbered
<1>16. TableData(r.tables) \cup r.dead = TableData(m.tables) \cup m.dead
  BY <1>e, <1>f, <1>s, <1>3, <1>4, Zenon
<1>17. \A w, q : Holds(m, w, q) => Holds(r, w, q)
  BY <1>1, <1>16, Zenon DEF Holds, ImmWal
<1>18. TableNums(r.tables) \cap TableNums(sel) = {}
  <2>1. TableNums(rest) \cap TableNums(sel) = {}
    <3> SUFFICES ASSUME NEW i \in DOMAIN rest, NEW j \in DOMAIN sel, rest[i].num = sel[j].num
                 PROVE  FALSE
      BY Zenon DEF TableNums
    <3>1. i \in 1 .. len - c /\ j \in 1 .. c
      BY <1>5, Zenon
    <3>2. rest[i] = m.tables[i + c] /\ sel[j] = m.tables[j]
      BY <1>3, <1>p, <3>1, Zenon
    <3>3. i + c \in 1 .. len /\ j \in 1 .. len /\ i + c > c /\ i + c \in Nat
      BY <1>p, <3>1, Zenon
    <3>4. j < i + c
      BY <1>p, <3>1, <3>3, Zenon
    <3> QED
      BY <1>5, <1>8, <3>2, <3>3, <3>4, Zenon
  <2>2. n \notin TableNums(sel)
    BY <1>3, Zenon
  <2> QED
    BY <1>e, <1>f, <1>s, <1>4, <2>1, <2>2, Zenon
<1>19. ASSUME NEW i \in DOMAIN r.tables
       PROVE  \/ kept /\ r.tables[i].num = n /\ r.tables[i].data = TableData(sel)
              \/ \E j \in DOMAIN m.tables : r.tables[i] = m.tables[j]
  <2> HIDE DEF old
  <2> QED
    BY <1>s, <1>6, Zenon
<1>20. Replaces(r, m, sel, n)
  BY <1>1, <1>14, <1>15, <1>17, <1>18, <1>19, Zenon DEF Replaces
<1>21. kept = FALSE => AllOld(r, m)
  BY <1>19, Zenon DEF AllOld
<1> QED
  BY <1>20, <1>21

----------------------------------------------------------------------------
(* The handle and the worker.                                              *)

\* What an open handle relies on.
LEMMA OpenHandle ==
  ASSUME IInv, RInv, proc = "up"
  PROVE  /\ DiskOK(disk) /\ man \in Manifest /\ man = disk.dir.man /\ Numbered(man)
         /\ wal \in [FileNum -> SUBSET SeqNum] /\ synced \in [FileNum -> SUBSET SeqNum]
         /\ ~termErr /\ pending = {} /\ mem = wal[man.active] /\ imm = ImmWal(man, wal)
         /\ worker \in WorkerType /\ nextSeq \in SeqNum
         /\ imm = {} <=> man.imm = 0
         /\ \E q \in 0 .. MaxSeq - 1 :
              /\ acked \subseteq 1 .. q /\ Safe(disk, wal, q) /\ nextSeq = q + 1
              /\ Good(disk.dir, wal, q) /\ Holds(man, wal, q)
<1>1. /\ DiskOK(disk) /\ man \in Manifest /\ worker \in WorkerType /\ nextSeq \in SeqNum
      /\ wal \in [FileNum -> SUBSET SeqNum] /\ synced \in [FileNum -> SUBSET SeqNum]
  BY Zenon DEF IInv, TypeOK, DiskOK, WorkerType
<1>2. /\ man = disk.dir.man /\ ~termErr /\ pending = {}
      /\ mem = wal[man.active] /\ imm = ImmWal(man, wal)
  BY DEF RInv, HandleGood
<1>3. PICK q \in 0 .. MaxSeq - 1 :
        acked \subseteq 1 .. q /\ Safe(disk, wal, q) /\ nextSeq = q + 1
  BY DEF RInv, ImagesGood, Safe, Images, ImagesOf
<1>4. Good(disk.dir, wal, q)
  BY <1>1, <1>3, SafeDir
<1>5. Numbered(man) /\ Holds(man, wal, q)
  BY <1>2, <1>4 DEF Good
<1>6. imm = {} <=> man.imm = 0
  <2>1. PICK p \in man.last .. q :
          ImmWal(man, wal) = (man.last + 1) .. p /\ (man.imm # 0 => man.last < p)
    BY <1>5 DEF Holds
  <2>2. man.last \in Nat /\ q \in Nat
    BY <1>1, EngineAssumption DEF Manifest, SeqNum
  <2>3. man.imm # 0 => man.last + 1 \in (man.last + 1) .. p
    BY <2>1, <2>2
  <2> QED
    BY <1>2, <2>1, <2>3, Zenon DEF ImmWal
<1> QED
  BY <1>1, <1>2, <1>3, <1>4, <1>5, <1>6, Zenon

\* The outcomes of a publication in this setting.
LEMMA Outcomes ==
  ASSUME RecoverySetting, NEW m
  PROVE  /\ PublishOutcomes(m) \subseteq {"durable", "not_published", "crash"}
         /\ \A o \in {"durable", "not_published", "crash"} : ~Terminal(o)
BY DEF RecoverySetting, PublishOutcomes, Terminal

\* Writes 1 .. q, all of them acknowledged or not, on every image.
LEMMA ImagesHold ==
  ASSUME NEW q \in 0 .. MaxSeq - 1, Safe(disk', wal', q), acked' \subseteq 1 .. q,
         proc' = "up" => nextSeq' = q + 1
  PROVE  ImagesGood'
BY DEF ImagesGood, Images, ImagesOf, Safe

\* A step of the worker while no Compact() is past its count.
LEMMA WorkerStep ==
  ASSUME RInv, proc = "up", WorkerFrame, UNCHANGED <<wal, synced>>, compactor.pc # "gap",
         NEW q \in 0 .. MaxSeq - 1, acked \subseteq 1 .. q, nextSeq = q + 1,
         Safe(disk', wal, q), proc' \in {"up", "dying"}, HandleGood', WorkerGood'
  PROVE  RInv'
<1>1. /\ wal' = wal /\ synced' = synced /\ acked' = acked /\ nextSeq' = nextSeq
      /\ compactor' = compactor /\ writer' = writer /\ closer' = closer
      /\ stop' = stop /\ closed' = closed
  BY DEF WorkerFrame, closeVars, history
<1>2. ImagesGood'
  BY <1>1, ImagesHold
<1>3. WalsSynced' /\ QuietGood'
  BY <1>1 DEF RInv, WalsSynced, QuietGood
<1> QED
  BY <1>2, <1>3 DEF RInv

\* A worker at work excludes a Compact() past its count.
LEMMA WorkerBusy ==
  ASSUME RInv, worker.pc \notin {"idle", "exited"}
  PROVE  compactor.pc # "gap"
BY DEF RInv, QuietGood

\* A worker that carries no table.
LEMMA EmptyHanded ==
  ASSUME worker'.pc \notin {"fbuild", "frename", "fsync", "fcommit", "cbuild", "crename",
                            "csync", "ccommit", "fremove", "compact"},
         worker'.num = 0, compReq' => Trigger # 0
  PROVE  WorkerGood'
BY DEF WorkerGood, Flushing, Compacting, OutputInPlace

\* A worker that gives up.
LEMMA FailedWorker ==
  ASSUME NEW pc \in {"fdone", "cdone"}, WorkerFails(pc), compReq' => Trigger # 0
  PROVE  WorkerGood'
<1>1. worker'.pc = pc /\ worker'.num = 0
  BY DEF WorkerFails, IdleWorker
<1> QED
  BY <1>1, EmptyHanded

\* compaction_requested_ is set only under a trigger.
LEMMA CompactionWanted ==
  ASSUME RInv
  PROVE  (compReq => Trigger # 0) /\ (worker.pc = "compact" => Trigger # 0)
         /\ \A m : NeedsBackgroundCompaction(m) => Trigger # 0
BY DEF RInv, WorkerGood, NeedsBackgroundCompaction

\* The handle, as long as neither MANIFEST nor WALs change.
LEMMA SameHandle ==
  ASSUME RInv, proc = "up", disk'.dir.man = disk.dir.man, pending' = {},
         UNCHANGED <<proc, man, mem, imm, wal, termErr>>
  PROVE  HandleGood'
BY DEF RInv, HandleGood

\* The table under construction is none of the live ones.
LEMMA OutputIsNew ==
  ASSUME IInv, RInv, proc = "up", Flushing \/ Compacting
  PROVE  /\ worker.num \in FileNum /\ worker.num \notin TableNums(man.tables)
         /\ worker.data \in SUBSET SeqNum /\ worker.num < man.next
         /\ worker.num \notin {man.active, man.imm}
<1>1. worker.num \in FileNum /\ worker.data \in SUBSET SeqNum
  BY TableInMaking DEF Flushing, Compacting
<1>2. man \in Manifest /\ Numbered(man)
  BY OpenHandle
<1>3. CASE Flushing
  <2>1. man.imm # 0 /\ worker.num = man.active - 1
    BY <1>3 DEF RInv, WorkerGood
  <2>2. man.imm < man.active - 1 /\ man.active - 1 \notin TableNums(man.tables)
    BY <1>2, <2>1 DEF Numbered
  <2>3. man.active < man.next /\ man.active \in Nat /\ man.next \in Nat /\ man.imm \in Nat
    BY <1>2, NumbersTaken DEF FileNum
  <2> QED
    BY <1>1, <2>1, <2>2, <2>3
<1>4. CASE Compacting
  BY <1>1, <1>4 DEF RInv, WorkerGood
<1> QED
  BY <1>3, <1>4

\* A publication that keeps active and immutable WAL: what the handle and the images become.
LEMMA PublishKeeps ==
  ASSUME RecoverySetting, IInv, RInv, proc = "up", NEW k, DiskOK(k), k.dir.man = man,
         NEW q, Safe(k, wal, q),
         NEW o \in {"durable", "not_published", "crash"}, NEW m,
         o # "not_published" => m \in Manifest /\ Good([k.dir EXCEPT !.man = m], wal, q)
  PROVE  /\ Safe(Publish(k, m, o), wal, q)
         /\ DiskOK(Publish(k, m, o))
         /\ Publish(k, m, o).dir.sst = k.dir.sst
         /\ Publish(k, m, o).dir.man = IF o = "not_published" THEN man ELSE m
<1>1. CASE o = "not_published"
  <2>1. Publish(k, m, o) = k
    BY <1>1, NotPublishedKeeps
  <2> QED
    BY <1>1, <2>1
<1>2. CASE o # "not_published"
  <2>1. Good(k.dir, wal, q)
    BY SafeDir
  <2>2. m \in Manifest
    BY <1>2
  <2>3. Safe(Publish(k, m, o), wal, q)
    BY <1>2, <2>1, <2>2, SafePublish
  <2>4. Publish(k, m, o).dir.sst = k.dir.sst /\ Publish(k, m, o).dir.man = m
    BY <1>2, <2>2, PublishDir
  <2>5. o \in {"durable", "not_published", "visible", "crash"}
    OBVIOUS
  <2>6. DiskOK(Publish(k, m, o))
    BY <2>2, <2>5, PublishOK, Zenon
  <2> QED
    BY <1>2, <2>3, <2>4, <2>6
<1> QED
  BY <1>1, <1>2

=============================================================================
