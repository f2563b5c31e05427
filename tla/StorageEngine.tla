--------------------------- MODULE StorageEngine ---------------------------
(***************************************************************************)
(* The storage engine behind one DB handle: active and immutable MemTable  *)
(* with their WALs, the MANIFEST, the SSTables, the background worker      *)
(* (flush and oldest-prefix compaction), explicit Compact(), Close(),      *)
(* orphan cleanup, and crash, power loss and reopen.                       *)
(*                                                                         *)
(* A write is its sequence number.  A WAL, MemTable or SSTable is the set  *)
(* of sequence numbers it accounts for; which versions a full compaction   *)
(* may drop is not told apart here, so a compacted table accounts for all  *)
(* of its inputs, and a full compaction that keeps nothing moves them to   *)
(* the ghost field "dead" of the MANIFEST.                                 *)
(*                                                                         *)
(* An action is a whole section under DB::Impl::mutex_, or one file-system *)
(* step made outside it.  A crash in the middle of a locked section leaves *)
(* the files exactly as a failure at that point followed by a crash does   *)
(* (every error path returns at once); a crash inside a publication is its *)
(* outcome "crash".                                                        *)
(***************************************************************************)
EXTENDS Integers, Sequences, FiniteSets, FiniteSetsExt

CONSTANTS
  MaxSeq,       \* stands for UINT64_MAX of sequence numbers
  MaxFile,      \* stands for UINT64_MAX of file numbers
  MemCap,       \* Options::memtable_bytes, in writes
  Trigger,      \* Options::compaction_table_trigger (0: no automatic compaction)
  SyncOnWrite,  \* Options::sync_on_write
  JournaledDir, \* are directory operations journaled: a power loss keeps them in order,
                \* and the fsync of a file commits the earlier ones (POSIX promises
                \* neither: any of those since the last SyncDir may survive)
  Faults,       \* which file-system steps may fail
  QuietCompact, \* callers neither write nor close while a Compact() is in progress
  PowerFails,   \* may the machine lose power, or only the process die
  Closers,      \* threads that may call Close()
  MaxCrashes    \* bound on crashes

FaultKinds == {"not_published", "visible", "build", "rename", "syncdir",
               "remove", "cleanup_sync", "list", "close_sync"}

ASSUME EngineAssumption ==
  /\ MaxSeq \in Nat \ {0} /\ MaxFile \in Nat \ {0, 1}
  /\ MemCap \in Nat \ {0}
  /\ Trigger \in Nat \ {1}
  /\ SyncOnWrite \in BOOLEAN /\ JournaledDir \in BOOLEAN /\ QuietCompact \in BOOLEAN
  /\ PowerFails \in BOOLEAN
  /\ Faults \subseteq FaultKinds
  /\ MaxCrashes \in Nat

SeqNum  == 1 .. MaxSeq
FileNum == 1 .. MaxFile
Path    == {"wal", "sst", "tmp"} \X FileNum

VARIABLES
  disk,      \* dir: the directory as every process sees it;
             \* hist: the directories a power loss may leave
  wal,       \* contents of each WAL file
  synced,    \* the part of each WAL that has been fsynced
  proc,      \* "up": a handle is open; "dying": crashing inside a publication;
             \* "down"; "failed": Open() returned an error
  man,       \* manifest_->current() of the handle (and the reader set tables_)
  mem,       \* memtable_
  imm,       \* immutable_memtable_ ({}: null)
  nextSeq,   \* next_sequence_
  pending,   \* pending_cleanup_
  termErr,   \* terminal_error_
  bgErr,     \* background_error_
  flushReq,  \* flush_requested_
  compReq,   \* compaction_requested_
  writer,    \* the group-commit leader: idle, stalled or spinning
  worker,    \* the background thread
  compactor, \* the thread in an explicit Compact()
  closer,    \* the threads in Close()
  stopping,  \* writer_stopping_
  closing,   \* closing_
  closed,    \* closed_
  stop,      \* worker_stopping_
  acked,     \* history: the writes whose caller was told Ok
  crashes    \* history: crashes so far

files   == <<disk, wal, synced>>
handle  == <<man, mem, imm, nextSeq, pending>>
errors  == <<termErr, bgErr>>
flags   == <<flushReq, compReq>>
closeVars == <<closer, stopping, closing, closed, stop>>
history == <<acked, crashes>>
vars == <<files, handle, errors, flags, proc, writer, worker, compactor,
          closeVars, history>>

----------------------------------------------------------------------------
(* Directories and the operations of the FileSystem on them.               *)

\* ManifestSnapshot; a table's data stands for its key, sequence and size metadata.
Table    == [num : FileNum, data : SUBSET SeqNum]
Manifest == [active : FileNum, imm : FileNum \cup {0}, next : FileNum,
             last : SeqNum \cup {0}, tables : Seq(Table), dead : SUBSET SeqNum]
Dir      == [man : Manifest, wal : SUBSET FileNum,
             sst : [FileNum -> SUBSET SeqNum], tmp : SUBSET FileNum]

\* A step that may fail under the faults of this instance: TRUE is success.
May(fault) == IF fault \in Faults THEN BOOLEAN ELSE {TRUE}

\* What directory h becomes by the operation that turns directory c into d.
Redone(h, c, d) ==
  [man |-> IF c.man = d.man THEN h.man ELSE d.man,
   wal |-> (h.wal \ (c.wal \ d.wal)) \cup (d.wal \ c.wal),
   sst |-> [n \in FileNum |-> IF c.sst[n] = d.sst[n] THEN h.sst[n] ELSE d.sst[n]],
   tmp |-> (h.tmp \ (c.tmp \ d.tmp)) \cup (d.tmp \ c.tmp)]

\* A directory operation that no SyncDir has made durable yet.  Without a journal it may
\* survive where earlier ones did not.
Touch(k, d) ==
  [dir |-> d, hist |-> k.hist \cup {d} \cup
                       (IF JournaledDir THEN {} ELSE {Redone(h, k.dir, d) : h \in k.hist})]

SyncDir(k) == [dir |-> k.dir, hist |-> {k.dir}]

\* What the fsync of a file does to the directory.
FileSync(k) == IF JournaledDir THEN SyncDir(k) ELSE k

TableData(tables) == UNION {tables[i].data : i \in DOMAIN tables}
TableNums(tables) == {tables[i].num : i \in DOMAIN tables}

\* The largest element, or the floor when there is none larger.
MaxFrom(floor, S) == Max({floor} \cup S)

\* The invariants EncodeManifest and DecodeManifest insist on.
ValidateSnapshot(m) ==
  /\ m.imm # m.active
  /\ m.next > m.active /\ m.next > m.imm
  /\ \A i \in DOMAIN m.tables :
       /\ m.tables[i].num \notin {m.active, m.imm}
       /\ m.tables[i].num < m.next
       /\ \A s \in m.tables[i].data : s <= m.last
       /\ \A j \in DOMAIN m.tables : i < j =>
            /\ m.tables[i].num # m.tables[j].num
            /\ \A s \in m.tables[i].data, t \in m.tables[j].data : s < t

\* The three outcomes of ManifestState::Publish, and a crash between its rename
\* and its SyncDir.
PublishOutcomes(m) ==
  IF ValidateSnapshot(m)
  THEN {"durable"} \cup (Faults \cap {"not_published", "visible"})
       \cup (IF crashes < MaxCrashes THEN {"crash"} ELSE {})
  ELSE {"not_published"}

Survive(o) == IF o = "crash" THEN "dying" ELSE "up"

\* kVisibleNotDurable makes terminal_error_ stick.  Mutant: it is ignored.
NotTerminal(o) == FALSE
Terminal(o) == o = "visible"

Publish(k, m, o) ==
  LET renamed == Touch(FileSync(k), [k.dir EXCEPT !.man = m])
  IN CASE o = "not_published" -> k
       [] o \in {"visible", "crash"} -> renamed
       [] o = "durable"       -> SyncDir(renamed)

Unlink(d, R) ==
  [d EXCEPT !.wal = {n \in d.wal : <<"wal", n>> \notin R},
            !.sst = [n \in FileNum |-> IF <<"sst", n>> \in R THEN {} ELSE d.sst[n]],
            !.tmp = {n \in d.tmp : <<"tmp", n>> \notin R}]

\* BestEffortRemove of the paths R one after the other, then BestEffortSyncDir.
RemoveAll(k, R, sync) ==
  LET d == Unlink(k.dir, R)
  IN [dir  |-> d,
      hist |-> IF sync /\ R # {} THEN {d}
               ELSE k.hist \cup {Unlink(h, S) :
                      h \in IF JournaledDir THEN {k.dir} ELSE k.hist, S \in SUBSET R}]

\* Which of the removals R may fail; those are remembered in pending_cleanup_.
Failures(R) == IF "remove" \in Faults THEN SUBSET R ELSE {{}}

Removals(k, R) ==
  {[disk |-> RemoveAll(k, R \ failed, sync), failed |-> failed] :
     failed \in Failures(R), sync \in May("cleanup_sync")}

\* Mutant: a cleanup that forgets the immutable WAL.
ObsoleteForgetsImmutable(d, m) ==
  {<<"wal", n>> : n \in d.wal \ {m.active}} \cup {<<"tmp", n>> : n \in d.tmp}

\* The canonical files of directory d that manifest m does not reference.
Obsolete(d, m) ==
  {<<"wal", n>> : n \in d.wal \ {m.active, m.imm}}
  \cup {<<"sst", n>> : n \in {f \in FileNum : d.sst[f] # {}} \ TableNums(m.tables)}
  \cup {<<"tmp", n>> : n \in d.tmp}

\* The pending paths first, whatever they name by now, then what a listing shows;
\* a path may fail in the first round and succeed in the second.
CleanupObsoleteFiles(k, pend, m) ==
  UNION {LET gone == pend \ failed
             rest == IF listed THEN Obsolete(k.dir, m) \ gone ELSE {}
         IN {[disk |-> RemoveAll(k, gone \cup (rest \ again), sync),
              failed |-> failed \cup again] :
               again \in Failures(rest), sync \in May("cleanup_sync")} :
           failed \in Failures(pend), listed \in May("list")}

----------------------------------------------------------------------------
(* Recovery: what DB::Open makes of a directory image.                     *)

Prefix(S, upTo) == {s \in S : s <= upTo}

\* A WAL after power loss: its fsynced frames and any prefix of the others.
Survives(n, upTo) == synced[n] \cup Prefix(wal[n], upTo)
WalCuts == IF SyncOnWrite \/ ~PowerFails THEN {MaxSeq} ELSE 0 .. MaxSeq

ImmData(m, upTo) == IF m.imm = 0 THEN {} ELSE Survives(m.imm, upTo)

\* OpenManifestSSTables, RecoverWals: every referenced file is there and matches,
\* an immutable WAL has a frame, and sequences increase past the published floor.
Opens(d, immCut, actCut) ==
  LET m == d.man
      immData == ImmData(m, immCut)
      active  == Survives(m.active, actCut)
  IN /\ \A i \in DOMAIN m.tables : d.sst[m.tables[i].num] = m.tables[i].data
     /\ m.imm # 0 => m.imm \in d.wal /\ immData # {}
     /\ m.active \in d.wal
     /\ \A s \in immData : s > m.last
     /\ \A s \in active : s > MaxFrom(m.last, immData)
     /\ MaxFrom(m.last, immData \cup active) < MaxSeq

\* What a WAL gives back, if the directory has it.
Replayed(d, n, cut) == IF n \in d.wal THEN Survives(n, cut) ELSE {}

\* The writes in the files that the MANIFEST names.
Recovered(d, immCut, actCut) ==
  (UNION {d.sst[n] : n \in TableNums(d.man.tables)}) \cup d.man.dead
  \cup Replayed(d, d.man.imm, immCut) \cup Replayed(d, d.man.active, actCut)

----------------------------------------------------------------------------
(* The handle.                                                             *)

LockFree  == proc = "up" /\ writer # "spinning"
CheckOpen == ~closed /\ ~closing /\ ~termErr /\ ~bgErr
Full(m)   == Cardinality(m) >= MemCap

\* Mutant: off by one.
NeedsOneMore(m) == Trigger # 0 /\ Len(m.tables) > Trigger
NeedsBackgroundCompaction(m) == Trigger # 0 /\ Len(m.tables) >= Trigger

IdleWorker == [pc |-> "idle", num |-> 0, base |-> 0, sel |-> <<>>, data |-> {},
               all |-> FALSE, kept |-> TRUE, ok |-> TRUE]
FlushRunning   == worker.pc \in {"flush", "fbuild", "frename", "fsync", "fcommit",
                                 "fremove", "fdone"}
CompactRunning == worker.pc \in {"compact", "cbuild", "crename", "csync", "ccommit",
                                 "cdone"}
IdleCompactor == [pc |-> "idle", count |-> 0]

InitialManifest == [active |-> 1, imm |-> 0, next |-> 2, last |-> 0,
                    tables |-> <<>>, dead |-> {}]
InitialDir == [man |-> InitialManifest, wal |-> {1},
               sst |-> [n \in FileNum |-> {}], tmp |-> {}]

\* A database just created and opened.
Init ==
  /\ disk = [dir |-> InitialDir, hist |-> {InitialDir}]
  /\ wal = [n \in FileNum |-> {}] /\ synced = [n \in FileNum |-> {}]
  /\ proc = "up" /\ man = InitialManifest
  /\ mem = {} /\ imm = {} /\ nextSeq = 1 /\ pending = {}
  /\ termErr = FALSE /\ bgErr = FALSE /\ flushReq = FALSE /\ compReq = FALSE
  /\ writer = "idle" /\ worker = IdleWorker /\ compactor = IdleCompactor
  /\ closer = [c \in Closers |-> "idle"]
  /\ stopping = FALSE /\ closing = FALSE /\ closed = FALSE /\ stop = FALSE
  /\ acked = {} /\ crashes = 0

----------------------------------------------------------------------------
(* Writes: ApplyWriteGroup by the group-commit leader.                     *)

\* Mutant: the WAL of the full memtable is forgotten.
RotatedForgetsImmutable == [man EXCEPT !.active = man.next + 1, !.next = man.next + 2]

RotatedManifest ==
  [man EXCEPT !.active = man.next + 1, !.imm = man.active, !.next = man.next + 2]

\* RotateMemTable needs two fresh numbers: one reserved for the SSTable, one WAL.
\* Mutant: the exhaustion check is dropped.
RotateUnchecked == PublishOutcomes(RotatedManifest)
RotateOutcomes ==
  IF man.next >= MaxFile - 1 THEN {"refused"} ELSE PublishOutcomes(RotatedManifest)

CreatedWal(k, n) == FileSync(Touch(k, [k.dir EXCEPT !.wal = @ \cup {n}]))

\* RotateMemTable with outcome o: k is the directory, w and y are the WALs and
\* their synced parts before it, full the memtable that rotates, fresh what the next write puts
\* into the new one.
RotateMemTable(o, k, w, y, full, fresh) ==
  LET n == man.next + 1
  IN /\ disk' = IF o = "refused" THEN k
                ELSE Publish(CreatedWal(k, n), RotatedManifest, o)
     /\ wal' = IF o = "refused" THEN w
               ELSE [w EXCEPT ![n] = IF o = "durable" THEN fresh ELSE {}]
     /\ synced' = IF o = "refused" THEN y
                  ELSE [y EXCEPT ![n] = IF o = "durable" /\ SyncOnWrite THEN fresh ELSE {}]
     /\ man' = IF o = "durable" THEN RotatedManifest ELSE man
     /\ mem' = IF o = "durable" THEN fresh ELSE full
     /\ imm' = IF o = "durable" THEN full ELSE imm
     /\ flushReq' = (flushReq \/ o = "durable")
     /\ termErr' = (termErr \/ Terminal(o))
     /\ proc' = Survive(o)

\* Mutant: the WAL is skipped.
NotAppended(f, n, s) == f
Appended(f, n, s) == [f EXCEPT ![n] = @ \cup {s}]

\* PrepareForWrite passed without rotating; rotate afterwards when full.
ApplyThenRotate ==
  LET w == Appended(wal, man.active, nextSeq)
      y == IF SyncOnWrite THEN Appended(synced, man.active, nextSeq) ELSE synced
      k == IF SyncOnWrite THEN FileSync(disk) ELSE disk
      m == mem \cup {nextSeq}
  IN /\ ~Full(mem) /\ nextSeq < MaxSeq
     /\ nextSeq' = nextSeq + 1
     /\ IF Full(m) /\ imm = {}
        THEN \E o \in RotateOutcomes :
               /\ RotateMemTable(o, k, w, y, m, {})
               /\ acked' = IF o = "durable" THEN acked \cup {nextSeq} ELSE acked
        ELSE /\ disk' = k /\ wal' = w /\ synced' = y /\ mem' = m
             /\ acked' = acked \cup {nextSeq}
             /\ UNCHANGED <<man, imm, flushReq, termErr, proc>>

\* PrepareForWrite rotates a full memtable first; the write goes to the new one,
\* unless the sequence space turns out to be exhausted.
RotateThenApply ==
  LET fresh == IF nextSeq < MaxSeq THEN {nextSeq} ELSE {}
  IN /\ Full(mem) /\ imm = {}
     /\ \E o \in RotateOutcomes :
          /\ RotateMemTable(o, disk, wal, synced, mem, fresh)
          /\ nextSeq' = IF o = "durable" THEN nextSeq + Cardinality(fresh) ELSE nextSeq
          /\ acked' = IF o = "durable" THEN acked \cup fresh ELSE acked

WriteFrame == UNCHANGED <<pending, bgErr, compReq, worker, compactor,
                          closeVars, crashes>>

\* A group of one request by a leader that passes CheckOpen.
Write ==
  /\ LockFree /\ writer = "idle" /\ ~stopping /\ CheckOpen
  /\ QuietCompact => compactor.pc = "idle"
  /\ ApplyThenRotate \/ RotateThenApply
  /\ UNCHANGED writer /\ WriteFrame

\* The wait predicate of PrepareForWrite.
StallOver == imm = {} \/ termErr \/ bgErr \/ closing \/ closed

\* Backpressure: the loop of PrepareForWrite is entered.  While its condition
\* still holds when the predicate is already true, wait() returns at once
\* without giving up mutex_: the leader spins with the lock held.
WriteStalls ==
  /\ LockFree /\ writer = "idle" /\ ~stopping
  /\ QuietCompact => compactor.pc = "idle"
  /\ imm # {} /\ Full(mem)
  /\ writer' = IF StallOver THEN "spinning" ELSE "stalled"
  /\ UNCHANGED <<files, handle, errors, flags, proc, worker, compactor, closeVars,
                 history>>

StalledSpins ==
  /\ LockFree /\ writer = "stalled" /\ StallOver /\ imm # {}
  /\ writer' = "spinning"
  /\ UNCHANGED <<files, handle, errors, flags, proc, worker, compactor, closeVars,
                 history>>

\* The stalled leader goes on: CheckOpen, the rotation, the write.
StalledResumes ==
  /\ LockFree /\ writer = "stalled" /\ imm = {}
  /\ writer' = "idle"
  /\ IF CheckOpen
     THEN RotateThenApply
     ELSE UNCHANGED <<files, man, mem, imm, nextSeq, flushReq, termErr, acked, proc>>
  /\ WriteFrame

----------------------------------------------------------------------------
(* The background worker: BackgroundWorkLoop.                              *)

WorkerFrame == UNCHANGED <<writer, compactor, closeVars, history, nextSeq, mem>>

\* Mutants: compaction goes first; no flush once closing.
PicksFlushLast == flushReq /\ imm # {} /\ ~compReq
PicksFlushUnlessClosing == flushReq /\ imm # {} /\ ~closing
PicksFlush == flushReq /\ imm # {}

\* Both request flags are consumed; a flush goes before a compaction.
WorkerPicks ==
  /\ LockFree /\ worker.pc = "idle" /\ (stop \/ flushReq \/ compReq)
  /\ worker' = [worker EXCEPT !.pc =
       CASE stop                                             -> "exited"
         [] ~stop /\ PicksFlush                              -> "flush"
         [] ~stop /\ ~PicksFlush /\ compReq /\ ~closing      -> "compact"
         [] OTHER                                            -> "idle"]
  /\ flushReq' = (stop /\ flushReq) /\ compReq' = (stop /\ compReq)
  /\ UNCHANGED <<proc, files, man, imm, pending, errors>> /\ WorkerFrame

WorkerFails(pc) == worker' = [IdleWorker EXCEPT !.pc = pc, !.ok = FALSE]

\* FlushImmutableMemTable under the lock: the SSTable number was reserved by the
\* rotation, one below the active WAL.  Cleanup runs here.
FlushSelects ==
  /\ LockFree /\ worker.pc = "flush"
  /\ IF man.imm = 0 \/ man.active < 2
     THEN WorkerFails("fdone") /\ UNCHANGED <<disk, pending>>
     ELSE
        /\ \E c \in CleanupObsoleteFiles(disk, pending, man) :
             disk' = c.disk /\ pending' = c.failed
        /\ worker' = [IdleWorker EXCEPT !.pc = "fbuild", !.num = man.active - 1,
                                       !.base = man.imm, !.data = imm]
  /\ UNCHANGED <<proc, wal, synced, man, imm, errors, flags>> /\ WorkerFrame

\* Write and fsync <num>.sst.tmp, for a flush or a compaction.
WrittenTemp(k, n) == FileSync(Touch(k, [k.dir EXCEPT !.tmp = @ \cup {n}]))

BuildTable(from, to, done) ==
  /\ proc = "up" /\ worker.pc = from
  /\ \E ok \in May("build") :
       IF ok THEN worker' = [worker EXCEPT !.pc = to] ELSE WorkerFails(done)
  /\ disk' = WrittenTemp(disk, worker.num)
  /\ UNCHANGED <<proc, wal, synced, man, imm, pending, errors, flags>> /\ WorkerFrame

\* Reopen and validate the temporary file, then rename it to <num>.sst.
Renamed(k, n, data) ==
  Touch(k, [k.dir EXCEPT !.tmp = @ \ {n}, !.sst = [@ EXCEPT ![n] = data]])

RenameTable(from, to, done) ==
  /\ proc = "up" /\ worker.pc = from
  /\ \E ok \in May("rename") :
       IF ok /\ worker.num \in disk.dir.tmp
       THEN /\ disk' = Renamed(disk, worker.num, worker.data)
            /\ worker' = [worker EXCEPT !.pc = to]
       ELSE WorkerFails(done) /\ UNCHANGED disk
  /\ UNCHANGED <<proc, wal, synced, man, imm, pending, errors, flags>> /\ WorkerFrame

SyncTable(from, to, done) ==
  /\ proc = "up" /\ worker.pc = from
  /\ \E ok \in May("syncdir") :
       IF ok THEN disk' = SyncDir(disk) /\ worker' = [worker EXCEPT !.pc = to]
       ELSE WorkerFails(done) /\ UNCHANGED disk
  /\ UNCHANGED <<proc, wal, synced, man, imm, pending, errors, flags>> /\ WorkerFrame

\* Mutant: the table is not added.
FlushedWithoutTable == [man EXCEPT !.imm = 0, !.last = Max(worker.data)]

FlushedManifest ==
  [man EXCEPT !.imm = 0, !.last = Max(worker.data),
              !.tables = Append(@, [num |-> worker.num, data |-> worker.data])]

FlushStateUnchanged ==
  imm # {} /\ man.imm = worker.base /\ man.active = worker.num + 1

\* Back under the lock: publish the table and clear the immutable generation.
FlushCommits ==
  /\ LockFree /\ worker.pc = "fcommit"
  /\ \E o \in IF FlushStateUnchanged THEN PublishOutcomes(FlushedManifest)
              ELSE {"not_published"} :
       /\ disk' = Publish(disk, FlushedManifest, o)
       /\ termErr' = (termErr \/ Terminal(o)) /\ proc' = Survive(o)
       /\ IF o = "durable"
          THEN /\ man' = FlushedManifest /\ imm' = {}
               /\ compReq' = (compReq \/ NeedsBackgroundCompaction(FlushedManifest))
               /\ worker' = [IdleWorker EXCEPT !.pc = "fremove", !.base = worker.base]
          ELSE WorkerFails("fdone") /\ UNCHANGED <<man, imm, compReq>>
  /\ UNCHANGED <<wal, synced, pending, bgErr, flushReq>> /\ WorkerFrame

\* Outside the lock again: the immutable WAL is no longer referenced.
FlushRemovesWal ==
  /\ proc = "up" /\ worker.pc = "fremove"
  /\ \E r \in Removals(disk, {<<"wal", worker.base>>}) :
       disk' = r.disk /\ pending' = pending \cup r.failed
  /\ worker' = [IdleWorker EXCEPT !.pc = "fdone"]
  /\ UNCHANGED <<proc, wal, synced, man, imm, errors, flags>> /\ WorkerFrame

\* CompactTablePrefix(trigger, background) under the lock: select the oldest
\* tables and reserve the replacement's number by publishing next + 1.
\* Mutant: nothing is reserved.
NothingReserved == man
ReservedManifest == [man EXCEPT !.next = @ + 1]

ReserveOutcomes ==
  IF ~CheckOpen \/ man.next = MaxFile THEN {"not_published"}
  ELSE PublishOutcomes(ReservedManifest)

CompactSelects ==
  /\ LockFree /\ worker.pc = "compact"
  /\ IF CheckOpen /\ Len(man.tables) < Trigger
     THEN /\ worker' = [IdleWorker EXCEPT !.pc = "cdone"]
          /\ UNCHANGED <<disk, man, termErr, proc>>
     ELSE \E o \in ReserveOutcomes :
            /\ disk' = Publish(disk, ReservedManifest, o)
            /\ termErr' = (termErr \/ Terminal(o)) /\ proc' = Survive(o)
            /\ IF o = "durable"
               THEN LET sel == SubSeq(man.tables, 1, Trigger)
                    IN /\ man' = ReservedManifest
                       /\ worker' = [IdleWorker EXCEPT !.pc = "cbuild", !.num = man.next,
                            !.sel = sel, !.data = TableData(sel),
                            !.all = (Len(man.tables) = Trigger)]
               ELSE WorkerFails("cdone") /\ UNCHANGED man
  /\ UNCHANGED <<wal, synced, imm, pending, bgErr, flags>> /\ WorkerFrame

\* A compaction of every table may find no version worth keeping: no output file.
CompactKeepsNothing ==
  /\ proc = "up" /\ worker.pc = "cbuild" /\ worker.all
  /\ worker' = [worker EXCEPT !.pc = "ccommit", !.kept = FALSE]
  /\ UNCHANGED <<proc, files, man, imm, pending, errors, flags>> /\ WorkerFrame

\* The manifest that replaces the prefix sel by table n (or by nothing).
CompactedManifest(m, sel, n, kept) ==
  LET rest == SubSeq(m.tables, Len(sel) + 1, Len(m.tables))
  IN IF kept
     THEN [m EXCEPT !.tables = <<[num |-> n, data |-> TableData(sel)]>> \o rest,
                    !.next = IF @ = n THEN n + 1 ELSE @]
     ELSE [m EXCEPT !.tables = rest, !.dead = @ \cup TableData(sel),
                    !.next = IF @ = n + 1 THEN n ELSE @]

IsTablePrefix(sel, m) ==
  /\ Len(sel) <= Len(m.tables)
  /\ \A i \in DOMAIN sel : m.tables[i].num = sel[i].num

ObsoletePaths(sel) == {<<"sst", n>> : n \in TableNums(sel)}

\* The commit of a compaction under the lock: publish m, then unlink the inputs.
CommitCompaction(o, k, pend, m, sel) ==
  /\ termErr' = (termErr \/ Terminal(o)) /\ proc' = Survive(o)
  /\ IF o = "durable"
     THEN /\ man' = m
          /\ \E r \in Removals(Publish(k, m, o), ObsoletePaths(sel)) :
               disk' = r.disk /\ pending' = pend \cup r.failed
     ELSE disk' = Publish(k, m, o) /\ pending' = pend /\ UNCHANGED man

CompactCommits ==
  /\ LockFree /\ worker.pc = "ccommit"
  /\ LET m == CompactedManifest(man, worker.sel, worker.num, worker.kept)
     IN \E o \in IF IsTablePrefix(worker.sel, man) THEN PublishOutcomes(m)
                 ELSE {"not_published"} :
          /\ CommitCompaction(o, disk, pending, m, worker.sel)
          /\ worker' = [IdleWorker EXCEPT !.pc = "cdone", !.ok = (o = "durable")]
  /\ UNCHANGED <<wal, synced, imm, bgErr, flags>> /\ WorkerFrame

\* The loop records the outcome and goes back to waiting.
WorkerFinishes ==
  /\ LockFree /\ worker.pc \in {"fdone", "cdone"}
  /\ bgErr' = (bgErr \/ (~worker.ok /\ ~termErr))
  /\ compReq' = (compReq \/ (worker.ok /\ worker.pc = "cdone"
                              /\ NeedsBackgroundCompaction(man)))
  /\ worker' = IdleWorker
  /\ UNCHANGED <<proc, files, man, imm, pending, termErr, flushReq>> /\ WorkerFrame

Worker ==
  \/ WorkerPicks \/ WorkerFinishes
  \/ FlushSelects \/ BuildTable("fbuild", "frename", "fdone")
  \/ RenameTable("frename", "fsync", "fdone") \/ SyncTable("fsync", "fcommit", "fdone")
  \/ FlushCommits \/ FlushRemovesWal
  \/ CompactSelects \/ BuildTable("cbuild", "crename", "cdone") \/ CompactKeepsNothing
  \/ RenameTable("crename", "csync", "cdone") \/ SyncTable("csync", "ccommit", "cdone")
  \/ CompactCommits

----------------------------------------------------------------------------
(* Explicit Compact().                                                     *)

CompactFrame == UNCHANGED <<wal, synced, mem, imm, nextSeq, bgErr, flags, writer,
                            worker, closeVars, history>>

CompactCalled ==
  /\ LockFree /\ compactor.pc = "idle" /\ CheckOpen
  /\ QuietCompact => writer = "idle" /\ \A c \in Closers : closer[c] = "idle"
  /\ compactor' = [compactor EXCEPT !.pc = "wait"]
  /\ UNCHANGED <<proc, disk, man, pending, termErr>> /\ CompactFrame

\* Mutant: a running compaction is not waited for.
QuietButCompacting ==
  \/ imm = {} /\ ~FlushRunning /\ ~flushReq /\ ~compReq
  \/ termErr \/ bgErr \/ stop

\* WaitForBackgroundWork
BackgroundQuiet ==
  \/ imm = {} /\ ~FlushRunning /\ ~CompactRunning /\ ~flushReq /\ ~compReq
  \/ termErr \/ bgErr \/ stop

\* The lock is released between counting the tables and compacting them.
CompactCounts ==
  /\ LockFree /\ compactor.pc = "wait" /\ BackgroundQuiet
  /\ compactor' = IF CheckOpen THEN [pc |-> "gap", count |-> Len(man.tables)]
                  ELSE IdleCompactor
  /\ UNCHANGED <<proc, disk, man, pending, termErr>> /\ CompactFrame

\* CompactTablePrefix(count, explicit): the lock is held from the cleanup to the
\* removal of the inputs.
CompactRuns ==
  /\ LockFree /\ compactor.pc = "gap"
  /\ compactor' = IdleCompactor
  /\ IF ~CheckOpen \/ compactor.count = 0 \/ Len(man.tables) < compactor.count
     THEN UNCHANGED <<proc, disk, man, pending, termErr>>
     ELSE \E c \in CleanupObsoleteFiles(disk, pending, man) :
       LET n    == man.next
           sel  == SubSeq(man.tables, 1, compactor.count)
           tmp  == WrittenTemp(c.disk, n)
           sst  == Renamed(tmp, n, TableData(sel))
           fail(k) == disk' = k /\ pending' = c.failed /\ UNCHANGED <<proc, man, termErr>>
       IN \/ n = MaxFile /\ fail(c.disk)
          \/ n < MaxFile /\ Faults \cap {"build", "rename"} # {} /\ fail(tmp)
          \/ n < MaxFile /\ "syncdir" \in Faults /\ fail(sst)
          \/ /\ n < MaxFile
             /\ \E kept \in IF compactor.count = Len(man.tables) THEN BOOLEAN ELSE {TRUE} :
                  LET m == CompactedManifest(man, sel, n, kept)
                  IN \E o \in PublishOutcomes(m) :
                       CommitCompaction(o, IF kept THEN SyncDir(sst) ELSE c.disk,
                                        c.failed, m, sel)
  /\ CompactFrame

----------------------------------------------------------------------------
(* Close().                                                                *)

CloseFrame == UNCHANGED <<nextSeq, pending, writer, worker, compactor, closed, history>>
At(c, pc) == closer' = [closer EXCEPT ![c] = pc]

\* StopWriterQueue: no more admissions, then wait for the leader to leave.
CloseCalled(c) ==
  /\ proc = "up" /\ closer[c] = "idle"
  /\ QuietCompact => compactor.pc = "idle"
  /\ At(c, "drain") /\ stopping' = TRUE
  /\ UNCHANGED <<files, man, mem, imm, errors, flags, proc, closing, stop>> /\ CloseFrame

\* The WAL is synced before anything is torn down; if that fails the handle
\* stays open and admission resumes.
CloseFinishes(c) ==
  \/ At(c, "join") /\ stop' = TRUE /\ closing' = TRUE /\ UNCHANGED stopping
  \/ /\ SyncOnWrite /\ "close_sync" \in Faults
     /\ At(c, "resume") /\ closing' = FALSE /\ UNCHANGED <<stopping, stop>>

\* The loop of Close() is over.  Mutant: the immutable generation is forgotten.
CloseForgetsImmutable == termErr \/ bgErr \/ (~CompactRunning /\ ~Full(mem))
CloseMayFinish == termErr \/ bgErr \/ (~CompactRunning /\ imm = {} /\ ~Full(mem))

\* One turn of the loop of Close(), up to its next wait or to its end.
CloseTurn(c) ==
  LET broken == termErr \/ bgErr
      waits(pc) == At(c, pc) /\ closing' = TRUE /\ UNCHANGED <<stopping, stop>>
  IN \/ /\ ~broken /\ CompactRunning /\ waits("wait_compaction")
        /\ UNCHANGED <<files, man, mem, imm, errors, flushReq, proc>>
     \/ /\ ~broken /\ ~CompactRunning /\ imm # {} /\ waits("wait_flush")
        /\ flushReq' = TRUE
        /\ UNCHANGED <<files, man, mem, imm, errors, proc>>
     \/ /\ ~broken /\ ~CompactRunning /\ imm = {} /\ Full(mem)
        /\ \E o \in RotateOutcomes :
             /\ RotateMemTable(o, disk, wal, synced, mem, {})
             /\ bgErr' = (o \notin {"durable", "crash"})
             /\ IF o = "durable" THEN waits("wait_flush") ELSE CloseFinishes(c)
     \/ /\ CloseMayFinish /\ CloseFinishes(c)
        /\ UNCHANGED <<files, man, mem, imm, errors, flushReq, proc>>

CloseLocks(c) ==
  /\ LockFree /\ closer[c] = "drain" /\ writer = "idle"
  /\ IF closed
     THEN /\ At(c, "idle")
          /\ UNCHANGED <<files, man, mem, imm, errors, flags, proc, stopping, closing, stop>>
     ELSE CloseTurn(c) /\ compReq' = FALSE
  /\ CloseFrame

CloseWakes(c) ==
  /\ LockFree
  /\ \/ closer[c] = "wait_compaction" /\ (~CompactRunning \/ termErr \/ bgErr)
     \/ /\ closer[c] = "wait_flush"
        /\ (imm = {} /\ ~FlushRunning) \/ termErr \/ bgErr \/ stop
  /\ CloseTurn(c) /\ UNCHANGED compReq
  /\ CloseFrame

\* join() the worker, close the WAL, release the LOCK file.
CloseJoins(c) ==
  /\ LockFree /\ closer[c] = "join" /\ worker.pc = "exited"
  /\ At(c, "idle") /\ closed' = TRUE
  /\ UNCHANGED <<files, handle, errors, flags, proc, writer, worker, compactor,
                 stopping, closing, stop, history>>

\* ResumeWriterQueue, after the lock is released.
CloseResumes(c) ==
  /\ proc = "up" /\ closer[c] = "resume"
  /\ At(c, "idle") /\ stopping' = (stopping /\ closed)
  /\ UNCHANGED <<files, man, mem, imm, errors, flags, proc, closing, stop>> /\ CloseFrame

Close(c) == CloseLocks(c) \/ CloseWakes(c) \/ CloseJoins(c) \/ CloseResumes(c)

----------------------------------------------------------------------------
(* Crashes and Open().                                                     *)

\* The in-memory state of a process without a handle.
NoHandle ==
  /\ man' = InitialManifest /\ mem' = {} /\ imm' = {} /\ nextSeq' = 1 /\ pending' = {}
  /\ termErr' = FALSE /\ bgErr' = FALSE /\ flushReq' = FALSE /\ compReq' = FALSE
  /\ writer' = "idle" /\ worker' = IdleWorker /\ compactor' = IdleCompactor
  /\ closer' = [c \in Closers |-> "idle"]
  /\ stopping' = FALSE /\ closing' = FALSE /\ closed' = FALSE /\ stop' = FALSE

\* The process dies: what it wrote stays in the page cache.
Crash ==
  /\ proc \in {"up", "dying"} /\ crashes < MaxCrashes /\ ~closed
  /\ proc' = "down" /\ crashes' = crashes + 1 /\ NoHandle
  /\ UNCHANGED <<files, acked>>

\* The closed handle is destroyed.
Release ==
  /\ proc = "up" /\ closed /\ \A c \in Closers : closer[c] = "idle"
  /\ compactor.pc = "idle"
  /\ proc' = "down" /\ NoHandle
  /\ UNCHANGED <<files, acked, crashes>>

\* The machine loses power while no handle is open: the directory is any one
\* since the last SyncDir, an unsynced WAL suffix is cut anywhere.
PowerLoss ==
  /\ proc = "down" /\ PowerFails
  /\ \E d \in disk.hist, ci \in WalCuts, ca \in WalCuts :
       /\ disk' = [dir |-> d, hist |-> {d}]
       /\ wal' = [n \in FileNum |-> IF n = d.man.imm THEN Survives(n, ci)
                                   ELSE IF n = d.man.active THEN Survives(n, ca)
                                   ELSE synced[n]]
  /\ synced' = wal'
  /\ UNCHANGED <<proc, handle, errors, flags, writer, worker, compactor, closeVars,
                 history>>

\* next_sequence_ after recovery.  Mutant: the WALs are forgotten.
NextSequenceOfManifest(m, i, a) == m.last + 1
NextSequence(m, i, a) == MaxFrom(m.last, i \cup a) + 1

\* Open(): recover, clean up, start the worker.
Open ==
  /\ proc = "down"
  /\ LET m == disk.dir.man
         i == ImmData(m, MaxSeq)
         a == wal[m.active]
     IN IF Opens(disk.dir, MaxSeq, MaxSeq)
        THEN /\ proc' = "up" /\ man' = m /\ mem' = a /\ imm' = i
             /\ nextSeq' = NextSequence(m, i, a)
             /\ \E c \in CleanupObsoleteFiles(disk, {}, m) :
                  disk' = c.disk /\ pending' = c.failed
             /\ flushReq' = (i # {}) /\ compReq' = NeedsBackgroundCompaction(m)
        ELSE proc' = "failed" /\ UNCHANGED <<disk, handle, flags>>
  /\ UNCHANGED <<wal, synced, errors, writer, worker, compactor, closeVars, history>>

Next ==
  \/ Write \/ WriteStalls \/ StalledSpins \/ StalledResumes
  \/ Worker
  \/ CompactCalled \/ CompactCounts \/ CompactRuns
  \/ \E c \in Closers : CloseCalled(c) \/ Close(c)
  \/ Crash \/ Release \/ PowerLoss \/ Open

Spec == Init /\ [][Next]_vars

\* Every thread that can go on does; clients and crashes owe nothing.
Fairness ==
  /\ WF_vars(Worker) /\ WF_vars(StalledSpins) /\ WF_vars(StalledResumes)
  /\ WF_vars(CompactCounts) /\ WF_vars(CompactRuns)
  /\ \A c \in Closers : WF_vars(Close(c))

FairSpec == Spec /\ Fairness

----------------------------------------------------------------------------
(* Properties.                                                             *)

WorkerPCs == {"idle", "exited", "flush", "fbuild", "frename", "fsync", "fcommit",
              "fremove", "fdone", "compact", "cbuild", "crename", "csync", "ccommit",
              "cdone"}
CloserPCs == {"idle", "drain", "wait_compaction", "wait_flush", "join", "resume"}

\* Every variable keeps its type; the on-disk part covers every directory a power
\* loss may leave.
TypeOK ==
  /\ disk \in [dir : Dir, hist : SUBSET Dir] /\ disk.dir \in disk.hist
  /\ wal \in [FileNum -> SUBSET SeqNum] /\ synced \in [FileNum -> SUBSET SeqNum]
  /\ proc \in {"up", "dying", "down", "failed"}
  /\ man \in Manifest
  /\ mem \subseteq SeqNum /\ imm \subseteq SeqNum /\ nextSeq \in SeqNum
  /\ pending \subseteq Path
  /\ termErr \in BOOLEAN /\ bgErr \in BOOLEAN /\ flushReq \in BOOLEAN /\ compReq \in BOOLEAN
  /\ writer \in {"idle", "stalled", "spinning"}
  /\ worker \in [pc : WorkerPCs, num : FileNum \cup {0}, base : FileNum \cup {0},
                 sel : Seq(Table), data : SUBSET SeqNum, all : BOOLEAN,
                 kept : BOOLEAN, ok : BOOLEAN]
  /\ compactor \in [pc : {"idle", "wait", "gap"}, count : Nat]
  /\ closer \in [Closers -> CloserPCs]
  /\ stopping \in BOOLEAN /\ closing \in BOOLEAN /\ closed \in BOOLEAN /\ stop \in BOOLEAN
  /\ acked \subseteq SeqNum /\ crashes \in 0 .. MaxCrashes

\* The directories the next Open() may find.
Images == IF PowerFails THEN disk.hist ELSE {disk.dir}

\* Whatever moment the process or the machine dies, Open() accepts what it finds:
\* every file the MANIFEST names is there and whole, and the WALs replay in order.
EveryImageOpens ==
  /\ proc # "failed"
  /\ \A d \in Images, ci \in WalCuts, ca \in WalCuts : Opens(d, ci, ca)

\* An acknowledged write is in what Open() recovers from any directory a crash may
\* leave; a power loss is excepted when sync_on_write is off.
AckedRecoverable ==
  SyncOnWrite \/ ~PowerFails =>
    \A d \in Images : acked \subseteq Recovered(d, MaxSeq, MaxSeq)

\* An open handle reads every acknowledged write: rotation, flush and compaction
\* hand data over without a gap.
AckedReadable ==
  proc = "up" /\ (SyncOnWrite \/ ~PowerFails) =>
    acked \subseteq mem \cup imm \cup TableData(man.tables) \cup man.dead

\* The handle's manifest and the MANIFEST file agree unless a publication was
\* left visible but not durable (or is being interrupted by a crash).
HandleMatchesDisk == proc = "up" /\ ~termErr => man = disk.dir.man

\* A number is handed to one file only: the SSTable being built, the live tables
\* and the WALs never share one, and none is at or past next_file_number.
OutputNumberUnclaimed ==
  proc = "up" /\ worker.num # 0 /\ ~termErr =>
    /\ worker.num < man.next
    /\ worker.num \notin TableNums(man.tables) \cup {man.active, man.imm}

\* The checks in front of a commit (immutable flush state, oldest table prefix,
\* manifest validation) never reject the worker's own output.
WorkerOutputAccepted ==
  proc = "up" =>
    /\ worker.pc = "fcommit" => FlushStateUnchanged /\ ValidateSnapshot(FlushedManifest)
    /\ worker.pc = "ccommit" =>
         /\ IsTablePrefix(worker.sel, man)
         /\ ValidateSnapshot(CompactedManifest(man, worker.sel, worker.num, worker.kept))

\* A sequence number is never handed out twice: the next one is above all that
\* any recovery from here would find.
SequencesFresh ==
  proc = "up" => \A s \in acked \cup Recovered(disk.dir, MaxSeq, MaxSeq) : s < nextSeq

\* Recovery has no holes: what Open() would find is every write up to some
\* sequence number, whichever of WALs and tables hold it.
RecoveryIsPrefix ==
  \A d \in Images :
    LET found == Recovered(d, MaxSeq, MaxSeq) IN found = 1 .. Cardinality(found)

\* No step removes a file the MANIFEST on disk names.
LiveFilesKept ==
  LET d == disk.dir
  IN /\ {d.man.active, d.man.imm} \ {0} \subseteq d.wal
     /\ \A n \in TableNums(d.man.tables) : d.sst[n] # {}

\* Close() without a sticky error leaves nothing behind: the worker is gone and
\* the immutable generation has been flushed.
ClosedIsDrained ==
  closed => worker.pc = "exited" /\ (~termErr /\ ~bgErr => imm = {} /\ man.imm = 0)

\* When no file-system step fails but the directory sync of a publication, and file
\* numbers are left, a sticky error comes from a publication whose durability is unknown:
\* the checks of the engine never fail a flush or a compaction of its own.
OnlyFaultsRaiseErrors ==
  proc = "up" /\ Faults \subseteq {"visible"} /\ man.next < MaxFile - 1 =>
    /\ bgErr => termErr
    /\ termErr => "visible" \in Faults

\* A stalled writer returns to its caller: the backpressure of PrepareForWrite ends.
StallsEnd == writer = "stalled" ~> writer = "idle" \/ proc # "up"

\* As StallsEnd, as long as no error is sticky.
StallsEndOrFail == writer = "stalled" ~> writer = "idle" \/ termErr \/ bgErr

\* The worker loses no request, although it clears both flags when it takes a job: an
\* immutable MemTable is flushed, and automatic compaction brings the table count under
\* its trigger again, unless an error is sticky or the handle is closing.
BackgroundWorkCompletes ==
  /\ imm # {} ~> imm = {} \/ termErr \/ bgErr
  /\ Trigger # 0 /\ Len(man.tables) >= Trigger ~>
       Len(man.tables) < Trigger \/ termErr \/ bgErr \/ closing

\* Close() returns, unless it finds a leader that spins in PrepareForWrite or the
\* process dies under it.
CloseReturns ==
  \A c \in Closers :
    closer[c] = "drain" ~> closer[c] = "idle" \/ writer = "spinning" \/ proc # "up"
=============================================================================
