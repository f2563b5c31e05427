---------------------------- MODULE WriteAheadLog ----------------------------
(***************************************************************************)
(* The write-ahead log below DB::Impl::ApplyWriteGroup: the frames of       *)
(* src/src/wal/wal_record_codec.cpp, the writer, WalReader::Replay and      *)
(* DB::Impl::RecoverWals, over files whose appends may stop half way and    *)
(* whose syncs may fail.                                                    *)
(*                                                                         *)
(* A file is a sequence of words.  A frame has a header of two words, the   *)
(* magic with the version and the payload size with the checksum, and one   *)
(* word per entry.  The checksum is the payload itself: no collisions.  An  *)
(* entry is its sequence number and an id, which tells a write from a later *)
(* one that is given the same number.  Rotation and flush are atomic here;  *)
(* their failures are the subject of StorageEngine.                         *)
(***************************************************************************)
EXTENDS Naturals, Sequences, SequencesExt, FiniteSetsExt

CONSTANTS
  BatchSizes,      \* numbers of entries of a commit group
  MemLimit,        \* Options::memtable_bytes, in entries
  MaxSequence,     \* the largest std::uint64_t
  MaxWrites,       \* bound: entries ever submitted
  MaxFaults,       \* bound: failing appends and syncs
  MaxCrashes,      \* bound: reopenings
  StopsAfterError, \* the caller closes a handle whose write failed
  WrittenBack      \* no power loss hits an immutable WAL before its write-back

ASSUME WalAssumption ==
  /\ BatchSizes \subseteq Nat \ {0} /\ MemLimit \in Nat \ {0}
  /\ {MaxSequence, MaxWrites, MaxFaults, MaxCrashes} \subseteq Nat
  /\ {StopsAfterError, WrittenBack} \subseteq BOOLEAN

VARIABLES
  wal,      \* the active WAL: its words, and those that survive a power loss
  imm,      \* the WALs of the immutable MemTable: none or one
  floor,    \* last_sequence of the MANIFEST
  flushed,  \* the entries in SSTables, in order
  handle,   \* DB::Impl: open, memtable_, immutable_memtable_, next_sequence_
  acked,    \* ghost: ids of acknowledged entries
  writes,   \* ghost: entries submitted so far
  faults, crashes

vars == <<wal, imm, floor, flushed, handle, acked, writes, faults, crashes>>

HeaderWords == 2
kWalVersion == 1
kWalBatchVersion == 2

Entry == [seq : Nat, id : Nat]
Magic(v) == [magic |-> v]
Size(payload) == [size |-> Len(payload), crc |-> payload]
IsMagic(w) == DOMAIN w = {"magic"}
IsSize(w) == DOMAIN w = {"size", "crc"}

\* One entry in the format of earlier releases, and a group of consecutive entries.
EncodeWalRecord(entry) == <<Magic(kWalVersion), Size(<<entry>>), entry>>

EncodeWalBatch(entries) ==
  <<Magic(kWalBatchVersion), Size(entries)>> \o entries

-----------------------------------------------------------------------------
(* Replay *)

Corruption == [ok |-> FALSE, entries |-> <<>>, words |-> 0, truncated |-> FALSE]

\* A complete frame of one entry, and one of consecutive entries: the checksum covers the
\* payload.
DecodeWalRecord(header, payload) ==
  header[1].magic = kWalVersion /\ header[2].crc = payload /\ Len(payload) = 1

DecodeWalBatch(header, payload) ==
  /\ header[1].magic = kWalBatchVersion /\ header[2].crc = payload
  /\ \A i \in 2 .. Len(payload) : payload[i].seq = payload[i - 1].seq + 1

\* A complete frame is accepted.
Decodes(header, payload) == DecodeWalRecord(header, payload) \/ DecodeWalBatch(header, payload)

\* The reads of a sequential file: up to n words, fewer only at its end.
ReadUpTo(words, at, n) ==
  IF at = Len(words) THEN <<>> ELSE SubSeq(words, at + 1, Min({at + n, Len(words)}))

\* A mutant: a short payload is not a torn frame.
TornHeaderOnly(header, payload) == Len(header) < HeaderWords

\* The header or the payload ends with the file.
Torn(header, payload) == Len(header) < HeaderWords \/ Len(payload) < header[2].size

LastSequence(entries, least) == IF entries = <<>> THEN least ELSE Last(entries).seq

\* The loop of WalReader::Replay, after word number at and with the entries done so
\* far.  In words that a torn frame has shifted, a magic read as a size exceeds every
\* limit and anything else read as a magic is none.
Replay(words, sequenceFloor) ==
  LET from[at \in Nat, previous \in Nat, done \in Seq(Entry)] ==
        LET header == ReadUpTo(words, at, HeaderWords)
            known == Len(header) = HeaderWords => IsMagic(header[1]) /\ IsSize(header[2])
            payload == ReadUpTo(words, at + HeaderWords, header[2].size)
            end(torn) == [ok |-> TRUE, entries |-> done, words |-> at, truncated |-> torn]
        IN  CASE header = <<>> -> end(FALSE)
              [] header # <<>> /\ ~known -> Corruption
              [] header # <<>> /\ known /\ Torn(header, payload) -> end(TRUE)
              [] OTHER ->
                   IF Decodes(header, payload) /\ payload[1].seq > previous
                     THEN from[at + HeaderWords + Len(payload), Last(payload).seq,
                               done \o payload]
                     ELSE Corruption
  IN  from[0, sequenceFloor, <<>>]

ReplayImmutable(immutables, least) ==
  Replay(IF immutables = <<>> THEN <<>> ELSE immutables[1].data, least)

\* RecoverWals on these files: the immutable WAL first, which must hold something,
\* then the active one above it.
Recovery(active, immutables, least) ==
  LET older == ReplayImmutable(immutables, least)
      newer == Replay(active.data, LastSequence(older.entries, least))
      last == LastSequence(newer.entries, LastSequence(older.entries, least))
  IN  [ok |-> /\ older.ok /\ newer.ok /\ last < MaxSequence
              /\ immutables # <<>> => older.entries # <<>>,
       older |-> older, newer |-> newer, last |-> last]

-----------------------------------------------------------------------------
(* The open handle *)

EmptyFile == [data |-> <<>>, synced |-> <<>>]
Closed == [open |-> FALSE, failed |-> FALSE, mem |-> <<>>, imm |-> <<>>, next |-> 0]

\* A database just opened; its WAL is empty or holds a record of an earlier release.
Init ==
  /\ \E old \in {<<>>, <<[seq |-> 1, id |-> 0]>>} :
       LET words == IF old = <<>> THEN <<>> ELSE EncodeWalRecord(old[1])
       IN  /\ wal = [data |-> words, synced |-> words]
           /\ handle = [Closed EXCEPT !.open = TRUE, !.mem = old, !.next = Len(old) + 1]
           /\ acked = ToSet([i \in DOMAIN old |-> old[i].id])
  /\ imm = <<>> /\ floor = 0 /\ flushed = <<>>
  /\ writes = 0 /\ faults = 0 /\ crashes = 0

MemFull(h) == Len(h.mem) >= MemLimit

\* The files and the handle after RotateMemTable, when the MemTable is full and no
\* immutable one is left.
Rotated(s) ==
  IF MemFull(s.handle) /\ s.imm = <<>>
    THEN [wal |-> EmptyFile, imm |-> <<s.wal>>,
          handle |-> [s.handle EXCEPT !.imm = s.handle.mem, !.mem = <<>>]]
    ELSE s

\* PosixWritableFile::Append stops with an error after some of the words.
AppendFails(s, entries, kept) ==
  [s EXCEPT !.wal.data = @ \o SubSeq(EncodeWalBatch(entries), 1, kept),
            !.handle.failed = TRUE]

\* The group is in the file and fsync reports an error.
SyncFails(s, entries) ==
  [s EXCEPT !.wal.data = @ \o EncodeWalBatch(entries), !.handle.failed = TRUE]

\* A mutant: the group is acknowledged without the sync.
CommittedUnsynced(s, entries) ==
  Rotated([s EXCEPT !.wal.data = @ \o EncodeWalBatch(entries),
                    !.handle.mem = @ \o entries, !.handle.next = @ + Len(entries)])

\* A mutant: the group takes one sequence number.
CommittedOneSequence(s, entries) ==
  LET words == s.wal.data \o EncodeWalBatch(entries)
  IN  Rotated([s EXCEPT !.wal = [data |-> words, synced |-> words],
                        !.handle.mem = @ \o entries, !.handle.next = @ + 1])

\* Append, sync, apply to the MemTable, rotate when that has filled it.
Committed(s, entries) ==
  LET words == s.wal.data \o EncodeWalBatch(entries)
  IN  Rotated([s EXCEPT !.wal = [data |-> words, synced |-> words],
                        !.handle.mem = @ \o entries, !.handle.next = @ + Len(entries)])

\* A mutant: the last sequence number is handed out as well.
FitsExactly(n) == n <= MaxSequence - handle.next + 1

SequencesLeft(n) == n <= MaxSequence - handle.next

Set(s) == wal' = s.wal /\ imm' = s.imm /\ handle' = s.handle

\* ApplyWriteGroup with n entries, PrepareForWrite included: a full MemTable waits
\* for the flush of the immutable one and is rotated first.
Write(n) ==
  LET entries == [i \in 1 .. n |-> [seq |-> handle.next + i - 1, id |-> writes + i]]
      before == Rotated([wal |-> wal, imm |-> imm, handle |-> handle])
      Faulty == faults < MaxFaults /\ faults' = faults + 1 /\ acked' = acked
  IN  /\ handle.open /\ ~(StopsAfterError /\ handle.failed)
      /\ ~(MemFull(handle) /\ imm # <<>>)
      /\ SequencesLeft(n) /\ writes + n <= MaxWrites
      /\ \/ /\ Set(Committed(before, entries))
            /\ acked' = acked \cup {entries[i].id : i \in 1 .. n}
            /\ faults' = faults
         \/ \E kept \in 0 .. n + HeaderWords - 1 :
              Faulty /\ Set(AppendFails(before, entries, kept))
         \/ Faulty /\ Set(SyncFails(before, entries))
      /\ writes' = writes + n
      /\ UNCHANGED <<floor, flushed, crashes>>

\* The worker publishes the immutable MemTable as an SSTable and drops its WAL.
Flush ==
  /\ handle.open /\ imm # <<>>
  /\ flushed' = flushed \o handle.imm /\ floor' = Last(handle.imm).seq
  /\ imm' = <<>> /\ handle' = [handle EXCEPT !.imm = <<>>]
  /\ UNCHANGED <<wal, acked, writes, faults, crashes>>

\* Close() rotates a full MemTable and waits for its flush.  Writes resume when the
\* sync of the WAL then fails.
CloseRotates ==
  /\ handle.open /\ MemFull(handle) /\ imm = <<>>
  /\ Set(Rotated([wal |-> wal, imm |-> imm, handle |-> handle]))
  /\ UNCHANGED <<floor, flushed, acked, writes, faults, crashes>>

\* Close() syncs the active WAL and ends the handle, after a failed write too.
Close ==
  /\ handle.open /\ imm = <<>> /\ ~MemFull(handle) /\ crashes < MaxCrashes
  /\ wal' = [wal EXCEPT !.synced = wal.data]
  /\ handle' = Closed /\ crashes' = crashes + 1
  /\ UNCHANGED <<imm, floor, flushed, acked, writes, faults>>

\* The process dies; the page cache survives.
ProcessCrash ==
  /\ handle.open /\ crashes < MaxCrashes
  /\ handle' = Closed /\ crashes' = crashes + 1
  /\ UNCHANGED <<wal, imm, floor, flushed, acked, writes, faults>>

\* What a power loss may leave of a file: the state of the last fsync, or any part
\* of what was appended since.
Survives(f) ==
  LET kept == Len(LongestCommonPrefix({f.data, f.synced}))
      file(words) == [data |-> words, synced |-> words]
  IN  {file(f.synced)} \cup {file(SubSeq(f.data, 1, n)) : n \in kept .. Len(f.data)}

PowerLoss ==
  /\ crashes < MaxCrashes /\ crashes' = crashes + 1
  /\ wal' \in Survives(wal)
  /\ \/ imm = <<>> /\ imm' = <<>>
     \/ imm # <<>> /\ WrittenBack /\ imm' = <<[data |-> imm[1].data, synced |-> imm[1].data]>>
     \/ imm # <<>> /\ ~WrittenBack /\ \E f \in Survives(imm[1]) : imm' = <<f>>
  /\ handle' = Closed
  /\ UNCHANGED <<floor, flushed, acked, writes, faults>>

\* A mutant: the torn end stays in the file.
NotTruncated(f, replayed) == f

\* The torn end of a WAL is cut off, without a sync.
Truncated(f, replayed) == [f EXCEPT !.data = SubSeq(@, 1, replayed.words)]

\* Open(): replay both WALs, cut off torn ends, append to the active one.
Reopen ==
  LET recovered == Recovery(wal, imm, floor)
  IN  /\ ~handle.open /\ recovered.ok
      /\ handle' = [open |-> TRUE, failed |-> FALSE, mem |-> recovered.newer.entries,
                    imm |-> recovered.older.entries, next |-> recovered.last + 1]
      /\ wal' = Truncated(wal, recovered.newer)
      /\ imm' = [i \in DOMAIN imm |-> Truncated(imm[i], recovered.older)]
      /\ UNCHANGED <<floor, flushed, acked, writes, faults, crashes>>

Next ==
  \/ \E n \in BatchSizes : Write(n)
  \/ Flush
  \/ CloseRotates
  \/ Close
  \/ ProcessCrash
  \/ PowerLoss
  \/ Reopen

Spec == Init /\ [][Next]_vars

-----------------------------------------------------------------------------
(* Properties *)

\* The entries an Open() of the present files would find, in order.
Recoverable ==
  LET older == ReplayImmutable(imm, floor).entries
  IN  flushed \o older \o Replay(wal.data, LastSequence(older, floor)).entries

\* The MemTables and tables hold entries, at most one WAL is immutable, and the handle
\* hands out no sequence number past the limit.
TypeOK ==
  /\ handle.next <= MaxSequence /\ writes <= MaxWrites
  /\ DOMAIN handle = DOMAIN Closed /\ Len(imm) <= 1
  /\ \A entries \in {handle.mem, handle.imm, flushed} :
       \A i \in DOMAIN entries : entries[i] \in Entry

\* RecoverWals accepts whatever crashes, torn appends and failed syncs have left, and
\* what it recovers contains every acknowledged write, in the order of its sequence.
ReopenRecoversAcked ==
  LET log == Recoverable
  IN  /\ Recovery(wal, imm, floor).ok
      /\ acked \subseteq {log[i].id : i \in DOMAIN log}
      /\ \A i \in 2 .. Len(log) : log[i - 1].seq < log[i].seq

\* What readers of a handle without a failed write see is what a reopening recovers.
ReadersSeeTheLog ==
  handle.open /\ ~handle.failed => flushed \o handle.imm \o handle.mem = Recoverable

\* Where a frame of the active WAL ends.
Boundaries ==
  {n \in 0 .. Len(wal.data) : n < Len(wal.data) => IsMagic(wal.data[n + 1])}

\* The active WAL of a handle without a failed write, cut after n words.
CutReplay(n) ==
  Replay(SubSeq(wal.data, 1, n), LastSequence(flushed \o handle.imm, floor))

\* Replay of a log cut at any word stops at the last frame that is complete before
\* the cut, gives its entries and those before it, no part of another, and reports a
\* torn end exactly when the cut is inside a frame; and Replay refuses a log in which a
\* payload word of a complete frame was changed, so nothing is dropped silently.
ReplayIsExact ==
  handle.open /\ ~handle.failed =>
    /\ \A n \in 0 .. Len(wal.data) :
         LET cut == CutReplay(n)
         IN  /\ cut.ok /\ IsPrefix(cut.entries, handle.mem)
             /\ cut.words = Max({b \in Boundaries : b <= n})
             /\ cut.truncated <=> n \notin Boundaries
    /\ \A i \in DOMAIN wal.data :
         DOMAIN wal.data[i] = {"seq", "id"} =>
           ~Replay([wal.data EXCEPT ![i].id = @ + 1],
                   LastSequence(flushed \o handle.imm, floor)).ok

LastAcked ==
  Max({0} \cup UNION {{i \in DOMAIN log : log[i].id \in acked} : log \in {Recoverable}})

\* The log as DurableLog sees it: what is recoverable, acknowledged up to the last
\* entry a caller was told of.
Log ==
  INSTANCE DurableLog WITH
    log <- Recoverable,
    acked <- LastAcked

\* The write path implements DurableLog: commits extend the log, failed writes may,
\* crashes drop only an unacknowledged end, and rotation, flush, truncation and
\* replay leave it as it is.
ImplementsDurableLog == Log!Spec
=============================================================================
