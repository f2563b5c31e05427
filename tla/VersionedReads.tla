---------------------------- MODULE VersionedReads ----------------------------
(***************************************************************************)
(* Reads at a sequence number: MemTables, tables, Snapshots and the         *)
(* versions a compaction keeps.  DB::Impl::Get, NewIterator, GetSnapshot    *)
(* and the filter of CompactTablePrefix and the SnapshotState registry.      *)
(* Scans are in Iterators.                                                   *)
(*                                                                         *)
(* A version is its key, its sequence number and whether it is a tombstone; *)
(* the value written is the sequence number.  A locked section is one       *)
(* action; GetSnapshot, which holds mutex_ shared, is two, because the      *)
(* background compaction reads the registry without mutex_.                 *)
(***************************************************************************)
EXTENDS Naturals, Sequences, FiniteSetsExt, TLC

CONSTANTS
  Keys,          \* user keys, naturals
  Batches,       \* the write batches: sequences of [key, tombstone]
  Handles,       \* Snapshots of the callers
  Limits,        \* values of Options::max_active_snapshots, 0 for no limit
  MemLimit,      \* Options::memtable_bytes, in versions
  Trigger,       \* Options::compaction_table_trigger
  MaxSequence,   \* bound: sequence numbers handed out
  MaxReopens     \* bound: closes and reopenings

ASSUME ReadsAssumption ==
  /\ Keys \subseteq Nat \ {0} /\ MemLimit \in Nat \ {0} /\ Trigger \in Nat \ {0}
  /\ Limits \subseteq Nat /\ {MaxSequence, MaxReopens} \subseteq Nat
  /\ \A b \in Batches : b \in Seq([key : Keys, tombstone : BOOLEAN]) /\ b # <<>>

VARIABLES
  mem,        \* memtable_: a set of versions
  imm,        \* immutable_memtable_, empty when there is none
  tables,     \* tables_, oldest first: sets of versions
  next,       \* next_sequence_
  floor,      \* last_sequence of the MANIFEST
  handle,     \* handle[h]: where Snapshot h stands, and its sequence
  limit,      \* options_.max_active_snapshots
  registry,   \* SnapshotState::active_: how many Snapshots a sequence has
  job,        \* the background compaction
  reopens     \* how often the database was opened again

vars == <<mem, imm, tables, next, floor, handle, limit, registry, job, reopens>>

Version == [key : Keys, seq : 1 .. MaxSequence, tombstone : BOOLEAN]
Absent == 0
NoHandle == [state |-> "none", seq |-> 0]
Idle == [stage |-> "idle", inputs |-> <<>>, full |-> FALSE, output |-> {}]
NoSnapshot == MaxSequence + 1
Registered == {q \in DOMAIN registry : registry[q] > 0}

-----------------------------------------------------------------------------
(* Point reads *)

\* The versions of k that a read at seq may see.
Visible(versions, k, seq) == {v \in versions : v.key = k /\ v.seq <= seq}

Newest(versions) == CHOOSE v \in versions : \A w \in versions : w.seq <= v.seq

\* MemTable::Get and SSTableReader::Get: the newest visible version, or none.
Find(versions, k, seq) ==
  LET visible == Visible(versions, k, seq)
  IN  IF visible = {} THEN {} ELSE {Newest(visible)}

Smallest(table) == Min({v.key : v \in table})
Largest(table) == Max({v.key : v \in table})

MayHold(table, k) == Smallest(table) <= k /\ k <= Largest(table)

\* DB::Impl::Get at a sequence: the newest of what every source finds.
Get(k, seq) ==
  LET found == Find(mem, k, seq) \cup Find(imm, k, seq) \cup
               UNION {Find(tables[i], k, seq) :
                        i \in {j \in DOMAIN tables : MayHold(tables[j], k)}}
  IN  IF found = {} \/ Newest(found).tombstone THEN Absent ELSE Newest(found).seq

-----------------------------------------------------------------------------
(* Writes and flushes *)

Init ==
  /\ mem = {} /\ imm = {} /\ tables = <<>> /\ next = 1 /\ floor = 0
  /\ handle = [h \in Handles |-> NoHandle]
  /\ registry = [q \in 0 .. MaxSequence |-> 0]
  /\ limit \in Limits /\ job = Idle /\ reopens = 0

\* Nobody holds mutex_ shared.
Exclusive == \A h \in Handles : handle[h].state # "reading"

Full(versions) == Cardinality(versions) >= MemLimit

\* The MemTables after a rotation, when one is due and possible.
Rotated(m) ==
  IF Full(m.mem) /\ m.imm = {} THEN [mem |-> {}, imm |-> m.mem] ELSE m

\* ApplyWriteGroup: a stalled group waits; rotation before and after as needed.
Write(batch) ==
  LET versions == {[key |-> batch[i].key, seq |-> next + i - 1,
                    tombstone |-> batch[i].tombstone] : i \in DOMAIN batch}
      before == Rotated([mem |-> mem, imm |-> imm])
      after == Rotated([before EXCEPT !.mem = @ \cup versions])
  IN  /\ Exclusive /\ ~(Full(mem) /\ imm # {})
      /\ next + Len(batch) <= MaxSequence + 1
      /\ mem' = after.mem /\ imm' = after.imm /\ next' = next + Len(batch)
      /\ UNCHANGED <<tables, floor, handle, registry, job, reopens, limit>>

\* The worker turns the immutable MemTable into the newest table, all versions.
Flush ==
  /\ Exclusive /\ imm # {} /\ job.stage = "idle"
  /\ tables' = Append(tables, imm) /\ imm' = {}
  /\ floor' = Max({v.seq : v \in imm})
  /\ UNCHANGED <<mem, next, handle, registry, job, reopens, limit>>

-----------------------------------------------------------------------------
(* Snapshots *)

\* GetSnapshot takes mutex_ shared and reads next_sequence_.
SnapshotReads(h) ==
  /\ handle[h].state = "none"
  /\ handle' = [handle EXCEPT ![h] = [state |-> "reading", seq |-> next - 1]]
  /\ UNCHANGED <<mem, imm, tables, next, floor, registry, job, reopens, limit>>

\* TryRegister, which refuses at the limit, and the end of the shared section.
SnapshotRegisters(h) ==
  LET count == FoldSet(LAMBDA q, n : registry[q] + n, 0, Registered)
  IN  /\ handle[h].state = "reading"
      /\ \/ /\ limit # 0 /\ count >= limit
            /\ handle' = [handle EXCEPT ![h] = NoHandle] /\ registry' = registry
         \/ /\ ~(limit # 0 /\ count >= limit)
            /\ handle' = [handle EXCEPT ![h].state = "open"]
            /\ registry' = [registry EXCEPT ![handle[h].seq] = @ + 1]
      /\ UNCHANGED <<mem, imm, tables, next, floor, job, reopens, limit>>

\* A mutant: the first Snapshot released at a sequence releases the others too.
UnregisterAll(seq) == registry' = [registry EXCEPT ![seq] = 0]

Unregister(seq) == registry' = [registry EXCEPT ![seq] = @ - 1]

\* ~Snapshot, at any time.
Release(h) ==
  /\ handle[h].state = "open"
  /\ handle' = [handle EXCEPT ![h] = NoHandle]
  /\ Unregister(handle[h].seq)
  /\ UNCHANGED <<mem, imm, tables, next, floor, job, reopens, limit>>

-----------------------------------------------------------------------------
(* Compaction *)

\* SnapshotState::OldestOr.
Oldest == IF Registered = {} THEN NoSnapshot ELSE Min(Registered)

\* Whether a compaction of all tables keeps v: without a Snapshot the newest version
\* of its key unless it is a tombstone; otherwise all above the watermark and the
\* newest one at or below it.
Retain(v, versions, watermark) ==
  IF watermark = NoSnapshot
    THEN ~v.tombstone /\ \A w \in versions : w.key = v.key => w.seq <= v.seq
    ELSE \/ v.seq > watermark
         \/ \A w \in versions : w.key = v.key /\ w.seq <= watermark => w.seq <= v.seq

\* What a compaction writes; one that leaves tables out keeps every version.
Compacted(inputs, full, watermark) ==
  LET versions == UNION Range(inputs)
  IN  {v \in versions : full => Retain(v, versions, watermark)}

\* The tables with the inputs replaced by the output, which may be no table at all.
Replaced(count, output) ==
  (IF output = {} THEN <<>> ELSE <<output>>)
  \o SubSeq(tables, count + 1, Len(tables))

\* The worker selects the oldest tables with mutex_ held, then releases it.
CompactSelects ==
  /\ Exclusive /\ job.stage = "idle" /\ imm = {} /\ Len(tables) >= Trigger
  /\ job' = [stage |-> "selected", inputs |-> SubSeq(tables, 1, Trigger),
             full |-> Trigger = Len(tables), output |-> {}]
  /\ UNCHANGED <<mem, imm, tables, next, floor, handle, registry, reopens, limit>>

\* It reads the watermark, without mutex_, and merges.
CompactMerges ==
  /\ job.stage = "selected"
  /\ job' = [job EXCEPT !.stage = "merged",
                        !.output = Compacted(job.inputs, job.full, Oldest)]
  /\ UNCHANGED <<mem, imm, tables, next, floor, handle, registry, reopens, limit>>

\* It installs the output with mutex_ held again.
CompactInstalls ==
  /\ Exclusive /\ job.stage = "merged"
  /\ tables' = Replaced(Trigger, job.output) /\ job' = Idle
  /\ UNCHANGED <<mem, imm, next, floor, handle, registry, reopens, limit>>

\* Compact() compacts the tables it has counted, with mutex_ held throughout.  It
\* counts them before it locks mutex_ for the last time: a flush may add one.
Compact ==
  \E count \in 1 .. Len(tables) :
    /\ Exclusive /\ job.stage = "idle"
    /\ tables' = Replaced(count, Compacted(SubSeq(tables, 1, count),
                                           count = Len(tables), Oldest))
    /\ UNCHANGED <<mem, imm, next, floor, handle, limit, registry, job, reopens>>

\* A mutant: the sequence restarts above what the recovered MemTables hold.
RecoveredMemTables == Max({0} \cup {v.seq : v \in mem \cup imm})

\* The largest sequence number that recovery finds.
RecoveredMax == Max({floor} \cup {v.seq : v \in mem \cup imm})

\* The database is closed, or dies, and is opened again: the WALs give the MemTables
\* back, a running compaction is gone.  It has a SnapshotState of its own, and refuses
\* the Snapshots of the one before.
Reopen ==
  /\ reopens < MaxReopens /\ Exclusive
  /\ reopens' = reopens + 1 /\ job' = Idle
  /\ registry' = [q \in DOMAIN registry |-> 0] /\ next' = RecoveredMax + 1
  /\ handle' = [h \in Handles |-> NoHandle]
  /\ UNCHANGED <<mem, imm, tables, floor, limit>>

Next ==
  \/ \E batch \in Batches : Write(batch)
  \/ Flush
  \/ \E h \in Handles : SnapshotReads(h) \/ SnapshotRegisters(h) \/ Release(h)
  \/ CompactSelects
  \/ CompactMerges
  \/ CompactInstalls
  \/ Compact
  \/ Reopen

Spec == Init /\ [][Next]_vars

-----------------------------------------------------------------------------
(* Properties *)

\* The Snapshots that Get and NewIterator of the present database accept.
Open == {h \in Handles : handle[h].state = "open"}

Map(seq) == [k \in Keys |-> Get(k, seq)]

\* The versions of a key are newest first from the MemTable down to the oldest table:
\* a source never holds a version that is older than one in a source below it, no
\* table is empty, and next_sequence_ is past them all.
SourcesAreOrdered ==
  LET sources == tables \o <<imm, mem>>
  IN  /\ \A i \in DOMAIN tables : tables[i] # {}
      /\ \A i \in DOMAIN sources : \A v \in sources[i] : v.seq < next
      /\ \A i, j \in DOMAIN sources :
           i < j => \A v \in sources[i], w \in sources[j] : v.seq < w.seq

\* The store as readers see it.
Store ==
  INSTANCE SnapshotStore WITH
    last <- next - 1,
    latest <- Map(next - 1),
    snapshots <- [h \in Open |-> Map(handle[h].seq)]

\* Reads implement SnapshotStore: a Snapshot shows what it showed when it was taken,
\* whatever is written, rotated, flushed, compacted or released around it; a Write applies
\* its whole batch to the latest state, and nothing else changes that.
ImplementsSnapshotStore == Store!Spec
===============================================================================
