------------------------------ MODULE TableCache ------------------------------
(***************************************************************************)
(* Readers of live tables that share one BlockCache, while flushes and      *)
(* compactions publish tables and drop them.  SSTableReader::Get, its       *)
(* iterator, ReadBlock and ValidateAndGetProperties; BlockCache.            *)
(*                                                                         *)
(* ReadBlock is two steps, Lookup and the read with its Insert: the cache   *)
(* is unlocked in between.  A Get holds mutex_ shared from start to end, an *)
(* iterator keeps only its reader, so a table may go while it reads.  What  *)
(* a compaction writes is the matter of VersionedReads; here an output is   *)
(* any of Contents.                                                         *)
(***************************************************************************)
EXTENDS SsTable, TLC

CONSTANTS
  Threads,       \* reading threads
  Contents,      \* entries of the tables that are built, in order
  Inputs,        \* sequences of entries offered to a builder, in order or not
  Keys,          \* keys, sequences of bytes
  Gets,          \* the Gets of a thread: key and sequence
  Scans,         \* the iterators of a thread: begin and end, empty for no end
  Capacity,      \* Options::block_cache_bytes, in entries; 0 turns the cache off
  Interval,      \* Options::sstable_restart_interval
  BlockBytes,    \* Options::block_bytes
  MaxNumber,     \* bound: table numbers handed out
  MaxFailures    \* bound: publications that fail

ASSUME CacheAssumption ==
  /\ {Capacity, BlockBytes, MaxNumber, MaxFailures} \subseteq Nat
  /\ Interval \in Nat \ {0}
  /\ \A c \in Contents : c # <<>> /\ StrictlyOrdered(c)

VARIABLES
  table,      \* table[n]: the file of table number n, kept as long as a reader has it
  live,       \* tables_: numbers, oldest first
  next,       \* next_file_number of the MANIFEST
  erasing,    \* obsolete numbers a compaction has still to erase from the cache
  lru,        \* BlockCache::lru_, most recent first
  charge,     \* charge_bytes_
  reader,     \* reader[t]: what thread t reads
  failures    \* how often a publication failed

vars == <<table, live, next, erasing, lru, charge, reader, failures>>

Build(entries) == BuildTable(entries, Interval, BlockBytes)
Sequences == 0 .. Max({e.seq : e \in UNION {ToSet(c) : c \in Contents}})
Idle == [op |-> "idle"]

-----------------------------------------------------------------------------
(* BlockCache *)

CacheKey(n, meta) == <<n, meta.offset>>

\* BlockCharge, counted in entries.
BlockCharge(block) == Len(block)

Cached(cache, key) == {i \in DOMAIN cache.lru : cache.lru[i].key = key}

MoveToFront(cache, i) == [cache EXCEPT !.lru = <<@[i]>> \o RemoveAt(@, i)]

\* Remove, from the back, until the block fits.
Evict(cache, size) ==
  LET Fits(n) == size + FoldLeft(LAMBDA c, e : c + e.charge, 0, SubSeq(cache.lru, 1, n))
                   <= Capacity
      kept == Max({n \in 0 .. Len(cache.lru) : n = 0 \/ Fits(n)})
      gone == SubSeq(cache.lru, kept + 1, Len(cache.lru))
  IN  [lru |-> SubSeq(cache.lru, 1, kept),
       charge |-> cache.charge - FoldLeft(LAMBDA c, e : c + e.charge, 0, gone)]

\* A mutant: a block that another thread inserted meanwhile is inserted again.
InsertAgain(cache, key, block) ==
  LET size == BlockCharge(block)
  IN  IF Capacity = 0 \/ size > Capacity THEN cache
      ELSE LET room == Evict(cache, size)
           IN  [lru |-> <<[key |-> key, block |-> block, charge |-> size]>> \o room.lru,
                charge |-> room.charge + size]

\* BlockCache::Insert.
Insert(cache, key, block) ==
  LET size == BlockCharge(block)
      found == Cached(cache, key)
  IN  IF Capacity = 0 \/ size > Capacity THEN cache
      ELSE IF found # {} THEN MoveToFront(cache, Min(found))
      ELSE LET room == Evict(cache, size)
           IN  [lru |-> <<[key |-> key, block |-> block, charge |-> size]>> \o room.lru,
                charge |-> room.charge + size]

\* BlockCache::EraseTable.
Erase(cache, n) ==
  LET Of(e) == e.key[1] = n
  IN  [lru |-> SelectSeq(cache.lru, LAMBDA e : ~Of(e)),
       charge |-> cache.charge
                    - FoldLeft(LAMBDA c, e : c + e.charge, 0, SelectSeq(cache.lru, Of))]

Cache == [lru |-> lru, charge |-> charge]
SetCache(cache) == lru' = cache.lru /\ charge' = cache.charge

-----------------------------------------------------------------------------
(* Publishing and dropping tables *)

\* A mutant: validation leaves its blocks in the cache.
ValidateCaches(n, file) ==
  FoldLeft(LAMBDA cache, m : Insert(cache, CacheKey(n, m), BlockAt(file, m)), Cache, file.index)

\* The cache after ValidateAndGetProperties, which reads every block without it.
Validate(n, file) == Cache

\* A written table is opened and validated before its publication.
Verified(file) ==
  file.ok /\ Opens(file)
  /\ ValidateBlocks(file, [i \in DOMAIN file.index |-> BlockAt(file, file.index[i])])

NoGet == \A t \in Threads : reader[t].op # "get"

\* A flush adds a table.
Flush(entries) ==
  /\ next <= MaxNumber /\ NoGet
  /\ Verified(Build(entries))
  /\ table' = [table EXCEPT ![next] = Build(entries)]
  /\ live' = Append(live, next)
  /\ next' = next + 1
  /\ SetCache(Validate(next, Build(entries)))
  /\ UNCHANGED <<erasing, reader, failures>>

\* An explicit compaction whose MANIFEST is not published: its file goes, its number
\* is handed out again.
PublishFails(entries) ==
  /\ next <= MaxNumber /\ live # <<>> /\ failures < MaxFailures
  /\ Verified(Build(entries))
  /\ failures' = failures + 1
  /\ SetCache(Validate(next, Build(entries)))
  /\ UNCHANGED <<table, live, next, erasing, reader>>

\* A compaction replaces the count oldest tables.  mutex_ is exclusive, which leaves
\* iterators alone.
Compact(count, entries) ==
  /\ next <= MaxNumber /\ NoGet /\ erasing = {} /\ count <= Len(live)
  /\ Verified(Build(entries))
  /\ table' = [table EXCEPT ![next] = Build(entries)]
  /\ live' = <<next>> \o SubSeq(live, count + 1, Len(live))
  /\ next' = next + 1
  /\ erasing' = ToSet(SubSeq(live, 1, count))
  /\ SetCache(Validate(next, Build(entries)))
  /\ UNCHANGED <<reader, failures>>

\* After the commit, without mutex_: the blocks of an obsolete table leave the cache.
EraseTable(n) ==
  /\ n \in erasing
  /\ erasing' = erasing \ {n}
  /\ SetCache(Erase(Cache, n))
  /\ UNCHANGED <<table, live, next, reader, failures>>

-----------------------------------------------------------------------------
(* Reading *)

Done(r, out) == [r EXCEPT !.op = "done", !.out = out]

\* SSTableReader::Get up to its first block; without a cache a block of the second
\* format is searched by its restarts and nothing else happens.
Get(t, n, k, seq) ==
  LET file == table[n]
      asked == [op |-> "get", what |-> "get", n |-> n, key |-> k, seq |-> seq, out |-> {},
                block |-> 0, missed |-> FALSE]
  IN  /\ reader[t].op = "idle" /\ n \in ToSet(live)
      /\ reader' = [reader EXCEPT ![t] =
           IF BlockFor(file, k) = {} THEN Done(asked, {})
           ELSE IF Capacity = 0 /\ file.footer.version = 2
           THEN Done(asked, FindDataBlockEntry(file.blocks[Min(BlockFor(file, k))],
                                               file.footer.version, k, seq))
           ELSE [asked EXCEPT !.block = Min(BlockFor(file, k))]]
      /\ UNCHANGED <<table, live, next, erasing, lru, charge, failures>>

\* SSTableReader::NewIterator; Seek finds the first block.
NewIterator(t, n, begin, end) ==
  LET first == FirstBlock(table[n], begin)
      asked == [op |-> "scan", what |-> "scan", n |-> n, key |-> begin, end |-> end,
                out |-> <<>>, block |-> first, missed |-> FALSE]
  IN  /\ reader[t].op = "idle" /\ n \in ToSet(live)
      /\ reader' = [reader EXCEPT ![t] =
           IF LoadsBlock(table[n], first, end) THEN asked ELSE Done(asked, <<>>)]
      /\ UNCHANGED <<table, live, next, erasing, lru, charge, failures>>

\* What a thread does with the block it asked for: Get answers from it, an iterator
\* returns its entries and asks for the next block.
Receive(r, entries) ==
  IF r.what = "get" THEN Done(r, FirstVisible(entries, r.key, r.seq))
  ELSE LET out == r.out \o InRange(entries, r.key, r.end)
           more == r.end = <<>> \/ Less(Last(entries).key, r.end)
       IN  IF more /\ LoadsBlock(table[r.n], r.block + 1, r.end)
           THEN [r EXCEPT !.out = out, !.block = @ + 1, !.missed = FALSE]
           ELSE Done(r, out)

Meta(r) == table[r.n].index[r.block]

\* A mutant: the cache is asked for the offset alone.
LookupByOffset(t) ==
  LET r == reader[t]
      found == {i \in DOMAIN lru : lru[i].key[2] = Meta(r).offset}
  IN  /\ r.op \in {"get", "scan"} /\ ~r.missed
      /\ IF found = {}
         THEN reader' = [reader EXCEPT ![t].missed = TRUE] /\ SetCache(Cache)
         ELSE /\ reader' = [reader EXCEPT ![t] = Receive(r, lru[Min(found)].block)]
              /\ SetCache(MoveToFront(Cache, Min(found)))
      /\ UNCHANGED <<table, live, next, erasing, failures>>

\* ReadBlock asks the cache.
Lookup(t) ==
  LET r == reader[t]
      found == Cached(Cache, CacheKey(r.n, Meta(r)))
  IN  /\ r.op \in {"get", "scan"} /\ ~r.missed
      /\ IF found = {}
         THEN reader' = [reader EXCEPT ![t].missed = TRUE] /\ SetCache(Cache)
         ELSE /\ reader' = [reader EXCEPT ![t] = Receive(r, lru[Min(found)].block)]
              /\ SetCache(MoveToFront(Cache, Min(found)))
      /\ UNCHANGED <<table, live, next, erasing, failures>>

\* ReadBlock after a miss: reads, decodes, compares with the index and inserts.
ReadBlock(t) ==
  LET r == reader[t]
      block == BlockAt(table[r.n], Meta(r))
  IN  /\ r.op \in {"get", "scan"} /\ r.missed
      /\ SetCache(Insert(Cache, CacheKey(r.n, Meta(r)), block))
      /\ reader' = [reader EXCEPT ![t] = Receive(r, block)]
      /\ UNCHANGED <<table, live, next, erasing, failures>>

\* The caller takes the answer.
Return(t) ==
  /\ reader[t].op = "done"
  /\ reader' = [reader EXCEPT ![t] = Idle]
  /\ UNCHANGED <<table, live, next, erasing, lru, charge, failures>>

-----------------------------------------------------------------------------

NoTable == [ok |-> FALSE]

\* A database opened with one table of the first format.
Init ==
  /\ \E c \in Contents : table = [n \in 1 .. MaxNumber |->
                                    IF n = 1 THEN BuildTableV1(c) ELSE NoTable]
  /\ live = <<1>>
  /\ next = 2
  /\ erasing = {}
  /\ lru = <<>>
  /\ charge = 0
  /\ reader = [t \in Threads |-> Idle]
  /\ failures = 0

Next ==
  \/ \E c \in Contents : Flush(c) \/ PublishFails(c) \/ \E n \in 1 .. Len(live) : Compact(n, c)
  \/ \E n \in erasing : EraseTable(n)
  \/ \E t \in Threads :
       \/ \E n \in ToSet(live) : \/ \E g \in Gets : Get(t, n, g.key, g.seq)
                               \/ \E s \in Scans : NewIterator(t, n, s.begin, s.end)
       \/ Lookup(t) \/ ReadBlock(t) \/ Return(t)

Spec == Init /\ [][Next]_vars

-----------------------------------------------------------------------------
(* Properties *)

\* What a table holds, read without its index, restarts or cache.
EntriesOf(file) ==
  FlattenSeq([i \in DOMAIN file.blocks |-> DecodeDataBlock(file.blocks[i], file.footer.version)])

Newest(entries, k, seq) ==
  {e \in ToSet(entries) : /\ e.key = k /\ e.seq <= seq
                          /\ \A f \in ToSet(entries) : f.key = k /\ f.seq <= seq => f.seq <= e.seq}

\* "Get(key, snapshot) and NewIterator(..., snapshot) select the greatest entry sequence no
\* greater than the Snapshot sequence" (docs/design/snapshot-mvcc.md): a Get of one table
\* answers with the newest entry at its sequence, an iterator with exactly the entries of
\* its range in order, whatever was cached, evicted or erased while it read.
AnswersMatchTheTable ==
  \A t \in Threads : reader[t].op = "done" =>
    LET r == reader[t]
        entries == EntriesOf(table[r.n])
    IN  IF r.what = "get" THEN r.out = Newest(entries, r.key, r.seq)
        ELSE r.out = SelectSeq(entries, LAMBDA e : ~Less(e.key, r.key)
                                                   /\ (r.end = <<>> \/ Less(e.key, r.end)))

\* A cached block belongs to a published table and is that table's block: an output that
\* was validated but not published leaves none behind for the next file of its number
\* (ReadBlock is called without the cache by ValidateAndGetProperties).  No live table is
\* being erased.
CacheIsCoherent ==
  /\ ToSet(live) \cap erasing = {}
  /\ \A i \in DOMAIN lru :
       /\ lru[i].key[1] < next
       /\ \E m \in ToSet(table[lru[i].key[1]].index) :
            m.offset = lru[i].key[2] /\ lru[i].block = BlockAt(table[lru[i].key[1]], m)

\* charge_bytes_ is what the blocks weigh and within the capacity, and no block is cached
\* twice, also when two threads miss it at once.
CacheIsAccounted ==
  /\ charge = FoldLeft(LAMBDA c, e : c + e.charge, 0, lru)
  /\ charge <= Capacity
  /\ \A i, j \in DOMAIN lru : lru[i].key = lru[j].key => i = j

\* The entries a reference reading of ordered contents gives.
ReadsBack(c, file) ==
  /\ Verified(file)
  /\ EntriesOf(file) = c
  /\ \A k \in Keys, seq \in Sequences :
       LET at == BlockFor(file, k)
       IN  Newest(c, k, seq) = IF at = {} THEN {}
                               ELSE FirstVisible(BlockAt(file, file.index[Min(at)]), k, seq)
  /\ \A begin, end \in Keys \cup {<<>>} : end = <<>> \/ ~Less(end, begin) =>
       Scan(file, begin, end) =
         SelectSeq(c, LAMBDA e : ~Less(e.key, begin) /\ (end = <<>> \/ Less(e.key, end)))

OneVersionEach(c) == \A i, j \in DOMAIN c : c[i].key = c[j].key => i = j

\* SSTableBuilder accepts exactly the strictly ordered inputs, whatever the restart
\* interval and wherever its blocks end, and what it wrote opens, validates against its own
\* properties and answers every Get from one block and every Scan in order.  The restart search of
\* FindDataBlockEntry finds what a linear search finds when no key has two versions.
\* (Of all Inputs, in the first state.)
BuiltTablesReadBack ==
  next = 2 /\ lru = <<>> /\ failures = 0 /\ (\A t \in Threads : reader[t] = Idle) =>
    \A input \in Inputs, interval \in 1 .. Interval + 1 :
      LET file == BuildTable(input, interval, BlockBytes)
      IN  /\ file.ok <=> (input # <<>> /\ StrictlyOrdered(input))
          /\ file.ok => ReadsBack(input, file)
          /\ file.ok /\ OneVersionEach(input) =>
               \A k \in Keys, seq \in Sequences :
                 FindDataBlockEntry(EncodeDataBlock(input, interval), 2, k, seq) =
                 FirstVisible(input, k, seq)

===============================================================================
