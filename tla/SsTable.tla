-------------------------------- MODULE SsTable --------------------------------
(***************************************************************************)
(* The table file: SSTableBuilder, the codecs of sstable_builder.cpp and    *)
(* the decoding half of SSTableReader, as operators.                        *)
(*                                                                         *)
(* A key is a sequence of bytes, an entry its key and its sequence number;  *)
(* type and value travel with the entry and are left out.  A checksum holds *)
(* exactly when the section is the one that was written, so no section here *)
(* is damaged.  Sizes and block offsets are those of the file; inside a     *)
(* block a position counts records.  Corruption is the empty sequence.      *)
(***************************************************************************)
EXTENDS Naturals, Sequences, SequencesExt, FiniteSetsExt

Corruption == <<>>

-----------------------------------------------------------------------------
(* Order *)

SharedBytes(a, b) == Len(LongestCommonPrefix({a, b}))

\* BytewiseLess.
Less(a, b) ==
  LET n == SharedBytes(a, b)
  IN  n < Len(b) /\ (n = Len(a) \/ a[n + 1] < b[n + 1])

InternalLess(v, w) == Less(v.key, w.key) \/ (v.key = w.key /\ v.seq > w.seq)

StrictlyOrdered(entries) ==
  \A i \in 1 .. Len(entries) - 1 : InternalLess(entries[i], entries[i + 1])

-----------------------------------------------------------------------------
(* Data blocks *)

\* Version 1: every key in full.
EncodeDataBlockV1(entries) ==
  [records |-> [i \in DOMAIN entries |->
                  [shared |-> 0, rest |-> entries[i].key, seq |-> entries[i].seq]],
   restarts |-> [i \in DOMAIN entries |-> i - 1],
   size |-> FoldLeft(LAMBDA n, e : n + 17 + Len(e.key) + 4, 8, entries)]

\* Version 2: a key keeps what it does not share with the key before it, and every
\* interval-th key is kept in full.
EncodeDataBlock(entries, interval) ==
  LET shared == [i \in DOMAIN entries |->
                   IF (i - 1) % interval = 0 THEN 0
                   ELSE SharedBytes(entries[i - 1].key, entries[i].key)]
      records == [i \in DOMAIN entries |->
                    [shared |-> shared[i], seq |-> entries[i].seq,
                     rest |-> SubSeq(entries[i].key, shared[i] + 1, Len(entries[i].key))]]
      restarts == SelectSeq([i \in DOMAIN entries |-> i - 1], LAMBDA p : p % interval = 0)
  IN  [records |-> records, restarts |-> restarts,
       size |-> FoldLeft(LAMBDA n, r : n + 21 + Len(r.rest), 12 + 4 * Len(restarts), records)]

\* Whether a record can follow the key before it, and the entry it stands for.
FollowsKey(record, previous) == record.shared <= Len(previous) /\ record.seq # 0

DecodeV2Entry(record, previous) ==
  [key |-> SubSeq(previous, 1, record.shared) \o record.rest, seq |-> record.seq]

ParseV2BlockLayout(block) ==
  /\ block.records # <<>> /\ block.restarts # <<>>
  /\ Len(block.restarts) <= Len(block.records)
  /\ Head(block.restarts) = 0
  /\ \A i \in DOMAIN block.restarts :
       /\ block.restarts[i] < Len(block.records)
       /\ i > 1 => block.restarts[i - 1] < block.restarts[i]

\* The entries of consecutive records, the first of them a restart.
DecodeRecords(records, restarts) ==
  LET Step(out, i) ==
        LET previous == IF (i - 1) \in ToSet(restarts) \/ out = <<>> THEN <<>>
                        ELSE Last(out).key
            entry == DecodeV2Entry(records[i], previous)
        IN  IF \/ i > 1 /\ out = Corruption
               \/ ~FollowsKey(records[i], previous)
               \/ out # <<>> /\ ~InternalLess(Last(out), entry)
            THEN Corruption ELSE Append(out, entry)
  IN  FoldLeft(Step, <<>>, [i \in DOMAIN records |-> i])

DecodeDataBlockV1(block) == DecodeRecords(block.records, block.restarts)

DecodeDataBlockV2(block) ==
  IF ParseV2BlockLayout(block) THEN DecodeRecords(block.records, block.restarts)
  ELSE Corruption

DecodeDataBlock(block, version) ==
  IF version = 1 THEN DecodeDataBlockV1(block) ELSE DecodeDataBlockV2(block)

\* The first entry of k that a read at seq may see, or none.
FirstVisible(entries, k, seq) ==
  LET visible == {i \in DOMAIN entries : entries[i].key = k /\ entries[i].seq <= seq}
  IN  IF visible = {} THEN {} ELSE {entries[Min(visible)]}

\* The binary search of FindDataBlockEntry: how many restart keys are not above k.
RestartsUpTo(block, k) ==
  LET search[first \in Nat, last \in Nat] ==
        LET middle == first + (last - first) \div 2
            candidate == block.records[block.restarts[middle + 1] + 1].rest
        IN  CASE first >= last -> first
              [] first < last /\ ~Less(k, candidate) -> search[middle + 1, last]
              [] OTHER -> search[first, middle]
  IN  search[0, Len(block.restarts)]

\* FindDataBlockEntry: only the last restart group whose first key is not above k.
FindDataBlockEntry(block, version, k, seq) ==
  IF version = 1 THEN FirstVisible(DecodeDataBlockV1(block), k, seq)
  ELSE LET group == Max({1, RestartsUpTo(block, k)})
           end == IF group = Len(block.restarts) THEN Len(block.records)
                  ELSE block.restarts[group + 1]
           records == SubSeq(block.records, block.restarts[group] + 1, end)
       IN  FirstVisible(DecodeRecords(records, <<0>>), k, seq)

-----------------------------------------------------------------------------
(* Building *)

EmptyBuilder ==
  [pending |-> <<>>, bytes |-> 0, blocks |-> <<>>, index |-> <<>>, offset |-> 0,
   info |-> [count |-> 0, smallest |-> <<>>, largest |-> <<>>, min |-> 0, max |-> 0],
   ok |-> TRUE]

\* SSTableBuilder::FlushBlock.
FlushBlock(builder, interval) ==
  IF builder.pending = <<>> THEN builder
  ELSE LET block == EncodeDataBlock(builder.pending, interval)
           meta == [first |-> Head(builder.pending).key, last |-> Last(builder.pending).key,
                    offset |-> builder.offset, size |-> block.size]
       IN  [builder EXCEPT !.pending = <<>>, !.bytes = 0,
              !.blocks = Append(@, block), !.index = Append(@, meta),
              !.offset = @ + block.size]

\* A mutant: a block is cut inside the versions of one key.
StartsBlockAnywhere(builder, e, block_bytes) ==
  /\ builder.pending # <<>>
  /\ builder.bytes + 21 + Len(e.key) + (Len(builder.pending) + 1) * 4 + 8 > block_bytes

\* Whether the entry belongs into a new block: never one key in two blocks.
StartsBlock(builder, e, block_bytes) ==
  /\ builder.pending # <<>>
  /\ Last(builder.pending).key # e.key
  /\ builder.bytes + 21 + Len(e.key) + (Len(builder.pending) + 1) * 4 + 8 > block_bytes

InOrder(builder, e) ==
  /\ builder.pending # <<>> => InternalLess(Last(builder.pending), e)
  /\ builder.index # <<>> => Less(Last(builder.index).last, e.key)

\* SSTableBuilder::Add; a refused entry ends the build.
Add(builder, e, interval, block_bytes) ==
  IF ~builder.ok \/ ~InOrder(builder, e) THEN [builder EXCEPT !.ok = FALSE]
  ELSE LET b == IF StartsBlock(builder, e, block_bytes) THEN FlushBlock(builder, interval)
                ELSE builder
           first == b.info.count = 0
       IN  [b EXCEPT !.pending = Append(@, e), !.bytes = @ + 21 + Len(e.key),
              !.info = [count |-> @.count + 1, largest |-> e.key,
                        smallest |-> IF first THEN e.key ELSE @.smallest,
                        min |-> IF first THEN e.seq ELSE Min({@.min, e.seq}),
                        max |-> Max({@.max, e.seq})]]

IndexSize(index) ==
  FoldLeft(LAMBDA n, m : n + 24 + Len(m.first) + Len(m.last), 8, index)

PropertiesSize(info) == 36 + Len(info.smallest) + Len(info.largest)

FooterSize(version) == IF version = 1 THEN 36 ELSE 52

\* The file a finished builder leaves: blocks, index, properties and footer.
Finish(builder, interval) ==
  LET b == FlushBlock(builder, interval)
      properties_offset == b.offset + IndexSize(b.index)
  IN  [ok |-> b.ok /\ b.blocks # <<>>, blocks |-> b.blocks, index |-> b.index,
       properties |-> b.info,
       footer |-> [version |-> 2, index_offset |-> b.offset,
                   index_size |-> IndexSize(b.index),
                   properties_offset |-> properties_offset,
                   properties_size |-> PropertiesSize(b.info)],
       size |-> properties_offset + PropertiesSize(b.info) + FooterSize(2)]

BuildTable(entries, interval, block_bytes) ==
  Finish(FoldLeft(LAMBDA b, e : Add(b, e, interval, block_bytes), EmptyBuilder, entries),
         interval)

\* A table of the first format, in one block and without properties.
BuildTableV1(entries) ==
  LET block == EncodeDataBlockV1(entries)
      meta == [first |-> Head(entries).key, last |-> Last(entries).key,
               offset |-> 0, size |-> block.size]
  IN  [ok |-> TRUE, blocks |-> <<block>>, index |-> <<meta>>, properties |-> <<>>,
       footer |-> [version |-> 1, index_offset |-> block.size,
                   index_size |-> IndexSize(<<meta>>)],
       size |-> block.size + IndexSize(<<meta>>) + FooterSize(1)]

-----------------------------------------------------------------------------
(* Reading *)

DecodeIndex(index) ==
  \A i \in DOMAIN index :
    /\ ~Less(index[i].last, index[i].first)
    /\ i > 1 => Less(index[i - 1].last, index[i].first)

DecodeProperties(info) ==
  info.count # 0 /\ info.min # 0 /\ info.min <= info.max /\ ~Less(info.largest, info.smallest)

\* SSTableReader::Open accepts the footer's sections.
Opens(table) ==
  LET footer == table.footer
      sections_end == table.size - FooterSize(footer.version)
      index_end == footer.index_offset + footer.index_size
  IN  /\ index_end <= sections_end
      /\ IF footer.version = 1 THEN index_end = sections_end
         ELSE /\ index_end = footer.properties_offset
              /\ footer.properties_offset + footer.properties_size = sections_end
              /\ DecodeProperties(table.properties)
      /\ DecodeIndex(table.index)
      /\ \A i \in DOMAIN table.index :
           table.index[i].offset + table.index[i].size <= footer.index_offset

\* The block read at an offset of the file, decoded and compared with the index.
BlockAt(table, meta) ==
  LET at == {i \in DOMAIN table.blocks :
               meta.offset = FoldLeft(LAMBDA n, b : n + b.size, 0, SubSeq(table.blocks, 1, i - 1))}
      entries == DecodeDataBlock(table.blocks[Min(at)], table.footer.version)
  IN  IF at # {} /\ entries # <<>> /\ Head(entries).key = meta.first
         /\ Last(entries).key = meta.last /\ \A e \in ToSet(entries) : e.seq # 0
      THEN entries ELSE Corruption

PropertiesOf(entries) ==
  [count |-> Len(entries), smallest |-> Head(entries).key, largest |-> Last(entries).key,
   min |-> Min({e.seq : e \in ToSet(entries)}), max |-> Max({e.seq : e \in ToSet(entries)})]

\* SSTableReader::ValidateAndGetProperties, given its decoded blocks.
ValidateBlocks(table, blocks) ==
  /\ blocks # <<>> /\ \A i \in DOMAIN blocks : blocks[i] # Corruption
  /\ \A i \in 2 .. Len(blocks) : Less(Last(blocks[i - 1]).key, Head(blocks[i]).key)
  /\ table.footer.version = 2 => table.properties = PropertiesOf(FlattenSeq(blocks))

\* The block Get searches: the first one whose last key is not below k, if it reaches
\* down to k.
BlockFor(table, k) ==
  LET at == {i \in DOMAIN table.index : ~Less(table.index[i].last, k)}
  IN  {i \in at : i = Min(at) /\ ~Less(k, table.index[i].first)}

\* The block an iterator loads first, and whether it loads block i at all.
FirstBlock(table, begin) ==
  LET before == {i \in DOMAIN table.index :
                   \A j \in 1 .. i : Less(table.index[j].last, begin)}
  IN  Cardinality(before) + 1

LoadsBlock(table, i, end) ==
  i <= Len(table.index) /\ (end = <<>> \/ Less(table.index[i].first, end))

\* The entries of a loaded block the iterator stands on, one after the other.
InRange(entries, begin, end) ==
  SelectSeq(entries, LAMBDA e : ~Less(e.key, begin) /\ (end = <<>> \/ Less(e.key, end)))

\* SSTableReader::Scan: the blocks an iterator loads, and what it returns of each.
Scan(table, begin, end) ==
  LET loaded == {i \in FirstBlock(table, begin) .. Len(table.index) :
                   \A j \in FirstBlock(table, begin) .. i : LoadsBlock(table, j, end)}
      Returned(out, i) == IF i \in loaded
                          THEN out \o InRange(BlockAt(table, table.index[i]), begin, end)
                          ELSE out
  IN  FoldLeft(Returned, <<>>, [i \in DOMAIN table.index |-> i])
================================================================================
