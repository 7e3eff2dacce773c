-------------------------------- MODULE SSTable -------------------------------
(***************************************************************************)
(* A table file: the memtable is streamed into it block by block           *)
(* (SSTableWriter), and it is opened, looked up and iterated               *)
(* (SSTableReader).  The write may stop anywhere, and any part of the      *)
(* finished file but the offsets in its footer may be damaged at any time. *)
(*                                                                         *)
(* A file is a sequence of units: a record, a checksum, the filter, an     *)
(* index entry, the footer's fields and its magic number take one each.    *)
(* The checksum of a run of units is that run: no two collide.             *)
(***************************************************************************)
EXTENDS SkipList, Bloom

CONSTANTS
  BlockSize,   \* block_size_, in records
  Hashes,      \* MurmurHash128: functions from keys to pairs of words
  MaxFaults    \* bound: failing calls and damaged units

VARIABLES
  hash,      \* MurmurHash128
  pc,        \* "filling", "add", "block", "meta", "sync", "open" or "reading"
  node,      \* the memtable iterator of the flush
  \* the writer
  file,      \* the file
  todo,      \* what the WriteRaw calls under way have still to write
  buf,       \* block_buf_
  index,     \* index_
  added,     \* the keys bloom_ and num_entries_ have seen
  \* the reader
  reader,    \* what Open keeps in memory
  cached,    \* the blocks of this file in the block cache
  iter,      \* an iterator over the table
  \* the environment and ghosts
  faults,    \* failed calls and damaged units so far
  table,     \* ghost: what was flushed
  target,    \* ghost: where the iterator was put
  seen       \* ghost: the records it has yielded since

writerVars == <<file, todo, buf, index, added>>
readerVars == <<reader, cached, iter, target, seen>>
tableVars == <<hash, pc, node, writerVars, readerVars, faults, table>>
vars == <<listVars, tableVars>>

-------------------------------------------------------------------------------
(* The format *)

Rec(k, x) == <<"record", k, x>>
Crc32(units) == <<"crc", units>>
Magic == <<"magic">>
FooterSize == 2
Bad == <<"damaged", 0, NotFound>>

Summed(units) == Append(units, Crc32(units))

\* The len units at an offset, and whether the checksum behind them matches.
Region(f, off, len) == SubSeq(f, off + 1, off + len)
Intact(f, off, len) ==
  off + len + 1 <= Len(f) /\ f[off + len + 1] = Crc32(Region(f, off, len))

\* Mutant: the index is not where the footer says.
Metadata_FilterLengthOff(off, filter, idx, n) ==
  Summed(<<filter>>) \o Summed(idx)
    \o <<<<"footer", off, 1, off + 1, Len(idx), n>>, Magic>>

\* Filter, index and footer, as Finish writes them behind the data blocks.
Metadata(off, filter, idx, n) ==
  Summed(<<filter>>) \o Summed(idx)
    \o <<<<"footer", off, 1, off + 2, Len(idx), n>>, Magic>>

-------------------------------------------------------------------------------
(* SSTableReader *)

NoReader == [index |-> <<>>, filter |-> <<>>, smallest |-> 0, largest |-> 0, num_entries |-> 0]

\* The checks Open makes, in their order.
Opens(f) ==
  /\ Len(f) >= FooterSize
  /\ f[Len(f)] = Magic
  /\ LET foot == f[Len(f) - 1]
         last == f[foot[4] + foot[5]]
     IN  /\ Intact(f, foot[4], foot[5])
         /\ Intact(f, foot[2], foot[3])
         /\ foot[5] > 0 => Intact(f, last[3], last[4])

\* What Open keeps; without a block both ends of the range are empty.
OpenReader(f) ==
  LET foot == f[Len(f) - 1]
      idx == Region(f, foot[4], foot[5])
      end == idx[Len(idx)]
      block == Region(f, end[3], end[4])
  IN  [index |-> idx, filter |-> f[foot[2] + 1][2], num_entries |-> foot[6],
       smallest |-> IF idx = <<>> THEN 0 ELSE idx[1][2],
       largest |-> IF idx = <<>> THEN 0 ELSE block[Len(block)][2]]

\* The blocks that begin at or before a key; the last of them may hold it.
BlockFor(r, k) == {i \in DOMAIN r.index : r.index[i][2] <= k}

\* Mutant: the checksum behind the block is not compared.
BlockOK_NoCrc(r, f, i) == r.index[i][3] + r.index[i][4] + 1 <= Len(f)

\* ReadBlock.
BlockOK(r, f, i) == Intact(f, r.index[i][3], r.index[i][4])
BlockOf(r, f, i) == Region(f, r.index[i][3], r.index[i][4])

\* The entry for k in a block, the scan ending at the first key at or behind it.
ScanBlock(b, k) ==
  LET at == {p \in DOMAIN b : b[p][2] >= k}
  IN  IF at # {} /\ b[Min(at)][2] = k THEN b[Min(at)][3] ELSE NotFound

\* Get: the entry for k and the status, a block in the cache going unchecked.
TableGet(r, f, c, k) ==
  LET i == Max(BlockFor(r, k)) IN
  IF r.index = <<>> \/ ~MayContain(r.filter, hash[k]) \/ BlockFor(r, k) = {}
  THEN [entry |-> NotFound, ok |-> TRUE]
  ELSE IF i \in DOMAIN c THEN [entry |-> ScanBlock(c[i], k), ok |-> TRUE]
  ELSE IF BlockOK(r, f, i) THEN [entry |-> ScanBlock(BlockOf(r, f, i), k), ok |-> TRUE]
  ELSE [entry |-> NotFound, ok |-> FALSE]

-------------------------------------------------------------------------------
(* SSTableReader::Iterator *)

NoIter == [blk |-> 0, pos |-> 1, block |-> <<>>, valid |-> FALSE, ok |-> TRUE, rec |-> <<>>]

LoadBlock(st, i) ==
  [st EXCEPT !.blk = i, !.pos = 1, !.ok = BlockOK(reader, file, i),
             !.block = IF BlockOK(reader, file, i) THEN BlockOf(reader, file, i) ELSE @]

\* The iterator when it gets to a block, and the records at or behind k that it
\* has before it there.
AtBlock(st, i) == IF i = st.blk THEN st ELSE LoadBlock(st, i)
Ahead(s, k) == {p \in s.pos .. Len(s.block) : s.block[p][2] >= k}

\* The block in which parsing ends: the first that cannot be read or has such a
\* record, or the last.
ParseEnd(st, k) ==
  Min({i \in st.blk .. Len(reader.index) :
         LET s == AtBlock(st, i) IN ~s.ok \/ Ahead(s, k) # {} \/ i = Len(reader.index)})

\* Mutant: a block that cannot be read is taken for the end.
ParseTo_DropStatus(st, k) ==
  LET s == AtBlock(st, ParseEnd(st, k)) IN
  IF ~s.ok THEN [s EXCEPT !.valid = FALSE, !.ok = TRUE]
  ELSE IF Ahead(s, k) = {} THEN [s EXCEPT !.pos = Len(s.block) + 1, !.valid = FALSE]
  ELSE LET p == Min(Ahead(s, k))
       IN  [s EXCEPT !.rec = s.block[p], !.pos = p + 1, !.valid = TRUE]

\* Parse until a record at or behind k, or the end.
ParseTo(st, k) ==
  LET s == AtBlock(st, ParseEnd(st, k)) IN
  IF ~s.ok THEN [s EXCEPT !.valid = FALSE]
  ELSE IF Ahead(s, k) = {} THEN [s EXCEPT !.pos = Len(s.block) + 1, !.valid = FALSE]
  ELSE LET p == Min(Ahead(s, k))
       IN  [s EXCEPT !.rec = s.block[p], !.pos = p + 1, !.valid = TRUE]

\* The next record, whatever its key.
ParseCurrent(st) == ParseTo(st, 0)

\* Iterator::Seek; with the least key it is SeekToFirst.
Sought(k) ==
  LET idx == IF BlockFor(reader, k) = {} THEN 1 ELSE Max(BlockFor(reader, k))
  IN  ParseTo(LoadBlock(NoIter, idx), k)

-------------------------------------------------------------------------------
(* The flush *)

WriterInit == file = <<>> /\ todo = <<>> /\ buf = <<>> /\ index = <<>> /\ added = {}

Init ==
  /\ ListInit /\ WriterInit
  /\ hash \in Hashes
  /\ pc = "filling" /\ node = Null
  /\ reader = NoReader /\ cached = <<>> /\ iter = NoIter
  /\ target = 0 /\ seen = <<>> /\ faults = 0 /\ table = <<>>

\* A call fails, or the medium does; the bound on how often.
Fault == faults < MaxFaults /\ faults' = faults + 1

\* Put or Delete.
Write(k, x) ==
  /\ pc = "filling"
  /\ Insert(k, x)
  /\ UNCHANGED tableVars

\* FlushMemTable: open the writer, put the iterator on the first node.
Flush ==
  /\ pc = "filling" /\ count > 0
  /\ pc' = "add" /\ node' = forward[Head0][1]
  /\ file' = <<>> /\ todo' = <<>> /\ buf' = <<>> /\ index' = <<>> /\ added' = {}
  /\ UNCHANGED <<listVars, hash, readerVars, faults, table>>

\* Add one record; a block that is full, or the last one, goes to the file.
AddRecord ==
  /\ pc = "add" /\ node # Null
  /\ buf' = Append(buf, Rec(node, entry[node])) /\ added' = added \cup {node}
  /\ node' = forward[node][1]
  /\ IF Len(buf') >= BlockSize THEN pc' = "block" /\ todo' = Summed(buf')
                               ELSE UNCHANGED <<pc, todo>>
  /\ UNCHANGED <<listVars, hash, file, index, readerVars, faults, table>>

\* Mutant: the tail block is left in the buffer.
Finish_NoTail ==
  /\ pc = "add" /\ node = Null
  /\ pc' = "meta"
  /\ todo' = Metadata(Len(file), <<"filter", BuildFilter({hash[k] : k \in added}, Cardinality(added))>>,
                      index, Cardinality(added))
  /\ UNCHANGED <<listVars, hash, node, file, buf, index, added, readerVars, faults, table>>

\* Finish: the tail block first, then the metadata.
Finish ==
  /\ pc = "add" /\ node = Null
  /\ IF buf # <<>> THEN pc' = "block" /\ todo' = Summed(buf)
     ELSE /\ pc' = "meta"
          /\ todo' = Metadata(Len(file),
                      <<"filter", BuildFilter({hash[k] : k \in added}, Cardinality(added))>>,
                      index, Cardinality(added))
  /\ UNCHANGED <<listVars, hash, node, file, buf, index, added, readerVars, faults, table>>

\* WriteRaw, a unit at a time.  Behind a block, FlushBlock notes it in the index.
WriteRaw ==
  /\ pc \in {"block", "meta"}
  /\ file' = Append(file, Head(todo)) /\ todo' = Tail(todo)
  /\ IF todo' # <<>> THEN UNCHANGED <<pc, buf, index>>
     ELSE IF pc = "meta" THEN pc' = "sync" /\ UNCHANGED <<buf, index>>
     ELSE /\ pc' = "add" /\ buf' = <<>>
          /\ index' = Append(index, <<"entry", buf[1][2], Len(file') - Len(buf) - 1, Len(buf)>>)
  /\ UNCHANGED <<listVars, hash, node, added, readerVars, faults, table>>

\* The flush returns an error: the memtable stays, and the next flush takes
\* another file.
GiveUp ==
  /\ pc' = "filling" /\ node' = Null
  /\ file' = <<>> /\ todo' = <<>> /\ buf' = <<>> /\ index' = <<>> /\ added' = {}
  /\ UNCHANGED <<listVars, reader, table>>

\* A write, the fsync or the close fails.
WriteFail ==
  /\ pc \in {"block", "meta", "sync"} /\ Fault
  /\ GiveUp
  /\ UNCHANGED <<hash, cached, iter, target, seen>>

\* After fsync and close, Open; the engine then starts a fresh memtable.
Open ==
  /\ pc = "sync"
  /\ IF Opens(file)
     THEN /\ reader' = OpenReader(file) /\ pc' = "reading" /\ table' = entry
          /\ Reset
          /\ UNCHANGED <<node, writerVars>>
     ELSE GiveUp
  /\ UNCHANGED <<hash, cached, iter, target, seen, faults>>

-------------------------------------------------------------------------------
(* Reads, and a medium that fails *)

\* Get leaves the block it read in the cache ...
Lookup(k) ==
  /\ pc = "reading"
  /\ LET i == Max(BlockFor(reader, k)) IN
     /\ MayContain(reader.filter, hash[k]) /\ BlockFor(reader, k) # {}
     /\ i \notin DOMAIN cached /\ BlockOK(reader, file, i)
     /\ cached' = [j \in DOMAIN cached \cup {i} |->
                     IF j = i THEN BlockOf(reader, file, i) ELSE cached[j]]
  /\ UNCHANGED <<listVars, hash, pc, node, writerVars, reader, iter, target, seen, faults, table>>

\* ... until other blocks push it out.
Evict(i) ==
  /\ cached' = [j \in DOMAIN cached \ {i} |-> cached[j]]
  /\ UNCHANGED <<listVars, hash, pc, node, writerVars, reader, iter, target, seen, faults, table>>

\* Seek, or SeekToFirst when k is the least key.
IterSeek(k) ==
  /\ pc = "reading"
  /\ iter' = Sought(k) /\ target' = k
  /\ seen' = IF iter'.valid THEN <<iter'.rec>> ELSE <<>>
  /\ UNCHANGED <<listVars, hash, pc, node, writerVars, reader, cached, faults, table>>

IterNext ==
  /\ iter.valid
  /\ iter' = ParseCurrent(iter)
  /\ seen' = IF iter'.valid THEN Append(seen, iter'.rec) ELSE seen
  /\ UNCHANGED <<listVars, hash, pc, node, writerVars, reader, cached, target, faults, table>>

\* A unit of the finished file is damaged.
Damage(i) ==
  /\ pc \in {"sync", "reading"} /\ Fault
  /\ i # Len(file) - 1 /\ file[i] # Bad
  /\ file' = [file EXCEPT ![i] = Bad]
  /\ UNCHANGED <<listVars, hash, pc, node, todo, buf, index, added, readerVars, table>>

Next ==
  \/ \E k \in Keys, x \in Entries : Write(k, x)
  \/ Flush \/ AddRecord \/ Finish \/ WriteRaw \/ WriteFail \/ Open
  \/ \E k \in Keys : Lookup(k) \/ IterSeek(k)
  \/ \E i \in DOMAIN cached : Evict(i)
  \/ IterNext
  \/ \E i \in DOMAIN file : Damage(i)

Spec == Init /\ [][Next]_vars

-------------------------------------------------------------------------------
(* Properties *)

\* A file that opens holds the whole memtable: wherever the writer or its
\* process stops, Open rejects what it left behind, and what it accepts answers
\* every lookup as the memtable does, with its range and its number of entries.
OpenedIsWhole ==
  pc # "reading" /\ Opens(file) =>
    LET r == OpenReader(file)
        held == {k \in Keys : entry[k] # NotFound}
    IN  /\ r.smallest = Min(held) /\ r.largest = Max(held) /\ r.num_entries = Cardinality(held)
        /\ \A k \in Keys : LET g == TableGet(r, file, <<>>, k)
                           IN  g.entry = entry[k] \/ ~g.ok

\* A table that was flushed without an error opens, unless it was damaged since.
FinishedOpens == pc = "sync" /\ faults = 0 => Opens(file)

\* A lookup answers what was flushed or reports an error, whatever was damaged
\* and whatever the cache holds; it reports none for a file that is intact.
LookupRight ==
  pc = "reading" =>
    \A k \in Keys : LET g == TableGet(reader, file, cached, k)
                    IN  IF g.ok THEN g.entry = table[k] ELSE \E i \in DOMAIN file : file[i] = Bad

\* What an iterator still owes: the keys at or behind its target that it has not
\* yielded.
Owed ==
  {k \in Keys : k >= target /\ table[k] # NotFound} \ {seen[a][2] : a \in DOMAIN seen}

\* An iterator yields the records at or behind its target, in order and without
\* a gap, and if it ends without an error it has yielded them all.
IterationRight ==
  iter # NoIter =>
    /\ \A a \in DOMAIN seen : \E k \in Keys :
         k >= target /\ table[k] # NotFound /\ seen[a] = Rec(k, table[k])
    /\ \A a, b \in DOMAIN seen : a < b => seen[a][2] < seen[b][2]
    /\ \A k \in Owed, a \in DOMAIN seen : seen[a][2] < k
    /\ ~iter.valid /\ iter.ok => Owed = {}

\* The memtable is the map it stands for, for every choice of heights.
ImplementsMemTable == MemTable!Spec
===============================================================================
