# Verification of the LSM-tree database engine

TLA+ modules, TLC configurations and TLAPS proofs for the storage engine under
`src/`: an embedded key-value store with a write-ahead log, a skip-list memtable,
SSTables in levels, one background compaction thread, a manifest and crash
recovery.

## 1. The system

One client thread calls `Put`, `Delete`, `Get`, `Scan` and `TEST_FlushMemTable`
(the memtable and the log have no lock of their own); one background thread
compacts. They share `current_` (an immutable `Version`, swapped as a whole),
`next_file_number_` and the `MANIFEST` file, all under `mu_`.

| part | where | what it does |
|---|---|---|
| engine | `src/src/db.cpp` | a write is logged, then applied to the memtable; at a threshold the same call writes the memtable to a level-0 file, swaps the version, rewrites the manifest, truncates the log |
| compaction | `src/src/db.cpp:488-697` | picks all of level 0, or one file of a level over its budget, with the overlapping files of the next level; merges them into new files outside `mu_`; swaps version and manifest; unlinks the inputs |
| recovery | `src/src/db.cpp:105-274` | loads the manifest, replays the log into the memtable, opens the log for append, unlinks what no level names |
| log | `src/src/wal.cpp` | CRC-framed records, optional fsync; replay stops at the first frame that is not intact |
| iterators | `src/src/merging_iterator.cpp`, `DB::Scan` | k-way merges for compactions and range scans |
| block cache | `src/src/cache.cpp` | LRU by bytes, used by point lookups |
| SSTable | `src/src/sstable.cpp` | blocks with CRC, sparse index, Bloom filter, footer |
| memtable | `src/src/skiplist.cpp` | ordered map, tombstones included |
| Bloom filter, hash, CRC-32, coding | `src/src/*.cpp`, `src/include/lsmdb/*.h` | pure functions |

What is hard about it: the two threads swap versions of each other's making;
deciding that a tombstone may go is separated from dropping it; a flush and a
compaction publish their result in several steps, between any two of which the
process may die or a system call may fail; file numbers are handed out to both
threads and again after a crash; and the error paths return early, leaving some
of the steps done. `PROJECT.json` lists these hazards line by line.

## 2. Modules

    KVStore      the promise: a map that survives crashes
       ^  implements (proved; run crash)
    DB ------------- EXTENDS Version        LogSpec   the log as DB uses it
       |                                       ^  implements (proved; run log)
    DBInv, DBProofs                         Wal       frames, short writes, fsync

    Version      files, levels, reads, picking/merging/installing a compaction
       ^  EXTENDS
    Reads        lookups, scans, merges     Background    threads and condition variables

    MemTableSpec a map                      BlockCache    LRU under two readers
       ^  implements (proved; run flush)    PowerLoss     the directory, no fsync of it
    SkipList, Bloom
       ^  EXTENDS
    SSTable      writer, file, reader

**Version** has no state. A table is a function from keys to `NotFound`, `Deleted`
or a value, a file a number and a table, a version a set of files per level. Level
0 needs no order of its own: the newest file is the one with the highest number,
which is the order `std::sort` and `push_back` give it. File sizes are counted in
entries. `GetFromVersion`, `NeedsCompaction`, `PickCompaction`,
`InstallCompaction` keep the source's names; `Merged` is what a compaction's merge
yields, tombstones dropped when it is bottommost, and `Chunk` the part of it that
goes in the next output.

**DB** is the engine. Client actions: `Log`/`LogFail` (AddRecord), `Apply`
(memtable insert, and at the threshold the flush), `FlushCall`, `FlushAlloc`,
`FlushBuild`, `FlushInstall`, `FlushReset`. Background actions: `BgPick`,
`BgOpenOutput`, `BgFinishOutput`, `BgFail`, `BgInstall`, `BgUnlink`. Then `Crash`
and `Recover`. A step ends where the code releases `mu_` or makes something
durable; `MuFree` keeps the other thread out in the two places where `mu_` is held
across two steps. `disk`, `manifest`, `wal` and `torn` survive a crash, everything
else is lost. `wal` is the table replay yields; `torn` says that a torn frame hides
whatever is appended. A failing system call is a `Fault`; each error path is a
disjunct of its action and changes what the code has changed by then. A crash here
is one of the process: what was written stays. `Recover` is one step because all it
changes on disk is to unlink tables that the manifest does not name: a crash in the
middle leaves some of them to the next `Recover`.

**KVStore** is what the engine promises: `store` is what reads answer now,
`durable` what they would answer after a crash now. An acknowledged write is in
both; a crash replaces `store` by `durable`. Once a log write has been cut short
the store is `lossy`: it may acknowledge writes that a crash takes back, until a
flush has made everything durable (section 5, run `torn`). Under the mapping in
`DB` (`StoreView`, `DurableView`, `OpView`, `lossy <- torn`) every step of the
engine is one of KVStore's or a stutter.

**Wal** opens up `wal` and `torn`: the file is a sequence of units, `WriteFully`
appends any number of them per call, `Intact`/`Delivered` are the parsing loop, and
a crash is the death of the process, which leaves the file and what is synced of it
as they are, or a power loss that cuts the file back to what was synced; the one may
follow the other, so a frame that a dead process left unsynced is replayed, appended
to, and may yet be lost. CRCs do not collide. `LogSpec` is what `DB` assumes of it, and in addition says which keys
a power loss may take back: none that was acknowledged with `sync` on.

**SkipList** is the memtable with its towers: `Walk`, `Update`, `Overwrite` and
`Link` are the parts of `Insert`, and the height is any that `RandomLevel` can
return. Values have size 1, tombstones 0, a pointer 1. `UsageAccounted` counts the
bytes of the nodes one by one (`Bytes`), so that it needs no sum. **Bloom** has the filter as
operators: hashes are given, words wrap at `WordMod`, the stored bit count at
`CountMod`.

**SSTable** composes them: `Write` fills the memtable, `Flush`, `AddRecord`,
`Finish`, `WriteRaw` stream it into a file one unit at a time (a record, a
checksum, the filter, an index entry, the footer and its magic are a unit each),
`Open` runs the reader's checks, `Lookup`, `Evict`, `IterSeek`, `IterNext` use the
table. Every state in between is a file that a crash may leave, and
`OpenedIsWhole` is asked in every one of them. `WriteFail` ends the flush at any
unit, `Damage` overwrites a unit of the finished file. Not damaged are the
offsets in the footer, the one part of a table without a checksum; checksums do not
collide.

**Reads** has the three ways tables are read together: `MergingIterator`
(`SeekToFirst`, `NextRecord`), `DB::Scan` (`ScanSeek`, `ScanMerge`, `ScanFinish`)
and `DB::Get` (`GetStart`, `GetAsk`, a table at a time). Any table may fail when it
is read. What a table yields when it does not fail is what `SSTable` shows of it.
The tables of a call are a set; `Precedes` is the order in which the code lists
them, and the first of several that hold a key is the one that counts. `Calls` is
any set of calls on well-formed versions (`CallsAssumption`), which are the only
ones the engine has (`DisjointLevels`, `IntactFiles`) and picks compactions from
(`PickedMerges`).

**PowerLoss** reduces the engine to its directory: what flushes and compactions
create, rename, truncate and unlink is pending until the file system gets to it.
`Ordered` says whether it does so in order. The data of a file is synced before
its name is used, as in the code.

**Background** is the signalling: `FlushMemTable`'s notification,
`BackgroundLoop`, `TEST_WaitForCompactions`, the destructor. Levels are file
counts. A waiting thread sleeps, wakes on notification, spuriously (`bg_cv_.wait`)
or after 50 ms (`idle_cv_.wait_for`); the disk may break and recover at any time.

**BlockCache** is the LRU list, with the lookup and the insertion of a missed block
as two critical sections.

## 3. What is checked

A mutant, a plausible mistake in the code a definition models, accompanies every
property of every passing run and is written next to that definition.

| run | bounds | distinct states | shows |
|---|---|---|---|
| `crash` | 2 keys, 2 writes, 4 file numbers, 2 crashes, torn appends | 188,285 | `ManifestLoadable`, `AckedDurableUnlessTorn`, `NoOrphans`, `ImplementsKVStore` |
| `faults` | 2 keys, 2 writes, 4 numbers, 1 failing call, 1 crash | 248,285 | `TypeOK`, `LiveFilesIntact`, `ReadsStable`, and the inductive invariant `IInv`, which implies `ManifestLoadable` and `AckedDurableUnlessTorn` |
| `levels` | 3 keys, 3 writes, 9 numbers, 4 levels | 70,883 | `LevelsDisjoint`, `TombstonesReclaimed`, `ReadsStable` |
| `threads` | trigger 2, at most 4 and 3 files | 1,668 | `SleepsOnlyWhenIdle`, `WaitMeansIdle`, `WaitReturns`, `WorkTakenUp`, `CloseReturns` |
| `log` | 2 keys, 7 units, 2 crashes or power losses, sync on | 145,689 | `AckedReplayed`, `ReplayedWhole`, `ImplementsLogSpec` |
| `flush` | 3 keys, towers of 3, blocks of 2 records, 2 hash functions, 2 failures or damaged units | 167,026 | `TowersLinked`, `UsageAccounted`, `ImplementsMemTable`, `OpenedIsWhole`, `FinishedOpens`, `LookupRight`, `IterationRight` |
| `reads` | 3 keys, memtable and 2 files over a split level, 1 failure at a time | 843,950 | `DeliversMerged`, `CompleteUnlessFailed`, `AgreesWithGet`, `NothingToTakeBack`, `GetFindsNewest` |
| `cache` | 2 readers, blocks of 1, 2, 3, 5 bytes, capacity 4 | 1,501 | `Accounted`, `WithinBudget`, `KeepsMostRecent` |
| `torn`, `retry`, `unreadable`, `power` | violated, see section 5 | | `AckedDurable`, `FailedCompactionKeepsVersion`, `GetCatchesCorruption`, `AckedSurvivePowerCut` |

Why the bounds are enough for the cases that matter: two keys give files that
overlap without being equal, three give a file between two others and partial
overlaps of a picked file with the next level. A trigger of one or two makes every
flush or every second one start a compaction. Three writes and nine numbers sink
a delete to the last of four levels while a flush lands in the middle. With one
failure and one crash every error path is followed by a restart. In `Background` a
flush at any moment of a compaction, a backlog in both levels and a recovery of the
disk all occur. Seven units hold two whole frames, or a torn one with a whole one
behind it. In `flush` a table has one or two blocks, the last one full or not; a
key lies in front of the first block, between two or behind the last; one of the
two hash functions spreads the keys, under the other every probe wraps and the
filter lets an absent key through. Two failures are a failed flush that is tried
again and then damaged, or damage in two blocks, of which one may be cached. In
`reads` the tables take every content, the upper ones restricted to two of the three
keys. In `cache` one block exceeds the whole capacity and the largest fitting set
has two. Deadlock checking is off where the bounds, or the
end of a merge, stop the system; that the two threads never wait for each other for
ever is what `threads` checks.

Fairness is assumed in `Background` alone: weak fairness of the steps inside a call
(`InCall`) and of the background thread's steps. Both are threads that the operating
system schedules, none of whose steps waits for anything but a lock that is always
released, and `idle_cv_.wait_for` has a timeout. Calls, spurious wakeups and the
disk are not fair. `WaitReturns` is conditional on the disk working from some time
on, because the loop retries a failing compaction for ever.

## 4. What is proved

`tlapm` proves, for all keys, values, options (`OptionsAssumption`: a trigger of at
least 1, at least two levels) and bounds:

- `DBProofs`: `TypeCorrect`, `DisjointLevels`, `IntactFiles`, `AlwaysLoadable`,
  `Durability`, `StableReads`, each from `Invariance`, that is `Spec => []IInv`;
  `Refinement`, that is `Spec => ImplementsKVStore`; `Reclaimed`
  (`TombstonesReclaimed`) and `NothingLeftBehind` (`NoOrphans`, about `.sst` files only);
- `SSTableProofs`, on the lemmas of `TableProofs`: `TowersAlwaysLinked`
  (`TowersLinked`), `UsageAlwaysAccounted` (`UsageAccounted`), `RefinesMemTable`, that
  is `Spec => ImplementsMemTable`; `FinishedAlwaysOpens` (`FinishedOpens`),
  `OpenedAlwaysWhole` (`OpenedIsWhole`), `LookupAlwaysRight` (`LookupRight`),
  `IterationAlwaysRight` (`IterationRight`), each from `TableInvariant`;
- `VersionProofs!CompactionKeepsReads`: installing a picked compaction whose
  outputs hold its merged stream leaves every read unchanged;
- `BackgroundProofs`: `NoLostWakeup`, `WaitSeesIdle`, `CountsInBounds`;
- `WalProofs`: `WalTypes`, `OnlyWholeRecords` (`ReplayedWhole`),
  `AcknowledgedReplayed` (`AckedReplayed`), `LogRefinement`, that is
  `Spec => ImplementsLogSpec`;
- `ReadsProofs`: `MergeDelivers` (`DeliversMerged`), `MergeComplete`
  (`CompleteUnlessFailed`), `ScanCollects` (`NothingToTakeBack`), `ScanAgrees`
  (`AgreesWithGet`), `LookupFindsNewest` (`GetFindsNewest`);
- `BlockCacheProofs`: `CacheTypes`, `ExactAccounting` (`Accounted`), `Budget`
  (`WithinBudget`), `LeastRecentlyUsed` (`KeepsMostRecent`).

The assumptions are the named `ASSUME`s of `Version`, `DB`, `Background`, `Wal`,
`Reads`, `BlockCache`, `SkipList` and `Bloom`; TLC evaluates them in the runs. Three
theorems have a hypothesis of their own. `AcknowledgedReplayed` supposes
`PowerLoss => Sync`, because without `sync` the code promises nothing across a power
failure; the other theorems about the log hold for all four settings.
`OpenedAlwaysWhole` and `LookupAlwaysRight` suppose `FilterFits`, that the bit count of
a filter over the keys does not wrap when `bloom.cpp:37` stores it in 32 bits: a count
that wraps makes the reader probe other bits than the builder set. The instance of run
`flush` satisfies it (72 bits, `CountMod` 256). Nothing is assumed of the block size, the
hash functions and the number of faults; `kMaxLevel` is at least 1.

**Why `IInv` is needed.** That reads stay the same when a compaction is installed
does not follow from the version being well formed: it needs that the picked files
are still in the version (`PickOK`, which survives a flush because a flush only adds
a newer level-0 file), that the outputs and what is left of the merge share out the
merged stream (`MergeInv`), and that `bottommost` still describes the levels below.
That the manifest loads after a crash needs that the two threads' unfinished files
are ones nobody names (`Private`) and differ from each other (`CompactionInv`), and
that the version the manifest describes is well formed in its own right
(`ManifestInv`), because after a failed manifest write it is not the running one.
Durability needs that the log covers the memtable (`LogInv`), and that while the
memtable is being reset the manifest already has its file (`FlushInv`).

Two more invariants are inductive on top of it. `LastLevelInv`: neither the last
level of the running version nor that of the version a restart would load holds a
tombstone; it needs that a compaction into the last level is bottommost and that
its outputs come from its merged stream. `DirectoryInv`: as long as no call failed,
a file on disk is named by the version, or is one that a thread writes, an output
not installed yet or an input not unlinked yet.

**The argument**, bottom up: `VersionProofs` (tables, merging, chunks; which entry a
read finds, and that a newer file in level 0 shadows; the install), then in `DBProofs`
that `TypeOK` is inductive, what each action does to reads and to well-formedness, and
one step per action for `IInv`. The refinement goes on from there: what
recovery would load (`DurableView`) changes only where the log or the manifest does,
and installing a file or a compaction changes what the manifest's version reads as
exactly as it changes the running one's, so each action is a `Log`, `Apply`, `Fail`,
`Settle`, `Crash` or stutter of `KVStore`. The one step where this is delicate is a
manifest written while the running version is ahead of the old manifest, after a
failed write: on an intact log both read alike, on a torn one they may not, which
is why `Settle` is looser in a lossy store. `BackgroundProofs` strengthens
`SleepsOnlyWhenIdle` by `PickFits` (the picked files are still there and `bg_busy_`
is set) and `FlushFits` (a file bound).

**The log.** Replay is a recursive function over the positions of the file, and the
library's induction theorems cannot be used here. `ReachedIs` goes around them: a
counterexample furthest from the front would have none behind it, so the positions
replay goes through are the least set that contains the first and is closed under
`NextFrame` at intact frames (`Closed`). From that follows what the steps need: two
files of which one begins the other (`Begins`) are replayed through the same
positions as far as the shorter goes, and once replay is stuck in front of a torn
frame no append frees it (`TornStays`). That an intact frame is one that was written
(`IntactIsWhole`) rests on the checksum being injective, and on a length being
recognisable. `WalInv` adds to the types that from `start` on the file holds a
beginning of the frame in progress (`InProgress`) and that nothing of it is synced
before it is complete; `SafeInv` that acknowledged records lie in what a crash leaves
of the file (`Stable`). The refinement maps the log to what was there before the
frame in progress, so that `AddRecord` is a stutter until it returns.

**Lookups, scans and merges.** `ReadsInv` says of a merge or a scan that there is a
set `R` of keys still ahead such that each iterator stands at its first key in `R`,
and the records delivered are the wanted ones among the keys not in `R`
(`Progress`). One round takes the smallest key of all (`Round`), the first table that
holds it decides (`TopHit`, from the order of the levels and from files of a sorted
level not sharing a key), and `R` shrinks to the keys behind it (`Deliver`,
`PassOver`). For a scan this is only claimed while nothing has failed: a failed
iterator drops out, and older entries may come to light, which is why `ScanFinish`
must ask for the status. Of a lookup `ReadsInv` says that every table that holds the
key is still to be asked: the range checks leave out none (`HolderAsked`), and each
sorted level has one candidate at most (`OneAsked`).

**The cache.** `used_bytes` is exact because a block is listed once, which needs that
`Insert` looks again after a miss; with two readers between `Lookup` and `Insert`
that is the case the proof turns on. `KeepsMostRecent` is inductive by itself:
promoting in a list and in a list it begins, and cutting off the end of the shorter
one, leave the one a beginning of the other.

**The memtable.** `ListInv` is `TowersLinked` and `UsageAccounted` with the nodes, the
entries and the count in step (`ListOK`). `Walk` is a recursive function over nodes;
`WalkIs` gets along without induction over data: of the nodes before the key from which
the walk would go wrong, the last has a successor from which it goes right. So the walk
ends at the last node before the key (`IsBefore`, of which there is exactly one), and
`Update`, from the top level down, is that node at every level (`UpdateIs`). A new tower
linked in behind those nodes therefore splits each level's list in two places that were
neighbours (`LinkLinks`), at levels no search has visited too, where the head is the
node before. With that the list is a map: a search finds a key exactly when it has an
entry (`GetIs`).

**The table file.** The argument needs to know what the blocks were, also when the file
no longer shows it: `TableInv(B)` is stated for the blocks `B` written so far, and the
invariant is `ListInv /\ \E B : TableInv(B)`. In each phase it relates `B` to one other
thing. While blocks are written, blocks and buffer share out the keys before the
iterator's node (`Taken`, for which the list has to lead from each key to the next,
`Walkable`), and each block lies where its index entry says (`Stored`, `Lies`: each unit
is the one written or damaged). `Contents`, the file with what `WriteRaw` has still to
write, makes the units of a write in progress no case of their own. When `Finish` gets
to the metadata the blocks hold every key, and footer, filter and index follow them
(`Complete`); since a magic number comes last or not at all (`MagicLast`), nothing
shorter opens (`OpensLate`). A checksum that matches is that of the very units it
covers, so an intact region is what was written (`BlockReads`), and what is damaged
fails it. For a lookup there remains the choice of the block (`BlockForRight`), the scan
in it (`ScanRight`) and that the filter rules out no key it was built from
(`FilterPasses`). Of an iterator `IterAt` says which record it is behind; `ParseTo` takes
it to the first wanted record behind that, through blocks that have none, or stops at
the first that cannot be read (`ParseEndIs`). TLC has checked `ListInv` and `TableInv`, with
the blocks read off the index and the map that is flushed, on the instance of run `flush`.

Only model-checked: the liveness properties, which are out of the prover's reach, and
`PowerLoss`, of which the one property is violated.

## 5. Where the code disagrees with its comments

- **Run `torn`.** `wal.h` says a crash "can never lose a write the caller was told
  succeeded" and that a torn record can only be "at the very end". Recovery does not
  cut off a torn tail, and a failed append leaves one behind in a running process;
  the log is then appended to behind it, and the next replay stops in front of it.
  Writes acknowledged in between are lost by a crash, until a flush truncates the
  log. `AckedDurableUnlessTorn` is what does hold.
- **Run `retry`.** `db.cpp:693` says "a failed compaction leaves the old version in
  place". When `WriteManifest` fails, the new version is already `current_`. No data
  is lost: the manifest still names the inputs, which stay (`ManifestLoadable`).

- **Run `unreadable`.** `crc32.h` says a checksum lets corruption be "caught on read
  rather than silently returning bad data". `SSTableReader::Get` reports a corrupt
  block in its status, with `kNotFound`; `GetFromVersion` ignores the status and goes
  on to older tables, so `Get` returns an overwritten value, or a deleted one, as
  if nothing had happened. `Scan` and compactions do report the error
  (`AgreesWithGet`, `CompleteUnlessFailed`). `GetFindsNewest` is what does hold.
- **Run `power`.** `db.cpp:347` says flushed data "is now durable in the SSTable" and
  truncates the log. The directory was synced neither after the table was created
  nor after the manifest was renamed. POSIX leaves open in what order these reach
  the disk: after a power failure the manifest may name a file that does not exist,
  or the old manifest may be back with an empty log. Crashes of the process alone
  are not affected (`AckedDurableUnlessTorn`). With `Ordered = TRUE`, a file system
  that commits its operations in order, the property holds on the same instance
  (15,784 states).

## 6. What is not modelled

- Damage to the offsets in a table's footer and to the manifest, neither of which has
  a checksum: what the code then does depends on the byte layout.
- A Bloom filter of more than 2^32 bits, whose count is cut to 32 bits when it is
  stored (`bloom.cpp:37`). `CountMod` is there for it, and `FilterFits` (section 4)
  rules it out; one table would have to hold over 400 million keys, far beyond the size
  at which outputs are closed.
- Hashing, CRC arithmetic and coding: pure byte and word arithmetic with
  known-answer tests. Hashes are constants of the models, checksums injective.
- Statistics: the counters of `GetStats` and of the cache, and `blocks_read_`, which
  both threads increment without synchronisation; no decision depends on them.
- How fast anything is: there is no write stall, so level 0 may grow for as long as
  compactions are slow or fail.
- Concurrent clients, which the engine does not support beyond concurrent lookups.
- Benchmarks and tests.
