------------------------------ MODULE BlockCache ------------------------------
(***************************************************************************)
(* The LRU block cache, shared by the threads that look up keys.  A lookup *)
(* that misses reads the block outside the cache's lock and inserts it in  *)
(* a second critical section, so two readers may insert the same block.    *)
(*                                                                         *)
(* A block is named by file number and offset; files are immutable and     *)
(* their numbers are not reused, so a name has one content and one size.   *)
(***************************************************************************)
EXTENDS Integers, Sequences, SequencesExt, FiniteSetsExt

CONSTANTS
  Readers,   \* threads in SSTableReader::GetBlock
  Blocks,    \* names of blocks
  Size,      \* their sizes in bytes
  Capacity   \* capacity_bytes_

ASSUME CacheAssumption == Size \in [Blocks -> Nat] /\ Capacity \in Nat

VARIABLES
  lru,         \* lru_ and map_: the cached blocks, most recently used first
  used_bytes,
  reading,     \* by reader: {}, or {b} from a miss on b to its insertion
  recent       \* ghost: every block ever used, most recently used first

vars == <<lru, used_bytes, reading, recent>>

\* The position of b in s, or the one past the end.
At(s, b) == Min({i \in 1 .. Len(s) : s[i] = b} \cup {Len(s) + 1})

\* b comes to the front, the others keep their order.
Promote(s, b) == <<b>> \o SubSeq(s, 1, At(s, b) - 1) \o SubSeq(s, At(s, b) + 1, Len(s))

\* The total size of a list of blocks, none of which is listed twice.
Bytes(s) == Cardinality(UNION {{b} \X (1 .. Size[b]) : b \in ToSet(s)})

Init ==
  /\ lru = <<>> /\ used_bytes = 0
  /\ reading = [t \in Readers |-> {}] /\ recent = <<>>

\* Mutant: a hit does not promote.
Lookup_NoPromote(t, b) ==
  /\ reading[t] = {}
  /\ IF b \in ToSet(lru)
     THEN recent' = Promote(recent, b) /\ UNCHANGED <<lru, reading>>
     ELSE reading' = [reading EXCEPT ![t] = {b}] /\ UNCHANGED <<lru, recent>>
  /\ UNCHANGED used_bytes

\* A hit goes to the front; on a miss the reader goes and reads the block.
Lookup(t, b) ==
  /\ reading[t] = {}
  /\ IF b \in ToSet(lru)
     THEN lru' = Promote(lru, b) /\ recent' = Promote(recent, b) /\ UNCHANGED reading
     ELSE reading' = [reading EXCEPT ![t] = {b}] /\ UNCHANGED <<lru, recent>>
  /\ UNCHANGED used_bytes

\* ReadBlock finds the block corrupt: nothing is cached.
ReadFail(t) ==
  /\ reading[t] # {}
  /\ reading' = [reading EXCEPT ![t] = {}]
  /\ UNCHANGED <<lru, used_bytes, recent>>

\* Mutant: eviction stops one block early.
Kept_StopsEarly(s, bytes) ==
  Max({n \in 1 .. Len(s) : n = 1 \/ bytes - Bytes(SubSeq(s, n, Len(s))) <= Capacity})

\* How many blocks of s stay when the oldest are evicted until the rest fits,
\* at least one staying.
Kept(s, bytes) ==
  Max({n \in 1 .. Len(s) : n = 1 \/ bytes - Bytes(SubSeq(s, n + 1, Len(s))) <= Capacity})

\* Mutant: the block is added without looking whether it is there.
Cache_NoRefresh(b) ==
  LET s == <<b>> \o lru
      n == Kept(s, used_bytes + Size[b])
  IN  /\ lru' = SubSeq(s, 1, n)
      /\ used_bytes' = used_bytes + Size[b] - Bytes(SubSeq(s, n + 1, Len(s)))

\* Mutant: the size is taken off the count.
Cache_Subtracts(b) ==
  IF b \in ToSet(lru)
  THEN lru' = Promote(lru, b) /\ UNCHANGED used_bytes
  ELSE lru' = <<b>> \o lru /\ used_bytes' = used_bytes - Size[b]

\* Insert under the lock: refresh in place, or add and evict.
Cache(b) ==
  IF b \in ToSet(lru)
  THEN lru' = Promote(lru, b) /\ UNCHANGED used_bytes
  ELSE LET s == <<b>> \o lru
           n == Kept(s, used_bytes + Size[b])
       IN  /\ lru' = SubSeq(s, 1, n)
           /\ used_bytes' = used_bytes + Size[b] - Bytes(SubSeq(s, n + 1, Len(s)))

\* The reader inserts what it read; a cache without capacity stores nothing.
Insert(t) ==
  /\ \E b \in reading[t] :
       IF Capacity = 0 THEN UNCHANGED <<lru, used_bytes, recent>>
       ELSE Cache(b) /\ recent' = Promote(recent, b)
  /\ reading' = [reading EXCEPT ![t] = {}]

Next == \E t \in Readers : (\E b \in Blocks : Lookup(t, b)) \/ ReadFail(t) \/ Insert(t)

Spec == Init /\ [][Next]_vars

-------------------------------------------------------------------------------
(* Properties *)

\* Every variable keeps its type.
TypeOK ==
  /\ lru \in Seq(Blocks) /\ used_bytes \in Nat
  /\ reading \in [Readers -> SUBSET Blocks] /\ recent \in Seq(Blocks)

\* The byte count is the sum over the cached blocks, each of which is cached
\* once, though two readers may have missed on it at the same time.
Accounted == used_bytes = Bytes(lru) /\ IsInjective(lru)

\* The cache stays within its budget, or holds one block larger than it.
WithinBudget == used_bytes <= Capacity \/ Len(lru) = 1

\* What is cached is what was used last: no block is evicted before one that
\* was used longer ago.
KeepsMostRecent == IsPrefix(lru, recent)
===============================================================================
