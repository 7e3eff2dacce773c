------------------------------- MODULE SkipList -------------------------------
(***************************************************************************)
(* The memtable: a skip list whose nodes carry towers of forward pointers. *)
(* A node is named by its key; the head by a number below every key and    *)
(* the null pointer by one above.  Insert draws a height at random: any    *)
(* height may come up.                                                     *)
(***************************************************************************)
EXTENDS Integers, Sequences, FiniteSets, FiniteSetsExt

CONSTANTS
  Keys,        \* the keys, positive numbers for their order
  Values,      \* the values
  Deleted,     \* a tombstone
  NotFound,    \* no entry
  kMaxLevel,   \* the tallest tower
  Overhead     \* bytes of a node beside its value and its tower

ASSUME KeysAssumption == Keys \subseteq Nat \ {0} /\ IsFiniteSet(Keys) /\ Keys # {}
ASSUME EntriesAssumption == Deleted \notin Values /\ NotFound \notin Values \cup {Deleted}
ASSUME SizesAssumption == kMaxLevel \in Nat \ {0} /\ Overhead \in Nat

VARIABLES
  forward,     \* by node: its tower, forward[n][i] is the next node at level i
  entry,       \* by key: value and tombstone flag of its node
  level,       \* level_
  count,       \* count_
  mem_usage    \* mem_usage_

listVars == <<forward, entry, level, count, mem_usage>>

Entries == Values \cup {Deleted}
Head0 == 0
Null == Max(Keys) + 1
ValueSize(x) == IF x = Deleted THEN 0 ELSE 1

NoNodes == [n \in {Head0} |-> [i \in 1 .. kMaxLevel |-> Null]]
NoEntries == [k \in Keys |-> NotFound]

ListInit == forward = NoNodes /\ entry = NoEntries /\ level = 1 /\ count = 0 /\ mem_usage = 0

\* The head and the nodes whose tower reaches level i.
Reaching(i) == {n \in DOMAIN forward : i \in DOMAIN forward[n]}

\* Mutant: the walk also steps over the key itself.
Walk_Inclusive(n, i, key) ==
  LET Go[x \in Reaching(i)] ==
        IF forward[x][i] <= key /\ forward[x][i] # Null THEN Go[forward[x][i]] ELSE x
  IN  Go[n]

\* From n along level i to the last node before key.
Walk(n, i, key) ==
  LET Go[x \in Reaching(i)] == IF forward[x][i] < key THEN Go[forward[x][i]] ELSE x
  IN  Go[n]

\* The search path: by level, the last node before key, from the top down.
Update(key) ==
  LET Go[i \in 1 .. level + 1] ==
        IF i = level + 1 THEN Head0 ELSE Walk(Go[i + 1], i, key)
  IN  [i \in 1 .. kMaxLevel |-> IF i <= level THEN Go[i] ELSE Head0]

\* Seek: the first node at or behind key.
SeekNode(key) == forward[Update(key)[1]][1]

ListGet(key) == IF SeekNode(key) = key THEN entry[key] ELSE NotFound

\* Mutant: the value an overwrite replaces stays accounted for.
Overwrite_NoDelta(key, x) ==
  /\ entry' = [entry EXCEPT ![key] = x]
  /\ mem_usage' = mem_usage + ValueSize(x)
  /\ UNCHANGED <<forward, level, count>>

Overwrite(key, x) ==
  /\ entry' = [entry EXCEPT ![key] = x]
  /\ mem_usage' = mem_usage - ValueSize(entry[key]) + ValueSize(x)
  /\ UNCHANGED <<forward, level, count>>

\* Mutant: levels that were empty so far are not linked from the head.
Link_OldLevels(key, x, height) ==
  LET update == Update(key)
      tower == [i \in 1 .. height |-> forward[update[i]][i]]
  IN  /\ forward' =
           [n \in DOMAIN forward \cup {key} |->
              IF n = key THEN tower
              ELSE [i \in DOMAIN forward[n] |->
                      IF i <= height /\ i <= level /\ update[i] = n THEN key ELSE forward[n][i]]]
      /\ entry' = [entry EXCEPT ![key] = x]
      /\ level' = IF height > level THEN height ELSE level
      /\ count' = count + 1
      /\ mem_usage' = mem_usage + Overhead + ValueSize(x) + height

\* A new node of the given height, linked in behind the search path.
Link(key, x, height) ==
  LET update == Update(key)
      tower == [i \in 1 .. height |-> forward[update[i]][i]]
  IN  /\ forward' =
           [n \in DOMAIN forward \cup {key} |->
              IF n = key THEN tower
              ELSE [i \in DOMAIN forward[n] |->
                      IF i <= height /\ update[i] = n THEN key ELSE forward[n][i]]]
      /\ entry' = [entry EXCEPT ![key] = x]
      /\ level' = IF height > level THEN height ELSE level
      /\ count' = count + 1
      /\ mem_usage' = mem_usage + Overhead + ValueSize(x) + height

\* Put(key, x), or Delete(key) when x is a tombstone.
Insert(key, x) ==
  IF SeekNode(key) = key THEN Overwrite(key, x)
  ELSE \E height \in 1 .. kMaxLevel : Link(key, x, height)

\* A flush replaces the memtable by a fresh one.
Reset == forward' = NoNodes /\ entry' = NoEntries /\ level' = 1 /\ count' = 0 /\ mem_usage' = 0

-------------------------------------------------------------------------------
(* Properties *)

MemTable == INSTANCE MemTableSpec WITH table <- [k \in Keys |-> ListGet(k)]

\* Every level is an ascending list, from the head, of exactly the nodes whose
\* tower reaches it: each pointer leads to the next of them, or to the end behind
\* the last.  The levels above level_ are empty.  Insert keeps this whatever
\* heights are drawn.
TowersLinked ==
  \A i \in 1 .. kMaxLevel :
    /\ Head0 \in Reaching(i)
    /\ \A n \in Reaching(i) :
         /\ forward[n][i] \in Reaching(i) \cup {Null} /\ n < forward[n][i]
         /\ \A m \in Reaching(i) : m <= n \/ forward[n][i] <= m
    /\ i > level => Reaching(i) = {Head0}

\* The bytes of the nodes there are, each by its node and its number in it.
Footprint(k) == Overhead + ValueSize(entry[k]) + Len(forward[k])
Bytes == UNION {{k} \X (1 .. Footprint(k)) : k \in DOMAIN forward \ {Head0}}

\* mem_usage_, which decides when to flush, is the sum over the nodes there are:
\* no sequence of overwrites and tombstones makes it drift.
UsageAccounted == mem_usage = Cardinality(Bytes)
===============================================================================
