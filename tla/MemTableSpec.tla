----------------------------- MODULE MemTableSpec -----------------------------
(***************************************************************************)
(* What the memtable promises: a map from keys to entries in which Put and *)
(* Delete replace one entry each, and the number of keys it holds.         *)
(***************************************************************************)
EXTENDS FiniteSets

CONSTANTS Keys, Entries, NotFound

VARIABLES table, count

Init == table = [k \in Keys |-> NotFound] /\ count = 0

Insert(k, x) ==
  /\ table' = [table EXCEPT ![k] = x]
  /\ count' = Cardinality({j \in Keys : table'[j] # NotFound})

\* After a flush a fresh one takes its place.
Reset == table' = [k \in Keys |-> NotFound] /\ count' = 0

Next == (\E k \in Keys, x \in Entries : Insert(k, x)) \/ Reset

Spec == Init /\ [][Next]_<<table, count>>
===============================================================================
