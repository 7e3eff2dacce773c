--------------------------------- MODULE Bloom --------------------------------
(***************************************************************************)
(* The Bloom filter of a table.  A hash is the pair of words MurmurHash128 *)
(* yields, any two words below WordMod (2^64); the serialized bit count is *)
(* kept modulo CountMod (2^32).                                            *)
(***************************************************************************)
EXTENDS Integers, FiniteSets

CONSTANTS
  BitsPerKey,  \* bits_per_key_
  WordMod,     \* words wrap here
  CountMod     \* the stored bit count wraps here

ASSUME BitsAssumption == BitsPerKey \in Nat /\ CountMod \in Nat \ {0}

\* bits_per_key * ln 2, rounded and clamped.
ProbesForBitsPerKey ==
  LET k == (BitsPerKey * 693147 + 500000) \div 1000000
  IN  IF k < 1 THEN 1 ELSE IF k > 30 THEN 30 ELSE k

\* The bits double hashing sets or tests for the hash h in an array of that size.
Probes(h, probes, bits) == {((h[1] + j * h[2]) % WordMod) % bits : j \in 0 .. probes - 1}

\* At least 64 bits, rounded up to bytes.
BitCount(n) ==
  LET bits == IF n * BitsPerKey < 64 THEN 64 ELSE n * BitsPerKey
  IN  ((bits + 7) \div 8) * 8

\* BloomBuilder::Finish over the hashes of n keys.
BuildFilter(hashes, n) ==
  [num_bits |-> BitCount(n) % CountMod, probes |-> ProbesForBitsPerKey,
   set |-> UNION {Probes(h, ProbesForBitsPerKey, BitCount(n)) : h \in hashes}]

\* BloomFilter::Reset, then MayContain.  A count of zero is no filter; the array
\* is never shorter than the count says.
MayContain(f, h) ==
  f.num_bits = 0 \/ Probes(h, f.probes, f.num_bits) \subseteq f.set
===============================================================================
