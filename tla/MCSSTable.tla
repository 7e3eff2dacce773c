------------------------------- MODULE MCSSTable ------------------------------
EXTENDS SSTable

\* Two hash functions: one that tells the keys apart, and one under which a
\* probe of every key wraps around and the filter cannot rule out key 2.
SmallHashes == {[k \in Keys |-> <<7 * k, 11 + 20 * k>>], [k \in Keys |-> <<120, 40 * (k % 2)>>]}
===============================================================================
