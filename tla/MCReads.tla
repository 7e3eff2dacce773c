-------------------------------- MODULE MCReads -------------------------------
EXTENDS Reads

CONSTANTS m, v1, v2, v3

\* Tables over the keys of S whose values tell which table they are from.
Over(x, S) == {Only(d, S) : d \in [Keys -> {NotFound, Deleted, x}]}
FilesOf(d, P) ==
  {f \in {[number |-> Max(S), data |-> Only(d, S)] : S \in P} : f.data # Empty}
OneFile(n, d) == {f \in {[number |-> n, data |-> d]} : d # Empty}

\* Two overlapping files of level 0 over one or two disjoint files of level 1.
Merges ==
  {[kind |-> "compaction",
    compaction |-> [source |-> 0, bottommost |-> FALSE, tgts |-> FilesOf(p[1], {{1}, Keys \ {1}}),
                    srcs |-> {[number |-> 4, data |-> p[2]], [number |-> 5, data |-> p[3]]}]] :
     p \in (Over(v1, Keys) \ {Empty}) \X (Over(v2, Keys) \ {Empty}) \X (Over(v3, {1, 2}) \ {Empty})}

\* A memtable over two files of level 0 and two disjoint files of level 1.
Stores ==
  {<<p[1], [l \in Level |-> CASE l = 0 -> OneFile(5, p[2]) \cup OneFile(4, p[3])
                              [] l = 1 -> FilesOf(p[4], {{1}, {2, 3}})
                              [] OTHER -> {}]>> :
     p \in Over(m, {2}) \X Over(v1, {1, 2}) \X Over(v2, {1, 2}) \X Over(v3, Keys)}
Scans ==
  {[kind |-> "scan", mem |-> s[1], version |-> s[2], start |-> r[1], end |-> r[2]] :
     s \in Stores, r \in {<<1, 0>>, <<2, 0>>, <<1, 3>>}}
Gets ==
  {[kind |-> "get", mem |-> s[1], version |-> s[2], key |-> k] : s \in Stores, k \in Keys}

AllCalls == Merges \cup Scans \cup Gets
===============================================================================
