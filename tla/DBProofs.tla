------------------------------- MODULE DBProofs -------------------------------
(***************************************************************************)
(* The engine for any keys, levels and files: every step of either thread  *)
(* keeps the inductive invariant, and with it the engine implements the    *)
(* crash-safe map of KVStore, every failure, crash and recovery being a    *)
(* step of the map; deletes are reclaimed; and no file is left behind.     *)
(***************************************************************************)
EXTENDS DBInv, VersionProofs

\* Zenon proves the leaves; those with arithmetic, tuples or records name SMT.
USE Zenon

-------------------------------------------------------------------------------
(* Every step keeps the types and the log ahead of the memtable; those that *)
(* install no version keep the files, the manifest, the flush and compaction *)
(* in progress, and what reads return *)

\* When every file the manifest names has a smaller number, LoadManifest
\* continues from the number the manifest stores.
LEMMA NextAfterIsNext ==
  ASSUME NEW m \in Nat, NEW numbers \in SUBSET Nat, \A i \in numbers : i < m
  PROVE  NextAfter(m, numbers) = m
<1> DEFINE C == {m} \cup {i + 1 : i \in numbers}
           P(n) == n >= m /\ \A i \in numbers : n >= i + 1
<1>1. m \in C /\ P(m) BY SMT
<1>2. ASSUME NEW n \in C, P(n) PROVE n = m BY SMT, <1>2
<1>3. (CHOOSE n \in C : P(n)) = m BY <1>1, <1>2
<1> QED BY <1>3 DEF NextAfter

\* The version a manifest yields when it names the files of v as they are on
\* disk.
LEMMA LoadedIs ==
  ASSUME NEW v \in [Level -> SUBSET File], NEW d, NEW m,
         \A l \in Level : m[l] = NumbersOf(v[l]),
         \A l \in Level : \A f \in v[l] : d[f.number] = f.data
  PROVE  [l \in Level |-> {[number |-> n, data |-> d[n]] : n \in m[l]}] = v
<1>1. ASSUME NEW l \in Level PROVE {[number |-> n, data |-> d[n]] : n \in m[l]} = v[l]
  <2>1. \A f \in v[l] : f = [number |-> f.number, data |-> d[f.number]] BY SMT DEF File
  <2>2. m[l] = {f.number : f \in v[l]} BY DEF NumbersOf
  <2> QED BY SMT, <2>1, <2>2
<1> QED BY <1>1

\* Once the manifest names the flushed file it names what is running.
LEMMA ResetLoads ==
  ASSUME TypeOK, FilesInv, FlushInv, pc = "reset"
  PROVE  Loaded = current
<1>1. current \in [Level -> SUBSET File] BY DEF TypeOK
<1>2. \A l \in Level : manifest.files[l] = NumbersOf(current[l]) BY DEF FlushInv
<1>3. \A l \in Level : \A f \in current[l] : disk[f.number] = f.data BY DEF FilesInv
<1>4. [l \in Level |-> {[number |-> n, data |-> disk[n]] : n \in manifest.files[l]}] = current
  BY SMT, <1>1, <1>2, <1>3, LoadedIs
<1> QED BY <1>4 DEF Loaded

\* What LoadManifest would build depends on the named files only.
LEMMA LoadedSame ==
  ASSUME manifest' = manifest,
         \A l \in Level : \A n \in manifest.files[l] : disk'[n] = disk[n]
  PROVE  Loaded' = Loaded
BY DEF Loaded

-------------------------------------------------------------------------------
(* Types *)

\* The deepest level is not level 0.
LEMMA LastLevel == MaxLevels - 1 \in Level /\ MaxLevels - 1 # 0
BY SMT, OptionsAssumption DEF Level

\* What installing the compaction in progress does to the levels: the inputs leave
\* the two levels they were in and the outputs join the lower one.
LEMMA CompactionInstalled ==
  ASSUME TypeOK, FilesInv, CompactionInv, BgInstall
  PROVE  /\ current' \in [Level -> SUBSET File]
         /\ comp.source \in Level /\ comp.source + 1 \in Level
         /\ comp.source + 1 # 0 /\ comp.source # comp.source + 1
         /\ current'[comp.source] = current[comp.source] \ comp.srcs
         /\ current'[comp.source + 1] = (current[comp.source + 1] \ comp.tgts) \cup outs
         /\ \A l \in Level : l # comp.source /\ l # comp.source + 1 => current'[l] = current[l]
<1>1. current' = InstallCompaction(current, comp, outs) /\ bg = "merge" BY DEF BgInstall
<1>2. current \in [Level -> SUBSET File] /\ VersionOK(current) BY DEF TypeOK, FilesInv
<1>3. comp \in Compactions /\ outs \in SUBSET File BY DEF TypeOK
<1>4. PickOK(current, comp) BY <1>1 DEF CompactionInv
<1> DEFINE w == InstallCompaction(current, comp, outs)
<1>5. /\ w \in [Level -> SUBSET File]
      /\ comp.source \in Level /\ comp.source + 1 \in Level
      /\ comp.source + 1 # 0 /\ comp.source # comp.source + 1
      /\ w[comp.source] = current[comp.source] \ comp.srcs
      /\ w[comp.source + 1] = (current[comp.source + 1] \ comp.tgts) \cup outs
      /\ \A l \in Level : l # comp.source /\ l # comp.source + 1 => w[l] = current[l]
  BY SMTT(30), <1>2, <1>3, <1>4, InstalledLevels
<1> QED BY <1>1, <1>5

\* A freshly opened empty database is well typed.
LEMMA InitTypeOK == Init => TypeOK
<1> SUFFICES ASSUME Init PROVE TypeOK OBVIOUS
<1>1. NoCompaction \in Compactions BY SMT, OptionsAssumption DEF NoCompaction, Compactions
<1>2. NoFiles \in [Level -> SUBSET File] BY DEF NoFiles
<1>3. manifest \in [next : 1 .. MaxFile + 1, files : [Level -> SUBSET Number]]
  BY SMT, BoundsAssumption, OptionsAssumption DEF Init
<1>4. disk \in [Number -> Table \cup {Missing, Partial}] BY DEF Init
<1>5. nextFile \in 1 .. MaxFile + 1 /\ num \in 0 .. MaxFile /\ bnum \in 0 .. MaxFile
  BY SMT, BoundsAssumption, OptionsAssumption DEF Init
<1> QED BY <1>1, <1>2, <1>3, <1>4, <1>5, EmptyType DEF Init, TypeOK

\* A failing or succeeding system call keeps the process up.
LEMMA EnvTypes ==
  ASSUME TypeOK, Fault \/ NoFault
  PROVE  up' \in BOOLEAN /\ faults' \in Nat /\ crashes' \in Nat /\ up' = up
BY SMT DEF TypeOK, Fault, NoFault, envVars

\* Steps of Put, Delete and FlushMemTable keep the types.
LEMMA ClientTypeOK ==
  ASSUME IInv, Client PROVE TypeOK'
<1> USE DEF clientVars, walVars, bgVars, envVars
<1>0. TypeOK /\ FlushInv BY DEF IInv
<1>1. ASSUME NEW k \in Keys, NEW x \in Values \cup {Deleted}, Log(k, x) PROVE TypeOK'
  BY SMT, <1>0, <1>1 DEF TypeOK, Log, Writing, Append, Table, Entry
<1>2. ASSUME NEW k \in Keys, NEW x \in Values \cup {Deleted}, LogFail(k, x) PROVE TypeOK'
  <2>0. Fault \/ NoFault BY <1>2 DEF LogFail
  <2>9. up' \in BOOLEAN /\ faults' \in Nat /\ crashes' \in Nat BY <1>0, <2>0, EnvTypes
  <2>1. Append(k, x) \in Table BY <1>0 DEF TypeOK, Append, Table, Entry
  <2>2. wal' \in Table /\ unacked' \subseteq Keys BY <1>0, <1>2, <2>1 DEF TypeOK, LogFail
  <2>3. torn' \in BOOLEAN /\ walOpen' \in BOOLEAN BY <1>0, <1>2 DEF TypeOK, LogFail
  <2> QED BY SMT, <1>0, <1>2, <2>2, <2>3, <2>9 DEF TypeOK, LogFail, Writing
<1>3. CASE Apply
  BY <1>0, <1>3 DEF TypeOK, Apply, Table, Entry
<1>4. CASE FlushCall
  BY <1>0, <1>4 DEF TypeOK, FlushCall
<1>5. CASE FlushAlloc
  <2>0. Fault \/ NoFault BY <1>5 DEF FlushAlloc
  <2>9. up' \in BOOLEAN /\ faults' \in Nat /\ crashes' \in Nat BY <1>0, <2>0, EnvTypes
  <2> QED BY SMT, <1>0, <2>9, <1>5, BoundsAssumption, OptionsAssumption DEF TypeOK, FlushAlloc, Number
<1>6. CASE FlushBuild
  <2>0. Fault \/ NoFault BY <1>6 DEF FlushBuild
  <2>9. up' \in BOOLEAN /\ faults' \in Nat /\ crashes' \in Nat BY <1>0, <2>0, EnvTypes
  <2> QED BY SMT, <1>0, <2>9, <1>6, BoundsAssumption, OptionsAssumption DEF TypeOK, FlushBuild
<1>7. CASE FlushInstall
  <2>1. [number |-> num, data |-> mem] \in File
    BY <1>0, <1>7 DEF FlushInstall, FlushInv, Private, File, TypeOK
  <2>2. current' \in [Level -> SUBSET File]
    BY <1>0, <1>7, <2>1, FlushedLevels DEF FlushInstall, TypeOK
  <2>3. ManifestOf(current') \in [next : 1 .. MaxFile + 1, files : [Level -> SUBSET Number]]
    BY SMT, <1>0, <2>2, BoundsAssumption, OptionsAssumption DEF ManifestOf, NumbersOf, TypeOK, File
  <2>4. Fault \/ NoFault BY <1>7 DEF FlushInstall
  <2>5. up' \in BOOLEAN /\ faults' \in Nat /\ crashes' \in Nat BY <1>0, <2>4, EnvTypes
  <2> QED BY SMT, <1>0, <1>7, <2>2, <2>3, <2>5, BoundsAssumption, OptionsAssumption DEF TypeOK, FlushInstall
<1>8. CASE FlushReset
  <2>0. Fault \/ NoFault BY <1>8 DEF FlushReset
  <2>9. up' \in BOOLEAN /\ faults' \in Nat /\ crashes' \in Nat BY <1>0, <2>0, EnvTypes
  <2> QED BY <1>0, <2>9, <1>8, EmptyType DEF TypeOK, FlushReset
<1> QED BY <1>1, <1>2, <1>3, <1>4, <1>5, <1>6, <1>7, <1>8 DEF Client

\* Steps of DoCompaction keep the types.
LEMMA BackgroundTypeOK ==
  ASSUME IInv, Background PROVE TypeOK'
<1> USE DEF clientVars, walVars, bgVars, envVars
<1>0. TypeOK /\ CompactionInv /\ FilesInv BY DEF IInv
<1>1. NoCompaction \in Compactions BY SMT, OptionsAssumption DEF NoCompaction, Compactions
<1>2. CASE BgPick
  <2>1. comp' \in Compactions BY <1>0, <1>2, PickedOK DEF BgPick, TypeOK, FilesInv
  <2>2. rest' \in Table BY <1>2, <2>1, MergedType DEF BgPick
  <2> QED BY <1>0, <1>2, <2>1, <2>2 DEF TypeOK, BgPick
<1>3. CASE BgOpenOutput
  <2>0. Fault \/ NoFault BY <1>3 DEF BgOpenOutput
  <2>9. up' \in BOOLEAN /\ faults' \in Nat /\ crashes' \in Nat BY <1>0, <2>0, EnvTypes
  <2>1. nextFile \in Number /\ nextFile' \in 1 .. MaxFile + 1
    BY SMT, <1>0, <1>3, BoundsAssumption, OptionsAssumption DEF TypeOK, BgOpenOutput, Number
  <2>2. disk' \in [Number -> Table \cup {Missing, Partial}]
    BY <1>0, <1>3, <2>1 DEF TypeOK, BgOpenOutput
  <2>3. /\ bg' \in {"idle", "write"}
        /\ comp' \in Compactions /\ rest' \in Table /\ outs' \in SUBSET File
        /\ bnum' \in 0 .. MaxFile /\ doomed' \subseteq Number
    <3>1. CASE BgIdle BY SMT, <1>1, <3>1, BoundsAssumption, OptionsAssumption, EmptyType DEF BgIdle
    <3>2. CASE bnum' = nextFile /\ bg' = "write" /\ UNCHANGED <<comp, rest, outs, doomed>>
      BY SMT, <1>0, <2>1, <3>2, BoundsAssumption, OptionsAssumption DEF TypeOK, Number
    <3> QED BY <1>3, <3>1, <3>2 DEF BgOpenOutput
  <2> QED BY ZenonT(30), <1>0, <2>9, <1>3, <2>1, <2>2, <2>3 DEF TypeOK, BgOpenOutput
<1>4. CASE BgFinishOutput
  <2>1. Only(rest, Chunk(rest)) \in Table /\ Only(rest, KeysOf(rest) \ Chunk(rest)) \in Table
    BY SMT, <1>0, OnlyType DEF TypeOK
  <2>2. [number |-> bnum, data |-> Only(rest, Chunk(rest))] \in File
    BY <1>0, <1>4, <2>1 DEF BgFinishOutput, CompactionInv, Private, File
  <2>3. /\ disk' = [disk EXCEPT ![bnum] = Only(rest, Chunk(rest))]
        /\ outs' = outs \cup {[number |-> bnum, data |-> Only(rest, Chunk(rest))]}
    BY <1>4 DEF BgFinishOutput
  <2>4. disk' \in [Number -> Table \cup {Missing, Partial}] BY <1>0, <2>1, <2>3 DEF TypeOK
  <2>5. outs' \in SUBSET File BY <1>0, <2>2, <2>3 DEF TypeOK
  <2> QED BY SMT, <1>0, <1>4, <2>1, <2>4, <2>5, BoundsAssumption, OptionsAssumption DEF TypeOK, BgFinishOutput
<1>5. CASE BgFail
  <2>1. Only(rest, Chunk(rest)) \in Table BY <1>0, OnlyType DEF TypeOK
  <2>2. disk' \in [Number -> Table \cup {Missing, Partial}]
    BY <1>0, <1>5, <2>1 DEF TypeOK, BgFail
  <2> QED BY SMT, <1>0, <1>1, <1>5, <2>2, BoundsAssumption, OptionsAssumption, EmptyType DEF TypeOK, BgFail, BgIdle, Fault
<1>6. CASE BgInstall
  <2>1. current' \in [Level -> SUBSET File]
    BY <1>0, <1>6, CompactionInstalled
  <2>2. ManifestOf(current') \in [next : 1 .. MaxFile + 1, files : [Level -> SUBSET Number]]
    BY SMT, <1>0, <2>1, BoundsAssumption, OptionsAssumption DEF ManifestOf, NumbersOf, TypeOK, File
  <2>3. NumbersOf(Inputs(comp)) \subseteq Number
    BY SMT, <1>0 DEF TypeOK, Compactions, NumbersOf, Inputs, File
  <2>4. Fault \/ NoFault BY <1>6 DEF BgInstall
  <2>5. up' \in BOOLEAN /\ faults' \in Nat /\ crashes' \in Nat BY <1>0, <2>4, EnvTypes
  <2> QED BY SMTT(30), <1>0, <1>1, <1>6, <2>1, <2>2, <2>3, <2>5, BoundsAssumption, OptionsAssumption, EmptyType
          DEF TypeOK, BgInstall, BgIdle
<1>7. CASE BgUnlink
  <2>0. Fault \/ NoFault BY <1>7 DEF BgUnlink
  <2>9. up' \in BOOLEAN /\ faults' \in Nat /\ crashes' \in Nat BY <1>0, <2>0, EnvTypes
  <2> QED BY SMT, <1>0, <2>9, <1>1, <1>7, BoundsAssumption, OptionsAssumption, EmptyType DEF TypeOK, BgUnlink, BgIdle
<1> QED BY <1>2, <1>3, <1>4, <1>5, <1>6, <1>7 DEF Background

\* The files and numbers DB::Open starts from.
LEMMA RecoveredFiles ==
  ASSUME IInv, Recover
  PROVE  /\ current' = Loaded /\ Loaded \in [Level -> SUBSET File]
         /\ nextFile' = manifest.next
         /\ \A l \in Level : \A n \in manifest.files[l] : disk'[n] = disk[n]
         /\ Loaded' = Loaded
         /\ disk' \in [Number -> Table \cup {Missing, Partial}]
<1>0. TypeOK /\ ManifestInv BY DEF IInv
<1>1. Loaded \in [Level -> SUBSET File]
  <2>1. ASSUME NEW l \in Level, NEW n \in manifest.files[l]
        PROVE  [number |-> n, data |-> disk[n]] \in File
    BY <1>0 DEF TypeOK, ManifestInv, File
  <2> QED BY <2>1 DEF Loaded
<1>2. nextFile' = manifest.next
  <2>1. manifest.next \in Nat BY SMT, <1>0 DEF TypeOK
  <2>2. ManifestNumbers \in SUBSET Nat /\ \A n \in ManifestNumbers : n < manifest.next
    BY SMT, <1>0 DEF TypeOK, ManifestInv, ManifestNumbers, Number
  <2> QED BY <2>1, <2>2, NextAfterIsNext DEF Recover
<1>3. PICK kept \in SUBSET Number :
        disk' = [n \in Number |-> IF n \in ManifestNumbers \cup kept THEN disk[n] ELSE Missing]
  BY DEF Recover
<1>4. \A l \in Level : \A n \in manifest.files[l] : disk'[n] = disk[n]
  BY <1>0, <1>3 DEF TypeOK, ManifestNumbers
<1>5. Loaded' = Loaded BY <1>4, LoadedSame DEF Recover
<1>6. disk' \in [Number -> Table \cup {Missing, Partial}] BY <1>0, <1>3 DEF TypeOK
<1> QED BY <1>1, <1>2, <1>4, <1>5, <1>6 DEF Recover

\* A crash keeps the types.
LEMMA CrashTypeOK ==
  ASSUME IInv, Crash PROVE TypeOK'
<1>0. TypeOK BY DEF IInv
<1>1. NoCompaction \in Compactions BY SMT, OptionsAssumption DEF NoCompaction, Compactions
<1>2. NoFiles \in [Level -> SUBSET File] BY DEF NoFiles
<1>3. \A k \in Keys, x \in Values \cup {Deleted} : Append(k, x) \in Table
  BY <1>0 DEF TypeOK, Append, Table, Entry
<1>4. wal' \in Table BY SMT, <1>0, <1>3 DEF TypeOK, Crash
<1>5. torn' \in BOOLEAN BY <1>0 DEF TypeOK, Crash
<1>6. nextFile' \in 1 .. MaxFile + 1 /\ num' \in 0 .. MaxFile /\ bnum' \in 0 .. MaxFile
  BY SMT, BoundsAssumption, OptionsAssumption DEF Crash, BgIdle
<1>7. up' \in BOOLEAN /\ faults' \in Nat /\ crashes' \in Nat /\ writes' \in Nat
  <2>1. up' = FALSE /\ faults' = faults /\ crashes' = crashes + 1 /\ writes' = writes
    BY DEF Crash
  <2>2. up' \in BOOLEAN BY ZenonT(40), <2>1
  <2>3. faults' \in Nat /\ crashes' \in Nat /\ writes' \in Nat BY SMT, <1>0, <2>1 DEF TypeOK
  <2> QED BY <2>2, <2>3
<1> QED BY <1>0, <1>1, <1>2, <1>4, <1>5, <1>6, <1>7, EmptyType DEF TypeOK, Crash, BgIdle

\* DB::Open keeps the types.
LEMMA RecoverTypeOK ==
  ASSUME IInv, Recover PROVE TypeOK'
<1>0. TypeOK /\ ManifestInv BY DEF IInv
<1>1. current' \in [Level -> SUBSET File] /\ disk' \in [Number -> Table \cup {Missing, Partial}]
  BY RecoveredFiles
<1>2. nextFile' \in 1 .. MaxFile + 1
  <2>1. nextFile' = manifest.next BY RecoveredFiles
  <2> QED BY <1>0, <2>1, BoundsAssumption, OptionsAssumption DEF TypeOK, ManifestInv
<1>3. faults' \in Nat BY SMT, <1>0 DEF TypeOK, Recover
<1> QED BY <1>0, <1>1, <1>2, <1>3 DEF TypeOK, Recover, bgVars

-------------------------------------------------------------------------------
(* Facts about every step *)

\* Only Crash and Recover change up, and the other actions need it.
LEMMA UpStep ==
  ASSUME TypeOK, Client \/ Background
  PROVE  up /\ up'
<1>1. ASSUME Fault \/ NoFault, up PROVE up'
  <2>1. up' = up BY <1>1, EnvTypes
  <2> QED BY <1>1, <2>1
<1>2. ASSUME UNCHANGED envVars, up PROVE up' BY <1>2 DEF envVars
<1>3. ASSUME NEW k \in Keys, NEW x \in Values \cup {Deleted}, Log(k, x) PROVE up /\ up'
  BY <1>2, <1>3 DEF Log, Writing
<1>4. ASSUME NEW k \in Keys, NEW x \in Values \cup {Deleted}, LogFail(k, x) PROVE up /\ up'
  BY <1>1, <1>4 DEF LogFail, Writing
<1>5. CASE Apply BY <1>2, <1>5 DEF Apply
<1>6. CASE FlushCall BY <1>2, <1>6 DEF FlushCall
<1>7. CASE FlushAlloc BY <1>1, <1>7 DEF FlushAlloc
<1>8. CASE FlushBuild BY <1>1, <1>8 DEF FlushBuild
<1>9. CASE FlushInstall BY <1>1, <1>9 DEF FlushInstall
<1>10. CASE FlushReset BY <1>1, <1>10 DEF FlushReset
<1>11. CASE BgPick BY <1>2, <1>11 DEF BgPick
<1>12. CASE BgOpenOutput BY <1>1, <1>12 DEF BgOpenOutput
<1>13. CASE BgFinishOutput BY <1>2, <1>13 DEF BgFinishOutput
<1>14. CASE BgFail BY <1>1, <1>14 DEF BgFail
<1>15. CASE BgInstall BY <1>1, <1>15 DEF BgInstall
<1>16. CASE BgUnlink BY <1>1, <1>16 DEF BgUnlink
<1> QED BY ZenonT(30), <1>3, <1>4, <1>5, <1>6, <1>7, <1>8, <1>9, <1>10, <1>11, <1>12, <1>13, <1>14,
           <1>15, <1>16 DEF Client, Background

\* The background thread leaves the client thread and the log alone.
LEMMA BackgroundFrame ==
  ASSUME Background
  PROVE  UNCHANGED <<pc, op, num, mem, unacked, wal, torn, walOpen>>
<1>1. UNCHANGED <<clientVars, walVars>>
  BY DEF Background, BgPick, BgOpenOutput, BgFinishOutput, BgFail, BgInstall, BgUnlink
<1> QED BY <1>1 DEF clientVars, walVars

\* The client thread leaves the background thread alone.
LEMMA ClientFrame ==
  ASSUME Client
  PROVE  UNCHANGED <<bg, comp, rest, outs, bnum, doomed>>
<1>1. UNCHANGED bgVars
  BY DEF Client, Log, LogFail, Apply, FlushCall, FlushAlloc, FlushBuild, FlushInstall, FlushReset
<1> QED BY <1>1 DEF bgVars

\* A logged write is in progress exactly between AddRecord and the memtable
\* insert, whatever step is taken.
LEMMA OpStep ==
  ASSUME IInv, Client \/ Background \/ Crash \/ Recover PROVE OpInv'
<1>0. TypeOK /\ OpInv BY DEF IInv
<1>1. CASE Client
  <2>1. up' BY <1>0, <1>1, UpStep
  <2>2. ASSUME NEW k \in Keys, NEW x \in Values \cup {Deleted}, Log(k, x) PROVE OpInv'
    BY <2>1, <2>2 DEF OpInv, Log
  <2>3. ASSUME NEW k \in Keys, NEW x \in Values \cup {Deleted}, LogFail(k, x) PROVE OpInv'
    BY <1>0, <2>1, <2>3 DEF OpInv, LogFail
  <2>4. CASE Apply BY <2>1, <2>4 DEF OpInv, Apply
  <2>5. CASE FlushCall BY <1>0, <2>1, <2>5 DEF OpInv, FlushCall
  <2>6. CASE FlushAlloc BY <1>0, <2>1, <2>6 DEF OpInv, FlushAlloc
  <2>7. CASE FlushBuild BY <1>0, <2>1, <2>7 DEF OpInv, FlushBuild
  <2>8. CASE FlushInstall BY <1>0, <2>1, <2>8 DEF OpInv, FlushInstall
  <2>9. CASE FlushReset BY <1>0, <2>1, <2>9 DEF OpInv, FlushReset
  <2> QED BY <1>1, <2>2, <2>3, <2>4, <2>5, <2>6, <2>7, <2>8, <2>9 DEF Client
<1>2. CASE Background BY <1>0, <1>2, UpStep, BackgroundFrame DEF OpInv
<1>3. CASE Crash BY <1>3 DEF OpInv, Crash, BgIdle
<1>4. CASE Recover BY <1>0, <1>4 DEF OpInv, Recover
<1> QED BY <1>1, <1>2, <1>3, <1>4

\* The log keeps covering the memtable, whatever step is taken.
LEMMA LogStep ==
  ASSUME IInv, Client \/ Background \/ Crash \/ Recover PROVE LogInv'
<1>0. TypeOK /\ LogInv /\ OpInv BY DEF IInv
<1>1. CASE Client
  <2>2. ASSUME NEW k \in Keys, NEW x \in Values \cup {Deleted}, Log(k, x) PROVE LogInv'
    <3>1. torn' = torn /\ mem' = mem /\ op' = {<<k, x>>} BY <2>2 DEF Log
    <3>2. ~torn => wal' = [wal EXCEPT ![k] = x] BY <2>2 DEF Log, Append
    <3>3. x # NotFound /\ wal \in [Keys -> Entry] BY <1>0, EntryAssumption DEF TypeOK, Table
    <3>4. ~torn => \A j \in Keys : wal[j] = NotFound => mem[j] = NotFound BY <1>0 DEF LogInv
    <3>5. ~torn => \A j \in Keys : wal'[j] = NotFound => mem'[j] = NotFound
      BY <3>1, <3>2, <3>3, <3>4
    <3>6. ~torn => \A c \in op' : wal'[c[1]] = c[2] BY SMT, <3>1, <3>2, <3>3
    <3> QED BY <3>1, <3>5, <3>6 DEF LogInv
  <2>3. ASSUME NEW k \in Keys, NEW x \in Values \cup {Deleted}, LogFail(k, x) PROVE LogInv'
    <3>1. op = {} BY <1>0, <2>3 DEF LogFail, Writing, OpInv
    <3> QED BY SMT, <1>0, <2>3, <3>1, EntryAssumption DEF LogInv, LogFail, Append, TypeOK, Table
  <2>4. CASE Apply
    BY SMTT(30), <1>0, <2>4, EntryAssumption DEF LogInv, Apply, TypeOK, Table, walVars
  <2>5. CASE FlushCall BY ZenonT(40), <1>0, <2>5 DEF LogInv, FlushCall, walVars
  <2>6. CASE FlushAlloc BY <1>0, <2>6 DEF LogInv, FlushAlloc, walVars
  <2>7. CASE FlushBuild BY <1>0, <2>7 DEF LogInv, FlushBuild, walVars
  <2>8. CASE FlushInstall BY <1>0, <2>8 DEF LogInv, FlushInstall, walVars
  <2>9. CASE FlushReset
    <3>1. op = {} /\ op' = op BY <1>0, <2>9 DEF FlushReset, OpInv
    <3> QED BY <2>9, <3>1, EmptyType DEF LogInv, FlushReset
  <2> QED BY ZenonT(30), <1>1, <2>2, <2>3, <2>4, <2>5, <2>6, <2>7, <2>8, <2>9 DEF Client
<1>2. CASE Background BY SMTT(30), <1>0, <1>2, BackgroundFrame DEF LogInv
<1>3. CASE Crash BY <1>3, EmptyType DEF LogInv, Crash
<1>4. CASE Recover
  <2>1. op' = {} BY <1>0, <1>4 DEF OpInv, Recover
  <2> QED BY <1>4, <2>1 DEF LogInv, Recover
<1> QED BY <1>1, <1>2, <1>3, <1>4

-------------------------------------------------------------------------------
(* Files and manifest *)

\* A step that writes to no file the version or the manifest names.
Quiet ==
  /\ UNCHANGED <<current, manifest, up>>
  /\ nextFile' \in {nextFile, nextFile + 1}
  /\ \A n \in Number : ~Unnamed(n) => disk'[n] = disk[n]

\* A step that writes at most one file nobody names is quiet.
LEMMA QuietIf ==
  ASSUME TypeOK, UNCHANGED <<current, manifest, up>>, nextFile' \in {nextFile, nextFile + 1},
         NEW n \in Number, Unnamed(n), NEW d, disk' \in {disk, [disk EXCEPT ![n] = d]}
  PROVE  Quiet
BY DEF Quiet, TypeOK

\* The next file number names no file yet.
LEMMA FreshUnnamed ==
  ASSUME IInv, up
  PROVE  Unnamed(nextFile)
BY SMT DEF IInv, FilesInv, ManifestInv, Unnamed, TypeOK, File, Number

\* A quiet step keeps what holds of the version and of the manifest.
LEMMA QuietFiles ==
  ASSUME IInv, Quiet
  PROVE  FilesInv' /\ ManifestInv' /\ Loaded' = Loaded
<1>0. TypeOK /\ FilesInv /\ ManifestInv BY DEF IInv
<1>1. current' = current /\ manifest' = manifest /\ up' = up BY DEF Quiet
<1>2. \A l \in Level : \A f \in current[l] : f.number \in Number /\ disk'[f.number] = disk[f.number]
  BY SMT, <1>0 DEF TypeOK, File, Quiet, Unnamed
<1>3. \A l \in Level : \A n \in manifest.files[l] : n \in Number /\ disk'[n] = disk[n]
  BY <1>0 DEF TypeOK, Quiet, Unnamed
<1>4. \A n \in Number : n < nextFile => n < nextFile'
  BY SMT, <1>0 DEF TypeOK, Quiet, Number
<1>5. Loaded' = Loaded BY <1>1, <1>3, LoadedSame
<1>6. FilesInv' BY <1>0, <1>1, <1>2, <1>4 DEF FilesInv
<1>7. ManifestInv' BY <1>0, <1>1, <1>3, <1>4, <1>5 DEF ManifestInv
<1> QED BY <1>5, <1>6, <1>7

\* Of the client's steps only FlushInstall changes the version or the manifest.
LEMMA ClientQuiet ==
  ASSUME IInv, Client, ~FlushInstall
  PROVE  Quiet
<1> USE DEF clientVars, walVars, bgVars
<1>0. TypeOK /\ FlushInv BY DEF IInv
<1>1. up /\ up' /\ up \in BOOLEAN /\ up' \in BOOLEAN BY <1>0, UpStep, ClientTypeOK DEF TypeOK
<1>2. ASSUME NEW k \in Keys, NEW x \in Values \cup {Deleted}, Log(k, x) PROVE Quiet
  BY <1>1, <1>2 DEF Quiet, Log
<1>3. ASSUME NEW k \in Keys, NEW x \in Values \cup {Deleted}, LogFail(k, x) PROVE Quiet
  BY <1>1, <1>3 DEF Quiet, LogFail
<1>4. CASE Apply BY <1>1, <1>4 DEF Quiet, Apply
<1>5. CASE FlushCall BY <1>1, <1>5 DEF Quiet, FlushCall
<1>6. CASE FlushAlloc
  <2>1. Unnamed(nextFile) /\ nextFile \in Number
    BY SMT, <1>0, <1>1, <1>6, FreshUnnamed DEF FlushAlloc, TypeOK, Number
  <2>2. disk' \in {disk, [disk EXCEPT ![nextFile] = Partial]} BY <1>6 DEF FlushAlloc
  <2>3. UNCHANGED <<current, manifest, up>> /\ nextFile' = nextFile + 1
    BY <1>1, <1>6 DEF FlushAlloc
  <2> QED BY SMT, <1>0, <2>1, <2>2, <2>3, QuietIf
<1>7. CASE FlushBuild
  <2>1. Unnamed(num) /\ num \in Number BY <1>0, <1>7 DEF FlushBuild, FlushInv, Private
  <2>2. disk' \in {disk, [disk EXCEPT ![num] = mem]} BY <1>7 DEF FlushBuild
  <2>3. UNCHANGED <<current, manifest, up, nextFile>> BY <1>1, <1>7 DEF FlushBuild
  <2> QED BY SMT, <1>0, <2>1, <2>2, <2>3, QuietIf
<1>8. CASE FlushReset BY <1>1, <1>8 DEF Quiet, FlushReset
<1> QED BY <1>2, <1>3, <1>4, <1>5, <1>6, <1>7, <1>8 DEF Client

\* Of the background steps only BgInstall changes the version or the manifest.
LEMMA BackgroundQuiet ==
  ASSUME IInv, Background, ~BgInstall
  PROVE  Quiet
<1> USE DEF clientVars, walVars, bgVars
<1>0. TypeOK /\ CompactionInv BY DEF IInv
<1>1. up /\ up' /\ up \in BOOLEAN /\ up' \in BOOLEAN BY <1>0, UpStep, BackgroundTypeOK DEF TypeOK
<1>2. CASE BgPick BY <1>1, <1>2 DEF Quiet, BgPick
<1>3. CASE BgOpenOutput
  <2>1. Unnamed(nextFile) /\ nextFile \in Number
    BY SMT, <1>0, <1>1, <1>3, FreshUnnamed DEF BgOpenOutput, TypeOK, Number
  <2>2. disk' \in {disk, [disk EXCEPT ![nextFile] = Partial]} BY <1>3 DEF BgOpenOutput
  <2>3. UNCHANGED <<current, manifest, up>> /\ nextFile' = nextFile + 1
    BY <1>1, <1>3 DEF BgOpenOutput
  <2> QED BY SMT, <1>0, <2>1, <2>2, <2>3, QuietIf
<1>4. CASE BgFinishOutput
  <2>1. Unnamed(bnum) /\ bnum \in Number BY <1>0, <1>4 DEF BgFinishOutput, CompactionInv, Private
  <2>2. disk' \in {disk, [disk EXCEPT ![bnum] = Only(rest, Chunk(rest))]} BY <1>4 DEF BgFinishOutput
  <2>3. UNCHANGED <<current, manifest, up, nextFile>> BY <1>1, <1>4 DEF BgFinishOutput
  <2> QED BY SMT, <1>0, <2>1, <2>2, <2>3, QuietIf
<1>5. CASE BgFail
  <2>1. UNCHANGED <<current, manifest, up, nextFile>> BY <1>1, <1>5 DEF BgFail
  <2>2. CASE bg = "write"
    <3>1. Unnamed(bnum) /\ bnum \in Number BY <1>0, <2>2 DEF CompactionInv, Private
    <3>2. disk' \in {disk, [disk EXCEPT ![bnum] = Only(rest, Chunk(rest))]}
      BY <1>5, <2>2 DEF BgFail
    <3> QED BY SMT, <1>0, <2>1, <3>1, <3>2, QuietIf
  <2>3. CASE bg # "write"
    <3>1. disk' = disk BY <1>5, <2>3 DEF BgFail
    <3> QED BY <2>1, <3>1 DEF Quiet
  <2> QED BY <2>2, <2>3
<1>6. CASE BgUnlink
  <2>1. UNCHANGED <<current, manifest, up, nextFile>> BY <1>1, <1>6 DEF BgUnlink
  <2>2. PICK n \in doomed : disk' \in {disk, [disk EXCEPT ![n] = Missing]} BY <1>6 DEF BgUnlink
  <2>3. Unnamed(n) /\ n \in Number BY <1>0, <1>6 DEF BgUnlink, CompactionInv, TypeOK
  <2> QED BY SMT, <1>0, <2>1, <2>2, <2>3, QuietIf
<1> QED BY <1>2, <1>3, <1>4, <1>5, <1>6 DEF Background

-------------------------------------------------------------------------------
(* The flush and the compaction in progress *)

\* What the compaction relies on survives a quiet step of the client that
\* keeps off its files.
LEMMA CompactionFrame ==
  ASSUME IInv, Quiet, UNCHANGED <<bg, comp, rest, outs, bnum, doomed>>,
         bg \in {"merge", "write"} => \A o \in outs : disk'[o.number] = disk[o.number],
         bg = "write" /\ pc' \in {"build", "install"} => bnum # num',
         bg = "unlink" => pc' # "reset" /\ (pc' \in {"build", "install"} => num' \notin doomed)
  PROVE  CompactionInv'
<1>0. TypeOK /\ CompactionInv BY DEF IInv
<1>1. current' = current /\ manifest' = manifest BY DEF Quiet
<1>2. \A n \in Number : n < nextFile => n < nextFile' BY SMT, <1>0 DEF TypeOK, Quiet, Number
<1>3. \A n : Unnamed(n)' <=> Unnamed(n) BY <1>1 DEF Unnamed
<1>4. bg \in {"merge", "write"} => PickOK(current, comp)' /\ MergeInv'
  <2>1. bg \in {"merge", "write"} => PickOK(current, comp) /\ MergeInv BY <1>0 DEF CompactionInv
  <2>2. PickOK(current, comp)' <=> PickOK(current, comp) BY <1>1
  <2>3. \A o \in outs : o.number \in Number BY <1>0 DEF TypeOK, File
  <2>4. bg \in {"merge", "write"} => MergeInv' BY <1>2, <1>3, <2>1, <2>3 DEF MergeInv
  <2> QED BY <2>1, <2>2, <2>4
<1>5. bg = "write" => Private(bnum)'
  BY <1>0, <1>2, <1>3 DEF CompactionInv, Private
<1>6. bg = "unlink" => \A n \in doomed : Unnamed(n)'
  BY <1>0, <1>3 DEF CompactionInv
<1> QED BY <1>0, <1>4, <1>5, <1>6 DEF CompactionInv

\* A quiet step that leaves the flush and its file alone keeps the flush's
\* invariant.
LEMMA FlushFrame ==
  ASSUME IInv, Quiet, UNCHANGED <<pc, num, mem>>,
         pc \in {"build", "install"} => \A o \in outs' : o.number # num,
         pc = "install" => disk'[num] = disk[num]
  PROVE  FlushInv'
<1>0. TypeOK /\ FlushInv BY DEF IInv
<1>1. current' = current /\ manifest' = manifest BY DEF Quiet
<1>2. \A n \in Number : n < nextFile => n < nextFile' BY SMT, <1>0 DEF TypeOK, Quiet, Number
<1>3. \A n : Unnamed(n)' <=> Unnamed(n) BY <1>1 DEF Unnamed
<1>4. pc \in {"build", "install"} => Private(num)'
  BY <1>0, <1>2, <1>3 DEF FlushInv, Private
<1> QED BY <1>0, <1>1, <1>4 DEF FlushInv

\* While the flush waits for its number, or for a lock that is free, no output
\* of the compaction has the next number.
LEMMA FreshOutputs ==
  ASSUME IInv, MuFree
  PROVE  \A o \in outs : o.number < nextFile
BY DEF IInv, TypeOK, MuFree, CompactionInv, MergeInv

\* The client's quiet steps do not disturb a compaction in progress.
LEMMA ClientCompaction ==
  ASSUME IInv, Client, ~FlushInstall
  PROVE  CompactionInv'
<1> USE DEF clientVars, walVars, bgVars
<1>0. TypeOK /\ FlushInv /\ CompactionInv BY DEF IInv
<1>1. Quiet BY ClientQuiet
<1>2. UNCHANGED <<bg, comp, rest, outs, bnum, doomed>> BY ClientFrame
<1>3. ASSUME NEW k \in Keys, NEW x \in Values \cup {Deleted}, Log(k, x) PROVE CompactionInv'
  BY ZenonT(30), <1>1, <1>2, <1>3, CompactionFrame DEF Log
<1>4. ASSUME NEW k \in Keys, NEW x \in Values \cup {Deleted}, LogFail(k, x) PROVE CompactionInv'
  <2>1. pc' = "idle" /\ disk' = disk BY <1>4 DEF LogFail, Writing
  <2> QED BY <1>1, <1>2, <2>1, CompactionFrame
<1>5. CASE Apply
  <2>1. pc' \in {"alloc", "idle"} /\ disk' = disk BY <1>5 DEF Apply
  <2> QED BY ZenonT(30), <1>1, <1>2, <2>1, CompactionFrame
<1>6. CASE FlushCall BY <1>1, <1>2, <1>6, CompactionFrame DEF FlushCall
<1>7. CASE FlushAlloc
  <2>1. bg # "unlink" /\ MuFree BY <1>7 DEF FlushAlloc, MuFree
  <2>2. disk' \in {disk, [disk EXCEPT ![nextFile] = Partial]} BY <1>7 DEF FlushAlloc
  <2>3. pc' \in {"idle", "build"} /\ (pc' = "build" => num' = nextFile) BY <1>7 DEF FlushAlloc
  <2>4. \A o \in outs : disk'[o.number] = disk[o.number]
    <3>1. \A o \in outs : o.number < nextFile /\ o.number \in Number
      BY ZenonT(30), <1>0, <2>1, FreshOutputs DEF TypeOK, File
    <3>2. \A o \in outs : o.number # nextFile BY SMT, <1>0, <3>1 DEF TypeOK, Number
    <3> QED BY <1>0, <2>2, <3>1, <3>2 DEF TypeOK
  <2>5. bg = "write" => bnum # nextFile BY SMT, <1>0 DEF CompactionInv, Private, TypeOK, Number
  <2> QED BY ZenonT(30), <1>1, <1>2, <2>1, <2>3, <2>4, <2>5, CompactionFrame
<1>8. CASE FlushBuild
  <2>1. pc' \in {"idle", "install"} /\ (pc' = "install" => num' = num) BY <1>8 DEF FlushBuild
  <2>2. disk' \in {disk, [disk EXCEPT ![num] = mem]} BY <1>8 DEF FlushBuild
  <2>3. pc = "build" BY <1>8 DEF FlushBuild
  <2>4. \A o \in outs : o.number \in Number /\ o.number # num
    BY <1>0, <2>3 DEF FlushInv, Private, TypeOK, File
  <2>5. \A o \in outs : disk'[o.number] = disk[o.number] BY <1>0, <2>2, <2>4 DEF TypeOK
  <2>6. bg = "write" => bnum # num BY <1>0, <2>3 DEF CompactionInv
  <2>7. bg = "unlink" => num \notin doomed BY <1>0, <2>3 DEF CompactionInv
  <2> QED BY ZenonT(30), <1>1, <1>2, <2>1, <2>5, <2>6, <2>7, CompactionFrame
<1>9. CASE FlushReset
  <2>1. pc' = "idle" /\ disk' = disk BY <1>9 DEF FlushReset
  <2> QED BY <1>1, <1>2, <2>1, CompactionFrame
<1> QED BY <1>3, <1>4, <1>5, <1>6, <1>7, <1>8, <1>9 DEF Client

\* The client's quiet steps keep the flush's own invariant.
LEMMA ClientFlush ==
  ASSUME IInv, Client, ~FlushInstall
  PROVE  FlushInv'
<1> USE DEF clientVars, walVars, bgVars
<1>0. TypeOK /\ FlushInv /\ CompactionInv BY DEF IInv
<1>1. Quiet BY ClientQuiet
<1>2. UNCHANGED <<bg, comp, rest, outs, bnum, doomed>> BY ClientFrame
<1>a. pc' \in {"idle", "apply"} => FlushInv' BY DEF FlushInv
<1>3. ASSUME NEW k \in Keys, NEW x \in Values \cup {Deleted}, Log(k, x) PROVE FlushInv'
  BY <1>a, <1>3 DEF Log
<1>4. ASSUME NEW k \in Keys, NEW x \in Values \cup {Deleted}, LogFail(k, x) PROVE FlushInv'
  BY <1>a, <1>4 DEF LogFail, Writing
<1>5. CASE Apply
  <2>1. pc' \in {"alloc", "idle"} BY <1>5 DEF Apply
  <2>2. PICK c \in op : mem' = [mem EXCEPT ![c[1]] = c[2]] BY <1>5 DEF Apply
  <2>3. c[1] \in Keys /\ c[2] # NotFound BY <1>0, EntryAssumption DEF TypeOK
  <2>4. mem'[c[1]] # NotFound BY <1>0, <2>2, <2>3 DEF TypeOK, Table
  <2>5. mem' # Empty BY <2>3, <2>4, EmptyType
  <2> QED BY <2>1, <2>5 DEF FlushInv
<1>6. CASE FlushCall BY <1>6 DEF FlushCall, FlushInv
<1>7. CASE FlushAlloc
  <2>1. CASE pc' = "build"
    <3>1. num' = nextFile /\ nextFile' = nextFile + 1 /\ mem' = mem /\ pc = "alloc" /\ MuFree
          /\ current' = current /\ manifest' = manifest /\ nextFile <= MaxFile /\ up
      BY <1>7, <2>1 DEF FlushAlloc
    <3>2. nextFile \in Number /\ nextFile < nextFile + 1 BY SMT, <1>0, <3>1 DEF TypeOK, Number
    <3>3. \A o \in outs : o.number # nextFile
      <4>1. \A o \in outs : o.number < nextFile /\ o.number \in Number
        BY <1>0, <3>1, FreshOutputs DEF TypeOK, File
      <4> QED BY SMT, <1>0, <4>1 DEF TypeOK, Number
    <3>4. Unnamed(nextFile) BY <3>1, FreshUnnamed
    <3>5. Private(num)' BY ZenonT(30), <1>2, <3>1, <3>2, <3>3, <3>4 DEF Private, Unnamed
    <3>6. \A f \in current[0] : f.number < nextFile
      BY SMT, OptionsAssumption DEF IInv, FilesInv, Level
    <3> QED BY ZenonT(30), <1>0, <2>1, <3>1, <3>5, <3>6 DEF FlushInv
  <2>2. CASE pc' = "idle" BY <1>a, <2>2
  <2> QED BY <1>7, <2>1, <2>2 DEF FlushAlloc
<1>8. CASE FlushBuild
  <2>1. CASE pc' = "install"
    <3>1. disk' = [disk EXCEPT ![num] = mem] /\ num' = num /\ mem' = mem /\ pc = "build"
      BY <1>8, <2>1 DEF FlushBuild
    <3>2. current' = current /\ manifest' = manifest /\ nextFile' = nextFile
      BY <1>8 DEF FlushBuild
    <3>3. num \in Number BY <1>0, <3>1 DEF FlushInv, Private
    <3>4. Private(num)' BY ZenonT(30), <1>0, <1>2, <3>1, <3>2 DEF FlushInv, Private, Unnamed
    <3>5. disk'[num] = mem BY ZenonT(30), <1>0, <3>1, <3>3 DEF TypeOK
    <3> QED BY ZenonT(30), <1>0, <2>1, <3>1, <3>2, <3>4, <3>5 DEF FlushInv
  <2>2. CASE pc' = "idle" BY <1>a, <2>2
  <2> QED BY <1>8, <2>1, <2>2 DEF FlushBuild
<1>9. CASE FlushReset BY <1>a, <1>9 DEF FlushReset
<1> QED BY <1>3, <1>4, <1>5, <1>6, <1>7, <1>8, <1>9 DEF Client

\* The background thread's quiet steps do not disturb a flush in progress.
LEMMA BackgroundFlush ==
  ASSUME IInv, Background, ~BgInstall
  PROVE  FlushInv'
<1> USE DEF clientVars, walVars, bgVars
<1>0. TypeOK /\ FlushInv /\ CompactionInv BY DEF IInv
<1>1. Quiet BY BackgroundQuiet
<1>2. UNCHANGED <<pc, num, mem>> BY BackgroundFrame
<1>3. pc \in {"build", "install"} =>
        /\ num \in Number /\ num # nextFile
        /\ \A o \in outs : o.number # num
  BY SMT, <1>0 DEF FlushInv, Private, TypeOK, Number
<1>4. CASE BgPick BY ZenonT(30), <1>1, <1>2, <1>3, <1>4, FlushFrame DEF BgPick
<1>5. CASE BgOpenOutput
  <2>1. disk' \in {disk, [disk EXCEPT ![nextFile] = Partial]} BY <1>5 DEF BgOpenOutput
  <2>2. outs' \in {outs, {}} BY <1>5 DEF BgOpenOutput, BgIdle
  <2>3. pc = "install" => disk'[num] = disk[num] BY <1>0, <1>3, <2>1 DEF TypeOK
  <2> QED BY ZenonT(30), <1>1, <1>2, <1>3, <2>2, <2>3, FlushFrame
<1>6. CASE BgFinishOutput
  <2>1. /\ disk' = [disk EXCEPT ![bnum] = Only(rest, Chunk(rest))]
        /\ outs' = outs \cup {[number |-> bnum, data |-> Only(rest, Chunk(rest))]}
        /\ bg = "write"
    BY <1>6 DEF BgFinishOutput
  <2>2. pc \in {"build", "install"} => bnum # num BY <1>0, <2>1 DEF CompactionInv
  <2>3. pc = "install" => disk'[num] = disk[num] BY ZenonT(30), <1>0, <1>3, <2>1, <2>2 DEF TypeOK
  <2>4. pc \in {"build", "install"} => \A o \in outs' : o.number # num
    BY SMT, <1>3, <2>1, <2>2
  <2> QED BY ZenonT(30), <1>1, <1>2, <2>3, <2>4, FlushFrame
<1>7. CASE BgFail
  <2>1. outs' = {} BY <1>7 DEF BgFail, BgIdle
  <2>2. bg = "write" => disk' \in {disk, [disk EXCEPT ![bnum] = Only(rest, Chunk(rest))]}
    BY <1>7 DEF BgFail
  <2>3. bg # "write" => disk' = disk BY <1>7 DEF BgFail
  <2>4. bg = "write" /\ pc \in {"build", "install"} => bnum # num BY <1>0 DEF CompactionInv
  <2>5. pc = "install" => disk'[num] = disk[num]
    BY <1>0, <1>3, <2>2, <2>3, <2>4 DEF TypeOK
  <2> QED BY ZenonT(30), <1>1, <1>2, <2>1, <2>5, FlushFrame
<1>8. CASE BgUnlink
  <2>1. PICK n \in doomed : disk' \in {disk, [disk EXCEPT ![n] = Missing]} BY <1>8 DEF BgUnlink
  <2>2. outs' \in {outs, {}} BY <1>8 DEF BgUnlink, BgIdle
  <2>3. bg = "unlink" BY <1>8 DEF BgUnlink
  <2>4. pc = "install" => num # n BY <1>0, <2>3 DEF CompactionInv
  <2>5. pc = "install" => disk'[num] = disk[num] BY <1>0, <1>3, <2>1, <2>4 DEF TypeOK
  <2> QED BY <1>1, <1>2, <1>3, <2>2, <2>5, FlushFrame
<1> QED BY ZenonT(30), <1>4, <1>5, <1>6, <1>7, <1>8 DEF Background

\* One more output: what finish_output adds continues the run of outputs.
LEMMA OutputStep ==
  ASSUME IInv, BgFinishOutput
  PROVE  MergeInv'
<1> DEFINE data == Only(rest, Chunk(rest))
           new == [number |-> bnum, data |-> data]
<1>0. TypeOK /\ MergeInv /\ Private(bnum) /\ KeysOf(rest) # {}
  BY DEF IInv, CompactionInv, BgFinishOutput
<1>1. /\ disk' = [disk EXCEPT ![bnum] = data]
      /\ outs' = outs \cup {new}
      /\ rest' = Only(rest, KeysOf(rest) \ Chunk(rest))
      /\ comp' = comp /\ nextFile' = nextFile /\ current' = current /\ manifest' = manifest
  BY DEF BgFinishOutput
<1>2. rest \in Table BY <1>0 DEF TypeOK
<1>3. /\ Chunk(rest) \subseteq KeysOf(rest) /\ Chunk(rest) # {}
      /\ \A a \in Chunk(rest), b \in KeysOf(rest) \ Chunk(rest) : a < b
  BY <1>0, <1>2, ChunkFirst
<1>4. /\ KeysOf(data) = Chunk(rest)
      /\ \A k \in Keys : data[k] = IF k \in Chunk(rest) THEN rest[k] ELSE NotFound
  <2>1. \A k \in Keys : data[k] = IF k \in Chunk(rest) THEN rest[k] ELSE NotFound BY DEF Only
  <2>2. KeysOf(data) = KeysOf(rest) \cap Chunk(rest) BY <1>2, OnlyType
  <2> HIDE DEF data
  <2> QED BY <1>3, <2>1, <2>2
<1>5. /\ KeysOf(rest') = KeysOf(rest) \ Chunk(rest)
      /\ \A k \in Keys : rest'[k] = IF k \in KeysOf(rest) \ Chunk(rest) THEN rest[k] ELSE NotFound
  <2> DEFINE left == KeysOf(rest) \ Chunk(rest)  kept == Only(rest, left)
  <2>1. /\ \A k \in Keys : kept[k] = IF k \in left THEN rest[k] ELSE NotFound
        /\ KeysOf(kept) = KeysOf(rest) \cap left
    <3>1. \A k \in Keys : kept[k] = IF k \in left THEN rest[k] ELSE NotFound BY DEF Only
    <3>2. KeysOf(kept) = KeysOf(rest) \cap left BY <1>2, OnlyType
    <3> QED BY <3>1, <3>2
  <2>2. rest' = kept BY <1>1
  <2>3. KeysOf(rest) \cap left = left OBVIOUS
  <2> HIDE DEF kept, left
  <2>4. /\ KeysOf(rest') = left
        /\ \A k \in Keys : rest'[k] = IF k \in left THEN rest[k] ELSE NotFound
    BY <2>1, <2>2, <2>3
  <2> QED BY <2>4 DEF left
<1>6. new.number = bnum /\ new.data = data OBVIOUS
<1>7. \A o \in outs : o.number # bnum /\ o.number \in Number
  BY <1>0 DEF Private, TypeOK, File
<1>8. \A o \in outs : \A a \in KeysOf(o.data), b \in Chunk(rest) : a < b
  BY <1>0, <1>3 DEF MergeInv
<1>9. \A k \in Keys : k \in Chunk(rest) => rest[k] # NotFound BY <1>3 DEF KeysOf
<1>10. Disjoint(outs')
  <2>1. ASSUME NEW o \in outs
        PROVE  ~Overlaps(KeysOf(o.data), KeysOf(data)) /\ ~Overlaps(KeysOf(data), KeysOf(o.data))
    <3>1. KeysOf(o.data) \subseteq Keys /\ KeysOf(data) \subseteq Keys BY DEF KeysOf
    <3>2. \A a \in KeysOf(o.data), b \in KeysOf(data) : a < b BY <1>4, <1>8
    <3>3. ~Overlaps(KeysOf(o.data), KeysOf(data))
      BY <3>1, <3>2, BeforeApart
    <3> QED BY <3>1, <3>3, OverlapsSym
  <2>2. Disjoint(outs) BY <1>0 DEF MergeInv, OutputsOK
  <2> QED BY <1>1, <1>6, <2>1, <2>2 DEF Disjoint
<1>11. OutputsOK(comp, outs)'
  <2>1. \A o \in outs' : KeysOf(o.data) # {}
    BY ZenonT(40), <1>0, <1>1, <1>3, <1>4, <1>6 DEF MergeInv, OutputsOK
  <2>2. \A o, p \in outs' : o # p => o.number # p.number
    <3>1. \A o, p \in outs : o # p => o.number # p.number BY <1>0 DEF MergeInv, OutputsOK
    <3> HIDE DEF new
    <3> QED BY <1>1, <1>6, <1>7, <3>1
  <2>3. \A k \in Keys : data[k] \in {NotFound, Merged(comp)[k]}
    BY <1>0, <1>4 DEF MergeInv
  <2>4. \A o \in outs' : \A k \in Keys : o.data[k] \in {NotFound, Merged(comp)[k]}
    BY <1>0, <1>1, <1>6, <2>3 DEF MergeInv, OutputsOK
  <2> QED BY <1>1, <1>10, <2>1, <2>2, <2>4 DEF OutputsOK
<1>12. \A o \in outs' : o.number < nextFile' /\ Unnamed(o.number)' /\ disk'[o.number] = o.data
  <2>1. \A o \in outs : o.number < nextFile /\ Unnamed(o.number) /\ disk'[o.number] = o.data
    BY <1>0, <1>1, <1>7 DEF MergeInv, TypeOK
  <2>2. bnum < nextFile /\ Unnamed(bnum) /\ disk'[bnum] = data
    BY <1>0, <1>1 DEF Private, TypeOK
  <2> QED BY <1>1, <1>6, <2>1, <2>2 DEF Unnamed
<1>13. \A o \in outs' : \A a \in KeysOf(o.data), b \in KeysOf(rest') : a < b
  <2>1. \A o \in outs : \A a \in KeysOf(o.data), b \in KeysOf(rest') : a < b
    BY <1>0, <1>5 DEF MergeInv
  <2>2. \A a \in KeysOf(data), b \in KeysOf(rest') : a < b BY <1>3, <1>4, <1>5
  <2> QED BY <1>1, <1>6, <2>1, <2>2
<1>14. ASSUME NEW k \in Keys
       PROVE  /\ rest'[k] \in {NotFound, Merged(comp)[k]}
              /\ Merged(comp)[k] # NotFound =>
                   rest'[k] # NotFound \/ \E o \in outs' : o.data[k] # NotFound
  <2>1. rest[k] \in {NotFound, Merged(comp)[k]} BY <1>0 DEF MergeInv
  <2>2. CASE k \in Chunk(rest)
    <3>1. data[k] # NotFound BY <1>4, <1>9, <2>2
    <3>2. new \in outs' /\ new.data[k] # NotFound BY <1>1, <1>6, <3>1
    <3> QED BY <1>5, <2>2, <3>2
  <2>3. CASE k \notin Chunk(rest)
    <3>1. rest'[k] = rest[k] BY <1>5, <2>3 DEF KeysOf
    <3> QED BY <1>0, <1>1, <2>1, <3>1 DEF MergeInv
  <2> QED BY <2>2, <2>3
<1> QED BY <1>1, <1>11, <1>12, <1>13, <1>14 DEF MergeInv

\* The background thread's quiet steps keep the compaction's own invariant.
LEMMA BackgroundCompaction ==
  ASSUME IInv, Background, ~BgInstall
  PROVE  CompactionInv'
<1> USE DEF clientVars, walVars, bgVars
<1>0. TypeOK /\ FilesInv /\ FlushInv /\ CompactionInv BY DEF IInv
<1>1. Quiet BY BackgroundQuiet
<1>2. UNCHANGED <<pc, num, mem>> BY BackgroundFrame
<1>3. BgIdle => CompactionInv' BY DEF BgIdle, CompactionInv
<1>4. CASE BgPick
  <2>1. /\ comp' \in PickCompaction(current) /\ rest' = Merged(comp') /\ bg' = "merge"
        /\ outs' = outs /\ bg = "idle" /\ current' = current
    BY <1>4 DEF BgPick
  <2>2. outs = {} BY <1>0, <2>1 DEF CompactionInv
  <2>3. PickOK(current, comp') BY <1>0, <2>1, PickedOK DEF TypeOK, FilesInv
  <2>4. MergeInv' BY <2>1, <2>2 DEF MergeInv, OutputsOK, Disjoint
  <2> QED BY ZenonT(30), <2>1, <2>3, <2>4 DEF CompactionInv
<1>5. CASE BgOpenOutput
  <2>1. CASE bg' = "write"
    <3>1. /\ bnum' = nextFile /\ nextFile' = nextFile + 1 /\ nextFile <= MaxFile
          /\ disk' = [disk EXCEPT ![nextFile] = Partial]
          /\ UNCHANGED <<comp, rest, outs, current, manifest>>
          /\ bg = "merge" /\ rest # Empty /\ MuFree /\ up
      BY <1>5, <2>1 DEF BgOpenOutput, BgIdle
    <3>2. nextFile \in Number /\ nextFile < nextFile + 1 BY SMT, <1>0, <3>1 DEF TypeOK, Number
    <3>3. PickOK(current, comp) /\ MergeInv BY <1>0, <3>1 DEF CompactionInv
    <3>4. \A o \in outs : o.number < nextFile /\ o.number \in Number
      BY ZenonT(30), <1>0, <3>1, FreshOutputs DEF TypeOK, File
    <3>5. \A o \in outs : o.number # nextFile /\ o.number < nextFile'
      BY SMT, <1>0, <3>1, <3>4 DEF TypeOK, Number
    <3>6. \A n : Unnamed(n)' <=> Unnamed(n) BY <3>1 DEF Unnamed
    <3>7. \A o \in outs : disk'[o.number] = disk[o.number] BY <1>0, <3>1, <3>4, <3>5 DEF TypeOK
    <3>8. MergeInv' BY <3>1, <3>3, <3>5, <3>6, <3>7 DEF MergeInv
    <3>9. Unnamed(nextFile) BY <3>1, FreshUnnamed
    <3>10. Private(bnum)' BY ZenonT(30), <3>1, <3>2, <3>5, <3>6, <3>9 DEF Private
    <3>11. KeysOf(rest) # {} BY <1>0, <3>1, NotEmpty DEF TypeOK
    <3>12. pc \in {"build", "install"} => num # nextFile
      BY SMT, <1>0 DEF FlushInv, Private, TypeOK, Number
    <3> QED BY ZenonT(30), <1>2, <2>1, <3>1, <3>3, <3>8, <3>10, <3>11, <3>12 DEF CompactionInv
  <2>2. CASE bg' # "write" BY <1>3, <1>5, <2>2 DEF BgOpenOutput
  <2> QED BY <2>1, <2>2
<1>6. CASE BgFinishOutput
  <2>1. bg' = "merge" /\ bg = "write" /\ current' = current /\ comp' = comp
    BY <1>6 DEF BgFinishOutput
  <2>2. PickOK(current, comp)' BY <1>0, <2>1 DEF CompactionInv
  <2>3. MergeInv' BY <1>6, OutputStep
  <2> QED BY <2>1, <2>2, <2>3 DEF CompactionInv
<1>7. CASE BgFail BY <1>3, <1>7 DEF BgFail
<1>8. CASE BgUnlink
  <2>1. CASE BgIdle BY <1>3, <2>1
  <2>2. CASE ~BgIdle
    <3>1. bg = "unlink" /\ bg' = "unlink" /\ doomed' \subseteq doomed
          /\ current' = current /\ manifest' = manifest
      BY <1>8, <2>2 DEF BgUnlink
    <3>2. \A n \in doomed' : Unnamed(n)' BY <1>0, <3>1 DEF CompactionInv, Unnamed
    <3> QED BY <1>0, <1>2, <3>1, <3>2 DEF CompactionInv
  <2> QED BY <2>1, <2>2
<1> QED BY <1>4, <1>5, <1>6, <1>7, <1>8 DEF Background

-------------------------------------------------------------------------------
(* Acknowledged writes *)

\* A quiet step that leaves memtable and log alone loses no acknowledged write.
LEMMA AckedFrame ==
  ASSUME IInv, Quiet, UNCHANGED <<mem, wal, torn, op, unacked>>
  PROVE  AckedDurableUnlessTorn'
<1>1. Loaded' = Loaded BY QuietFiles
<1>2. current' = current /\ up' = up BY DEF Quiet
<1>3. AckedDurableUnlessTorn BY DEF IInv
<1> QED BY <1>1, <1>2, <1>3 DEF AckedDurableUnlessTorn, AckedDurable, Get, Recovered

\* AddRecord loses no acknowledged write.
LEMMA LogAcked ==
  ASSUME IInv, Quiet, up, NEW k \in Keys, NEW x \in Values \cup {Deleted}, Log(k, x)
  PROVE  AckedDurableUnlessTorn'
<1>0. TypeOK /\ OpInv /\ AckedDurableUnlessTorn BY DEF IInv
<1>1. Loaded' = Loaded /\ current' = current BY QuietFiles DEF Quiet
<1>2. mem' = mem /\ unacked' = unacked /\ torn' = torn /\ op' = {<<k, x>>} /\ wal' = Append(k, x)
  BY DEF Log
<1>3. op = {} BY <1>0 DEF Log, Writing, OpInv
<1>4. ~torn => \A j \in Keys \ unacked : Live(Recovered(j)) = Live(Get(j))
  BY SMTT(30), <1>0, <1>3 DEF AckedDurableUnlessTorn, AckedDurable
<1>5. ASSUME NEW j \in Keys, j # k PROVE Recovered(j)' = Recovered(j) /\ Get(j)' = Get(j)
  <2>1. wal'[j] = wal[j] BY <1>0, <1>2, <1>5 DEF Append, TypeOK, Table
  <2> QED BY ZenonT(40), <1>1, <1>2, <2>1 DEF Recovered, Get
<1>6. \E c \in op' : c[1] = k BY <1>2
<1> QED BY <1>2, <1>4, <1>5, <1>6 DEF AckedDurableUnlessTorn, AckedDurable

\* A failing AddRecord loses no acknowledged write.
LEMMA LogFailAcked ==
  ASSUME IInv, Quiet, up, NEW k \in Keys, NEW x \in Values \cup {Deleted}, LogFail(k, x)
  PROVE  AckedDurableUnlessTorn'
<1>0. TypeOK /\ OpInv /\ AckedDurableUnlessTorn BY DEF IInv
<1>1. Loaded' = Loaded /\ current' = current BY QuietFiles DEF Quiet
<1>2. mem' = mem /\ op' = op BY DEF LogFail
<1>3. op = {} BY <1>0 DEF LogFail, Writing, OpInv
<1>4. torn' = torn \/ torn' = TRUE BY DEF LogFail
<1>5. unacked \subseteq unacked' BY DEF LogFail
<1>6. wal' = wal \/ (wal' = Append(k, x) /\ k \in unacked') BY DEF LogFail
<1>7. ~torn => \A j \in Keys \ unacked : Live(Recovered(j)) = Live(Get(j))
  BY <1>0, <1>3 DEF AckedDurableUnlessTorn, AckedDurable
<1>8. ASSUME NEW j \in Keys \ unacked' PROVE Recovered(j)' = Recovered(j) /\ Get(j)' = Get(j)
  <2>1. wal'[j] = wal[j] BY <1>0, <1>6 DEF Append, TypeOK, Table
  <2> QED BY <1>1, <1>2, <2>1 DEF Recovered, Get
<1> QED BY SMT, <1>4, <1>5, <1>7, <1>8 DEF AckedDurableUnlessTorn, AckedDurable

\* The memtable insert of a logged write makes it readable now and after a crash.
LEMMA ApplyAcked ==
  ASSUME IInv, Quiet, up, Apply
  PROVE  AckedDurableUnlessTorn'
<1> USE DEF walVars
<1>0. TypeOK /\ OpInv /\ LogInv /\ AckedDurableUnlessTorn BY DEF IInv
<1>1. Loaded' = Loaded /\ current' = current BY QuietFiles DEF Quiet
<1>2. wal' = wal /\ torn' = torn BY DEF Apply
<1>3. PICK c \in op : mem' = [mem EXCEPT ![c[1]] = c[2]] /\ unacked' = unacked \ {c[1]}
  BY DEF Apply
<1>4. c[1] \in Keys /\ c[2] # NotFound BY <1>0, EntryAssumption DEF TypeOK
<1>5. op = {c} BY <1>0, <1>3 DEF OpInv
<1>6. ~torn => Recovered(c[1])' = c[2] /\ Get(c[1])' = c[2]
  <2>1. ~torn => wal[c[1]] = c[2] BY <1>0 DEF LogInv
  <2>2. mem'[c[1]] = c[2] BY <1>0, <1>3, <1>4 DEF TypeOK, Table
  <2> QED BY <1>2, <1>4, <2>1, <2>2 DEF Recovered, Get
<1>7. ASSUME NEW j \in Keys, j # c[1] PROVE Recovered(j)' = Recovered(j) /\ Get(j)' = Get(j)
  <2>1. mem'[j] = mem[j] BY <1>0, <1>3, <1>7 DEF TypeOK, Table
  <2> QED BY <1>1, <1>2, <2>1 DEF Recovered, Get
<1>8. ~torn => \A j \in Keys \ unacked : j = c[1] \/ Live(Recovered(j)) = Live(Get(j))
  BY <1>0, <1>5 DEF AckedDurableUnlessTorn, AckedDurable
<1> QED BY <1>2, <1>3, <1>6, <1>7, <1>8 DEF AckedDurableUnlessTorn, AckedDurable

\* Merging and unlinking lose no acknowledged write.
LEMMA BackgroundAcked ==
  ASSUME IInv, Background, ~BgInstall
  PROVE  AckedDurableUnlessTorn'
<1>1. Quiet BY BackgroundQuiet
<1>2. UNCHANGED <<mem, wal, torn, op, unacked>> BY BackgroundFrame
<1> QED BY <1>1, <1>2, AckedFrame

-------------------------------------------------------------------------------
(* Acknowledged writes across the reset of the log *)

\* Dropping memtable and log after the manifest names the flushed file loses no
\* acknowledged write.
LEMMA ResetAcked ==
  ASSUME IInv, Quiet, up, FlushReset
  PROVE  AckedDurableUnlessTorn'
<1>0. TypeOK /\ OpInv /\ FilesInv /\ FlushInv /\ AckedDurableUnlessTorn BY DEF IInv
<1>1. Loaded' = Loaded /\ current' = current BY QuietFiles DEF Quiet
<1>2. mem' = Empty /\ pc = "reset" BY DEF FlushReset
<1>3. op = {} BY <1>0, <1>2 DEF OpInv
<1>4. Loaded = current BY <1>0, <1>2, ResetLoads
<1>5. \A k \in Keys : Get(k)' = GetFromVersion(current, k) BY <1>1, <1>2, EmptyType DEF Get
<1>6. ASSUME NEW k \in Keys PROVE Get(k)' = Get(k)
  <2>1. PICK f \in current[0] : f.data = mem /\ \A g \in current[0] : g.number <= f.number
    BY <1>0, <1>2 DEF FlushInv
  <2>2. mem[k] # NotFound => GetFromVersion(current, k) = mem[k]
    BY <1>0, <2>1, TopReads DEF TypeOK, FilesInv
  <2> QED BY <1>5, <2>2 DEF Get
<1>7. CASE wal' = Empty
  <2>1. \A k \in Keys : Recovered(k)' = GetFromVersion(Loaded, k)
    BY <1>1, <1>7, EmptyType DEF Recovered
  <2> QED BY <1>4, <1>5, <2>1 DEF AckedDurableUnlessTorn, AckedDurable
<1>8. CASE UNCHANGED <<wal, torn, unacked>>
  <2>1. ~torn => \A k \in Keys \ unacked : Live(Recovered(k)) = Live(Get(k))
    BY <1>0, <1>3 DEF AckedDurableUnlessTorn, AckedDurable
  <2>2. \A k \in Keys : Recovered(k)' = Recovered(k) BY <1>1, <1>8 DEF Recovered
  <2> QED BY <1>6, <1>8, <2>1, <2>2 DEF AckedDurableUnlessTorn, AckedDurable
<1> QED BY <1>7, <1>8 DEF FlushReset

\* The client's quiet steps lose no acknowledged write.
LEMMA ClientAcked ==
  ASSUME IInv, Client, ~FlushInstall
  PROVE  AckedDurableUnlessTorn'
<1> USE DEF walVars
<1>1. Quiet /\ up BY ClientQuiet, UpStep DEF IInv
<1>2. CASE FlushCall BY <1>1, <1>2, AckedFrame DEF FlushCall
<1>3. CASE FlushAlloc BY <1>1, <1>3, AckedFrame DEF FlushAlloc
<1>4. CASE FlushBuild BY <1>1, <1>4, AckedFrame DEF FlushBuild
<1> QED BY ZenonT(30), <1>1, <1>2, <1>3, <1>4, LogAcked, LogFailAcked, ApplyAcked, ResetAcked DEF Client

-------------------------------------------------------------------------------
(* The two steps that install a version *)

\* After WriteManifest a restart loads the running version.
LEMMA ManifestWritten ==
  ASSUME TypeOK, TypeOK', FilesInv', nextFile' = nextFile, manifest' = ManifestOf(current')
  PROVE  /\ ManifestInv' /\ Loaded' = current'
         /\ \A l \in Level : manifest'.files[l] = NumbersOf(current'[l])
         /\ \A n : Unnamed(n)' <=> \A l \in Level : \A f \in current'[l] : f.number # n
<1>1. manifest'.next = nextFile' /\ \A l \in Level : manifest'.files[l] = NumbersOf(current'[l])
  BY DEF ManifestOf
<1>2. Loaded' = current'
  <2>1. current' \in [Level -> SUBSET File] BY DEF TypeOK
  <2>2. \A l \in Level : \A f \in current'[l] : disk'[f.number] = f.data BY DEF FilesInv
  <2>3. [l \in Level |-> {[number |-> n, data |-> disk'[n]] : n \in manifest'.files[l]}] = current'
    BY SMT, <1>1, <2>1, <2>2, LoadedIs
  <2> QED BY <2>3 DEF Loaded
<1>3. \A l \in Level : \A n \in manifest'.files[l] :
        \E f \in current'[l] : n = f.number /\ disk'[n] = f.data /\ n < nextFile'
  BY SMT, <1>1 DEF NumbersOf, FilesInv
<1>4. \A l \in Level : \A f \in current'[l] : f.data \in Table BY SMT DEF TypeOK, File
<1>5. ManifestInv' BY <1>1, <1>2, <1>3, <1>4 DEF ManifestInv, FilesInv
<1>6. \A n : Unnamed(n)' <=> \A l \in Level : \A f \in current'[l] : f.number # n
  BY SMT, <1>1 DEF Unnamed, NumbersOf
<1> QED BY <1>1, <1>2, <1>5, <1>6

\* Installing a version that reads the same outside the memtable loses no
\* acknowledged write, whether or not its manifest could be written.
LEMMA InstallAcked ==
  ASSUME IInv, UNCHANGED <<mem, wal, torn, op, unacked, up>>,
         \A k \in Keys : mem[k] = NotFound =>
           Live(GetFromVersion(current', k)) = Live(GetFromVersion(current, k)),
         Loaded' = Loaded \/ Loaded' = current'
  PROVE  AckedDurableUnlessTorn'
<1>0. LogInv /\ AckedDurableUnlessTorn BY DEF IInv
<1>1. \A k \in Keys : Live(Get(k)') = Live(Get(k)) BY DEF Get
<1>2. ASSUME NEW k \in Keys, ~torn
      PROVE  Recovered(k)' = Recovered(k) \/ Recovered(k)' = Get(k)'
  BY <1>0, <1>2 DEF LogInv, Recovered, Get
<1> QED BY <1>0, <1>1, <1>2 DEF AckedDurableUnlessTorn, AckedDurable

\* FlushInstall keeps the invariant.
LEMMA FlushInstallStep ==
  ASSUME IInv, FlushInstall, TypeOK'
  PROVE  FilesInv' /\ ManifestInv' /\ FlushInv' /\ CompactionInv' /\ AckedDurableUnlessTorn'
<1> DEFINE f == [number |-> num, data |-> mem]
<1>0. TypeOK /\ OpInv /\ FilesInv /\ ManifestInv /\ FlushInv /\ CompactionInv BY DEF IInv
<1>1. /\ pc = "install" /\ current' = AddL0(current, f)
      /\ UNCHANGED <<op, mem, unacked, wal, torn, disk, nextFile>>
      /\ UNCHANGED <<bg, comp, rest, outs, bnum, doomed>>
  BY DEF FlushInstall, walVars, bgVars
<1>2. bg # "unlink" BY DEF FlushInstall, MuFree
<1>3. /\ num \in Number /\ num < nextFile /\ Unnamed(num) /\ disk[num] = mem
      /\ \A o \in outs : o.number # num
      /\ mem \in Table /\ KeysOf(mem) # {}
      /\ \A g \in current[0] : g.number < num
  <2>1. Private(num) /\ mem # Empty /\ disk[num] = mem /\ \A g \in current[0] : g.number < num
    BY <1>0, <1>1 DEF FlushInv
  <2>2. mem \in Table BY <1>0 DEF TypeOK
  <2> QED BY <2>1, <2>2, NotEmpty DEF Private
<1>4. f \in File /\ f.number = num /\ f.data = mem BY <1>3 DEF File
<1>5. current \in [Level -> SUBSET File] /\ VersionOK(current)
  BY <1>0 DEF TypeOK, FilesInv
<1>6. \A l \in Level : \A g \in current[l] : g.number # f.number BY <1>3, <1>4 DEF Unnamed
<1>7. /\ 0 \in Level /\ current'[0] = current[0] \cup {f}
      /\ \A l \in Level : l # 0 => current'[l] = current[l]
  BY <1>1, <1>4, <1>5, FlushedLevels
<1>8. \A l \in Level : \A g \in current'[l] : g \in current[l] \/ g = f BY <1>7
<1>9. FilesInv'
  <2>1. VersionOK(current') BY ZenonT(30), <1>1, <1>3, <1>4, <1>5, <1>6, FlushKeepsVersionOK
  <2>2. \A l \in Level : \A g \in current'[l] : g.number < nextFile' /\ disk'[g.number] = g.data
    BY <1>0, <1>1, <1>3, <1>4, <1>8 DEF FilesInv
  <2> QED BY <2>1, <2>2 DEF FilesInv
<1>10. /\ ManifestInv' /\ FlushInv'
       /\ Loaded' = Loaded \/ Loaded' = current'
       /\ \A n : Unnamed(n) /\ n # num => Unnamed(n)'
  <2>1. CASE pc' = "reset"
    <3>1. manifest' = ManifestOf(current') BY <2>1 DEF FlushInstall
    <3>2. /\ ManifestInv' /\ Loaded' = current'
          /\ \A l \in Level : manifest'.files[l] = NumbersOf(current'[l])
          /\ \A n : Unnamed(n)' <=> \A l \in Level : \A g \in current'[l] : g.number # n
      BY ZenonT(30), <1>0, <1>1, <1>9, <3>1, ManifestWritten
    <3>3. \A g \in current[0] : g.number \in Nat /\ num \in Nat /\ g.number < num
      BY SMT, <1>3, <1>5, <1>7 DEF File, Number
    <3>4. \A g \in current'[0] : g.number <= f.number BY SMT, <1>3, <1>4, <1>7, <3>3 DEF Number
    <3>5. FlushInv' BY ZenonT(30), <1>1, <1>4, <1>7, <2>1, <3>2, <3>4 DEF FlushInv
    <3>6. \A n : Unnamed(n) /\ n # num => Unnamed(n)' BY <1>4, <1>8, <3>2 DEF Unnamed
    <3> QED BY <3>2, <3>5, <3>6
  <2>2. CASE pc' # "reset"
    <3>1. manifest' = manifest /\ pc' = "idle" BY <2>2 DEF FlushInstall
    <3>2. Loaded' = Loaded BY <1>1, <3>1 DEF Loaded
    <3>3. up BY DEF FlushInstall
    <3>4. ManifestInv' BY <1>0, <1>1, <3>1, <3>2, <3>3 DEF ManifestInv
    <3>5. FlushInv' BY <3>1 DEF FlushInv
    <3>6. \A n : Unnamed(n) /\ n # num => Unnamed(n)' BY <1>4, <1>8, <3>1 DEF Unnamed
    <3> QED BY <3>2, <3>4, <3>5, <3>6
  <2> QED BY <2>1, <2>2
<1>11. CompactionInv'
  <2>1. ASSUME bg \in {"merge", "write"} PROVE PickOK(current', comp) /\ MergeInv'
    <3>1. PickOK(current, comp) /\ MergeInv BY <1>0, <2>1 DEF CompactionInv
    <3>2. comp.source \in Level /\ comp.source + 1 \in Level /\ comp.source + 1 # 0
          /\ \A l \in Level : l > comp.source + 1 => l # 0
      BY SMT, <3>1, OptionsAssumption DEF PickOK, Level
    <3>3. current'[comp.source + 1] = current[comp.source + 1]
          /\ current[comp.source] \subseteq current'[comp.source]
      BY <1>7, <3>2
    <3>4. NoDataBelow(current', comp.source + 1) <=> NoDataBelow(current, comp.source + 1)
      BY <1>7, <3>2 DEF NoDataBelow
    <3>5. comp.source = 0 =>
            \A h \in current'[0] \ comp.srcs : \A g \in comp.srcs : g.number < h.number
      <4>1. /\ comp.source = 0 => comp.srcs \subseteq current[0]
            /\ comp.source = 0 =>
                 \A h \in current[0] \ comp.srcs : \A g \in comp.srcs : g.number < h.number
        BY <3>1 DEF PickOK
      <4>2. \A h \in current'[0] : h \in current[0] \/ h = f BY <1>7
      <4>3. \A g \in current[0] : g.number < f.number BY <1>3, <1>4
      <4> HIDE DEF f
      <4> QED BY <4>1, <4>2, <4>3
    <3>6. PickOK(current', comp) BY <3>1, <3>3, <3>4, <3>5 DEF PickOK
    <3>7. MergeInv' BY ZenonT(30), <1>1, <1>3, <1>10, <3>1 DEF MergeInv
    <3> QED BY <3>6, <3>7
  <2>2. bg = "write" => Private(bnum)' /\ KeysOf(rest) # {}
    <3>1. bg = "write" => bnum # num BY <1>0, <1>1 DEF CompactionInv
    <3> QED BY <1>0, <1>1, <1>10, <3>1 DEF CompactionInv, Private
  <2>3. pc' \notin {"build", "install"} BY DEF FlushInstall
  <2> QED BY ZenonT(30), <1>0, <1>1, <1>2, <2>1, <2>2, <2>3 DEF CompactionInv
<1>12. AckedDurableUnlessTorn'
  <2>1. \A k \in Keys : mem[k] = NotFound =>
          GetFromVersion(current', k) = GetFromVersion(current, k)
    BY <1>1, <1>3, <1>4, <1>5, <1>6, FlushReads
  <2>2. up' = up
    <3>1. up /\ up' BY <1>0, UpStep DEF Client
    <3>2. up \in BOOLEAN /\ up' \in BOOLEAN BY <1>0 DEF TypeOK
    <3> QED BY <3>1, <3>2
  <2> QED BY ZenonT(30), <1>1, <1>10, <2>1, <2>2, InstallAcked
<1> QED BY <1>9, <1>10, <1>11, <1>12

\* Installing a compaction does not change what the version answers.
LEMMA BgInstallReads ==
  ASSUME IInv, BgInstall
  PROVE  \A k \in Keys : Live(GetFromVersion(current', k)) = Live(GetFromVersion(current, k))
<1>0. TypeOK /\ FilesInv /\ CompactionInv BY DEF IInv
<1>1. bg = "merge" /\ rest = Empty /\ current' = InstallCompaction(current, comp, outs)
  BY DEF BgInstall
<1>2. PickOK(current, comp) /\ MergeInv /\ OutputsOK(comp, outs)
  BY <1>0, <1>1 DEF CompactionInv, MergeInv
<1>3. /\ current \in [Level -> SUBSET File] /\ VersionOK(current)
      /\ comp \in Compactions /\ outs \in SUBSET File
  BY <1>0 DEF TypeOK, FilesInv
<1>4. \A o \in outs : \A l \in Level : \A f \in current[l] : f.number # o.number
  BY <1>2 DEF MergeInv, Unnamed
<1>5. \A k \in Keys : Merged(comp)[k] # NotFound => \E o \in outs : o.data[k] # NotFound
  BY <1>1, <1>2, EmptyType DEF MergeInv
<1> QED BY <1>1, <1>2, <1>3, <1>4, <1>5, CompactionKeepsReads

\* BgInstall keeps the invariant.
LEMMA BgInstallStep ==
  ASSUME IInv, BgInstall, TypeOK'
  PROVE  FilesInv' /\ ManifestInv' /\ FlushInv' /\ CompactionInv' /\ AckedDurableUnlessTorn'
<1> DEFINE s == comp.source
<1>0. TypeOK /\ OpInv /\ FilesInv /\ ManifestInv /\ FlushInv /\ CompactionInv BY DEF IInv
<1>1. /\ bg = "merge" /\ rest = Empty /\ current' = InstallCompaction(current, comp, outs)
      /\ UNCHANGED <<disk, nextFile>>
  BY DEF BgInstall
<1>2. UNCHANGED <<pc, op, num, mem, unacked, wal, torn>> BY BackgroundFrame DEF Background
<1>3. up' = up
  <2>1. up /\ up' BY <1>0, UpStep DEF Background
  <2>2. up \in BOOLEAN /\ up' \in BOOLEAN BY <1>0 DEF TypeOK
  <2> QED BY <2>1, <2>2
<1>4. pc # "reset" BY DEF BgInstall, MuFree
<1>5. PickOK(current, comp) /\ MergeInv /\ OutputsOK(comp, outs)
  BY <1>0, <1>1 DEF CompactionInv, MergeInv
<1>6. /\ current \in [Level -> SUBSET File] /\ VersionOK(current)
      /\ comp \in Compactions /\ outs \in SUBSET File
  BY <1>0 DEF TypeOK, FilesInv
<1>7. \A o \in outs : \A l \in Level : \A f \in current[l] : f.number # o.number
  BY <1>5 DEF MergeInv, Unnamed
<1>8. /\ s \in Level /\ s + 1 \in Level /\ s + 1 # 0 /\ s # s + 1
      /\ current'[s] = current[s] \ comp.srcs
      /\ current'[s + 1] = (current[s + 1] \ comp.tgts) \cup outs
      /\ \A l \in Level : l # s /\ l # s + 1 => current'[l] = current[l]
  BY <1>0, CompactionInstalled
<1>9. \A l \in Level : \A f \in current'[l] : f \in current[l] \/ f \in outs BY <1>8
<1>10. FilesInv'
  <2>1. VersionOK(current') BY <1>1, <1>5, <1>6, <1>7, InstallKeepsVersionOK
  <2>2. \A l \in Level : \A f \in current'[l] : f.number < nextFile' /\ disk'[f.number] = f.data
    BY ZenonT(30), <1>0, <1>1, <1>5, <1>9 DEF FilesInv, MergeInv
  <2> QED BY <2>1, <2>2 DEF FilesInv
<1>11. CASE bg' = "unlink"
  <2>1. manifest' = ManifestOf(current') /\ doomed' = NumbersOf(Inputs(comp)) /\ outs' = outs
    BY <1>11 DEF BgInstall, BgIdle
  <2>2. /\ ManifestInv' /\ Loaded' = current'
        /\ \A n : Unnamed(n)' <=> \A l \in Level : \A g \in current'[l] : g.number # n
    BY <1>0, <1>1, <1>10, <2>1, ManifestWritten
  <2>3. pc \in {"build", "install"} =>
          num \in Number /\ num < nextFile /\ Unnamed(num) /\ \A o \in outs : o.number # num
    BY <1>0 DEF FlushInv, Private
  <2>4. pc \in {"build", "install"} => Private(num)'
    BY <1>1, <1>2, <1>9, <2>1, <2>2, <2>3 DEF Private, Unnamed
  <2>5. FlushInv'
    <3>1. 0 \in Level /\ current'[0] \subseteq current[0] BY SMT, <1>8, OptionsAssumption DEF Level
    <3> QED BY <1>0, <1>1, <1>2, <1>4, <2>4, <3>1 DEF FlushInv
  <2>6. \A f \in Inputs(comp) : f \in current[s] \/ f \in current[s + 1]
    BY <1>5 DEF PickOK, Inputs
  <2>7. ASSUME NEW f \in Inputs(comp), NEW l \in Level, NEW g \in current'[l]
        PROVE  g.number # f.number
    <3>1. CASE g \in outs BY <1>7, <1>8, <2>6, <3>1
    <3>2. CASE g \notin outs
      <4>1. g \in current[l] BY <1>9, <3>2
      <4>2. ASSUME g.number = f.number PROVE FALSE
        <5>1. comp.srcs \subseteq current[s] /\ comp.tgts \subseteq current[s + 1]
          BY <1>5 DEF PickOK
        <5>2. \A m \in Level : \A h \in current[m] : g.number = h.number => l = m /\ g = h
          BY <1>6, <4>1 DEF VersionOK
        <5>3. f \in comp.srcs => l = s /\ g = f BY <1>8, <4>2, <5>1, <5>2
        <5>4. f \in comp.tgts => l = s + 1 /\ g = f BY ZenonT(30), <1>8, <4>2, <5>1, <5>2
        <5> QED BY <1>8, <3>2, <5>3, <5>4 DEF Inputs
      <4> QED BY <4>2
    <3> QED BY <3>1, <3>2
  <2>8. \A n \in doomed' : Unnamed(n)' BY <2>1, <2>2, <2>7 DEF NumbersOf
  <2>9. pc \in {"build", "install"} => num \notin doomed'
    BY <1>8, <2>1, <2>3, <2>6 DEF NumbersOf, Unnamed
  <2>10. CompactionInv' BY ZenonT(30), <1>2, <1>4, <1>11, <2>8, <2>9 DEF CompactionInv
  <2>11. AckedDurableUnlessTorn'
    BY ZenonT(30), <1>1, <1>2, <1>3, <2>2, BgInstallReads, InstallAcked
  <2> QED BY <1>10, <2>2, <2>5, <2>10, <2>11
<1>12. CASE bg' # "unlink"
  <2>1. manifest' = manifest /\ bg' = "idle" /\ outs' = {} BY <1>12 DEF BgInstall, BgIdle
  <2>2. Loaded' = Loaded BY <1>1, <2>1 DEF Loaded
  <2>3. ManifestInv' BY <1>0, <1>1, <1>3, <2>1, <2>2 DEF ManifestInv
  <2>4. pc \in {"build", "install"} =>
          num \in Number /\ num < nextFile /\ Unnamed(num) /\ \A o \in outs : o.number # num
    BY <1>0 DEF FlushInv, Private
  <2>5. pc \in {"build", "install"} => Private(num)'
    BY ZenonT(30), <1>1, <1>2, <1>9, <2>1, <2>4 DEF Private, Unnamed
  <2>6. FlushInv'
    <3>1. 0 \in Level /\ current'[0] \subseteq current[0] BY SMT, <1>8, OptionsAssumption DEF Level
    <3> QED BY ZenonT(30), <1>0, <1>1, <1>2, <1>4, <2>5, <3>1 DEF FlushInv
  <2>7. CompactionInv' BY <2>1 DEF CompactionInv
  <2>8. AckedDurableUnlessTorn'
    BY <1>1, <1>2, <1>3, <2>2, BgInstallReads, InstallAcked
  <2> QED BY ZenonT(30), <1>10, <2>3, <2>6, <2>7, <2>8
<1> QED BY <1>11, <1>12

-------------------------------------------------------------------------------
(* Crash and recovery *)

\* A crash keeps the invariant.
LEMMA CrashStep ==
  ASSUME IInv, Crash
  PROVE  FilesInv' /\ ManifestInv' /\ FlushInv' /\ CompactionInv' /\ AckedDurableUnlessTorn'
<1>0. ManifestInv BY DEF IInv
<1>1. /\ up' = FALSE /\ pc' = "idle" /\ current' = NoFiles
      /\ disk' = disk /\ manifest' = manifest /\ bg' = "idle" /\ outs' = {}
  BY DEF Crash, BgIdle
<1>2. \A l \in Level : current'[l] = {} BY <1>1 DEF NoFiles
<1>3. FilesInv' BY <1>2 DEF FilesInv, VersionOK, Disjoint
<1>4. Loaded' = Loaded BY <1>1 DEF Loaded
<1>5. ManifestInv' BY <1>0, <1>1, <1>4 DEF ManifestInv
<1>6. FlushInv' /\ CompactionInv' BY <1>1 DEF FlushInv, CompactionInv
<1>7. AckedDurableUnlessTorn' BY <1>1 DEF AckedDurableUnlessTorn, AckedDurable
<1> QED BY <1>3, <1>5, <1>6, <1>7

\* DB::Open keeps the invariant.
LEMMA RecoverStep ==
  ASSUME IInv, Recover
  PROVE  FilesInv' /\ ManifestInv' /\ FlushInv' /\ CompactionInv' /\ AckedDurableUnlessTorn'
<1>0. TypeOK /\ OpInv /\ ManifestInv /\ CompactionInv BY DEF IInv
<1>1. /\ current' = Loaded /\ nextFile' = manifest.next /\ Loaded' = Loaded
      /\ \A l \in Level : \A n \in manifest.files[l] : disk'[n] = disk[n]
  BY RecoveredFiles
<1>2. /\ ~up /\ manifest' = manifest /\ mem' = wal /\ wal' = wal
      /\ pc' = pc /\ bg' = bg /\ outs' = outs
  BY DEF Recover, bgVars
<1>3. pc = "idle" /\ bg = "idle" /\ outs = {} BY <1>0, <1>2 DEF OpInv, CompactionInv
<1>4. FilesInv'
  <2>1. VersionOK(current') BY <1>0, <1>1 DEF ManifestInv
  <2>2. \A l \in Level : \A f \in current'[l] :
          \E n \in manifest.files[l] : f = [number |-> n, data |-> disk[n]]
    BY <1>1 DEF Loaded
  <2>3. \A l \in Level : \A f \in current'[l] : f.number < nextFile' /\ disk'[f.number] = f.data
    BY SMT, <1>0, <1>1, <2>2 DEF ManifestInv
  <2> QED BY <2>1, <2>3 DEF FilesInv
<1>5. ManifestInv' BY <1>0, <1>1, <1>2 DEF ManifestInv
<1>6. FlushInv' /\ CompactionInv' BY <1>2, <1>3 DEF FlushInv, CompactionInv
<1>7. \A k \in Keys : Get(k)' = Recovered(k)' BY <1>1, <1>2 DEF Get, Recovered
<1>8. AckedDurableUnlessTorn' BY <1>7 DEF AckedDurableUnlessTorn, AckedDurable
<1> QED BY <1>4, <1>5, <1>6, <1>8

-------------------------------------------------------------------------------
(* The theorems *)

\* The invariant holds of a fresh database.
LEMMA InitIInv == Init => IInv
<1> SUFFICES ASSUME Init PROVE IInv OBVIOUS
<1>1. TypeOK BY InitTypeOK
<1>2. /\ pc = "idle" /\ op = {} /\ mem = Empty /\ wal = Empty /\ bg = "idle" /\ outs = {}
      /\ current = NoFiles /\ manifest.files = [l \in Level |-> {}] /\ up = TRUE /\ unacked = {}
  BY DEF Init
<1>3. \A l \in Level : current[l] = {} /\ manifest.files[l] = {} BY <1>2 DEF NoFiles
<1>4. OpInv BY <1>2 DEF OpInv
<1>5. FilesInv BY <1>3 DEF FilesInv, VersionOK, Disjoint
<1>6. Loaded = current BY <1>2, <1>3 DEF Loaded, NoFiles
<1>7. ManifestInv BY <1>3, <1>5, <1>6 DEF ManifestInv, FilesInv
<1>8. FlushInv /\ CompactionInv BY <1>2 DEF FlushInv, CompactionInv
<1>9. LogInv BY <1>2, EmptyType DEF LogInv
<1>10. AckedDurableUnlessTorn
  BY <1>2, <1>6 DEF AckedDurableUnlessTorn, AckedDurable, Get, Recovered
<1> QED BY <1>1, <1>4, <1>5, <1>7, <1>8, <1>9, <1>10 DEF IInv

\* Every step of the engine keeps the inductive invariant.
LEMMA NextIInv == IInv /\ [Next]_vars => IInv'
<1> SUFFICES ASSUME IInv, [Next]_vars PROVE IInv' OBVIOUS
<1>1. ASSUME Client \/ Background \/ Crash \/ Recover PROVE OpInv' /\ LogInv'
  BY <1>1, OpStep, LogStep
<1>2. CASE Client
  <2>1. TypeOK' BY <1>2, ClientTypeOK
  <2>2. CASE FlushInstall BY ZenonT(30), <1>1, <1>2, <2>1, <2>2, FlushInstallStep DEF IInv
  <2>3. CASE ~FlushInstall
    <3>1. FilesInv' /\ ManifestInv' BY <1>2, <2>3, ClientQuiet, QuietFiles
    <3> QED BY ZenonT(30), <1>1, <1>2, <2>1, <2>3, <3>1, ClientFlush, ClientCompaction, ClientAcked DEF IInv
  <2> QED BY <2>2, <2>3
<1>3. CASE Background
  <2>1. TypeOK' BY <1>3, BackgroundTypeOK
  <2>2. CASE BgInstall BY SMT, <1>1, <1>3, <2>1, <2>2, BgInstallStep DEF IInv
  <2>3. CASE ~BgInstall
    <3>1. FilesInv' /\ ManifestInv' BY <1>3, <2>3, BackgroundQuiet, QuietFiles
    <3> QED BY ZenonT(30), <1>1, <1>3, <2>1, <2>3, <3>1, BackgroundFlush, BackgroundCompaction,
               BackgroundAcked DEF IInv
  <2> QED BY <2>2, <2>3
<1>4. CASE Crash BY <1>1, <1>4, CrashTypeOK, CrashStep DEF IInv
<1>5. CASE Recover BY <1>1, <1>5, RecoverTypeOK, RecoverStep DEF IInv
<1>6. CASE UNCHANGED vars
  <2>1. UNCHANGED <<pc, op, num, mem, unacked, wal, torn, walOpen, disk, manifest, current,
                    nextFile, bg, comp, rest, outs, bnum, doomed, up, faults, crashes, writes>>
    BY <1>6 DEF vars, clientVars, walVars, bgVars, envVars
  <2>2. TypeOK' BY <2>1 DEF IInv, TypeOK
  <2>3. OpInv' BY SMTT(30), <2>1 DEF IInv, OpInv
  <2>4. LogInv' BY <2>1 DEF IInv, LogInv
  <2>5. Quiet BY <2>1 DEF Quiet
  <2>6. FilesInv' /\ ManifestInv' BY <2>5, QuietFiles
  <2>7. outs' = outs /\ num' = num /\ bg' = bg /\ pc' = pc /\ disk' = disk BY <2>1
  <2>8. FlushInv'
    <3>1. pc \in {"build", "install"} => \A o \in outs : o.number # num
      BY DEF IInv, FlushInv, Private
    <3> QED BY <2>1, <2>5, <3>1, FlushFrame
  <2>9. CompactionInv'
    <3>1. bg = "write" /\ pc \in {"build", "install"} => bnum # num BY DEF IInv, CompactionInv
    <3>2. bg = "unlink" => pc # "reset" /\ (pc \in {"build", "install"} => num \notin doomed)
      BY DEF IInv, CompactionInv
    <3> QED BY <2>1, <2>5, <3>1, <3>2, CompactionFrame
  <2>10. AckedDurableUnlessTorn' BY <2>1, <2>5, AckedFrame
  <2> QED BY ZenonT(30), <2>2, <2>3, <2>4, <2>6, <2>8, <2>9, <2>10 DEF IInv
<1> QED BY <1>2, <1>3, <1>4, <1>5, <1>6 DEF Next

\* IInv holds of every state the engine reaches, whatever the interleaving of
\* the two threads, the failures and the crashes.
THEOREM Invariance == Spec => []IInv
BY InitIInv, NextIInv, PTL DEF Spec

\* Every variable keeps its type.
THEOREM TypeCorrect == Spec => []TypeOK
<1>1. IInv => TypeOK BY DEF IInv
<1> QED BY <1>1, Invariance, PTL

\* Below level 0 no two files of a level ever overlap.
THEOREM DisjointLevels == Spec => []LevelsDisjoint
<1>1. IInv => LevelsDisjoint BY DEF IInv, FilesInv, VersionOK, LevelsDisjoint
<1> QED BY <1>1, Invariance, PTL

\* The files of the running version are never overwritten or removed, and no
\* two of them ever share a number.
THEOREM IntactFiles == Spec => []LiveFilesIntact
<1>1. IInv => LiveFilesIntact BY DEF IInv, FilesInv, VersionOK, LiveFilesIntact
<1> QED BY <1>1, Invariance, PTL

\* A restart always finds every file the manifest names.
THEOREM AlwaysLoadable == Spec => []ManifestLoadable
<1>1. IInv => ManifestLoadable
  BY FileAssumption DEF IInv, ManifestInv, ManifestLoadable, Loadable, ManifestNumbers
<1> QED BY <1>1, Invariance, PTL

\* An acknowledged write reads the same before and after a crash, unless the
\* log holds a torn frame.
THEOREM Durability == Spec => []AckedDurableUnlessTorn
<1>1. IInv => AckedDurableUnlessTorn BY DEF IInv
<1> QED BY <1>1, Invariance, PTL

\* The client changes what a key reads as only by the write it is applying.
LEMMA ClientReads ==
  ASSUME IInv, Client
  PROVE  \A k \in Keys : Live(Get(k)') = Live(Get(k)) \/ \E c \in op : c[1] = k
<1> USE DEF walVars, bgVars
<1>0. TypeOK /\ FilesInv /\ FlushInv BY DEF IInv
<1>1. current \in [Level -> SUBSET File] /\ VersionOK(current) BY <1>0 DEF TypeOK, FilesInv
<1>a. mem' = mem /\ current' = current => \A k \in Keys : Get(k)' = Get(k) BY DEF Get
<1>2. ASSUME NEW k \in Keys, NEW x \in Values \cup {Deleted}, Log(k, x)
      PROVE  mem' = mem /\ current' = current
  BY <1>2 DEF Log
<1>3. ASSUME NEW k \in Keys, NEW x \in Values \cup {Deleted}, LogFail(k, x)
      PROVE  mem' = mem /\ current' = current
  BY <1>3 DEF LogFail
<1>4. CASE Apply
  <2>1. PICK c \in op : mem' = [mem EXCEPT ![c[1]] = c[2]] BY ZenonT(40), <1>4 DEF Apply
  <2>2. c[1] \in Keys /\ current' = current BY <1>0, <1>4 DEF TypeOK, Apply
  <2>3. \A k \in Keys : k # c[1] => mem'[k] = mem[k] BY ZenonT(30), <1>0, <2>1, <2>2 DEF TypeOK, Table
  <2>4. \A k \in Keys : k # c[1] => Get(k)' = Get(k) BY <2>2, <2>3 DEF Get
  <2> QED BY <2>4
<1>5. CASE FlushCall BY <1>a, <1>5 DEF FlushCall
<1>6. CASE FlushAlloc BY <1>a, <1>6 DEF FlushAlloc
<1>7. CASE FlushBuild BY <1>a, <1>7 DEF FlushBuild
<1>8. CASE FlushInstall
  <2> DEFINE f == [number |-> num, data |-> mem]
  <2>1. current' = AddL0(current, f) /\ mem' = mem /\ pc = "install" BY <1>8 DEF FlushInstall
  <2>2. Private(num) /\ mem # Empty /\ mem \in Table BY ZenonT(30), <1>0, <2>1 DEF FlushInv, TypeOK
  <2>3. f \in File /\ f.data = mem /\ f.number = num /\ KeysOf(f.data) # {}
    BY <2>2, NotEmpty DEF Private, File
  <2>4. \A l \in Level : \A g \in current[l] : g.number # f.number
    BY SMTT(30), <2>2, <2>3 DEF Private, Unnamed
  <2>5. \A k \in Keys : mem[k] = NotFound =>
          GetFromVersion(current', k) = GetFromVersion(current, k)
    BY <1>1, <2>1, <2>3, <2>4, FlushReads
  <2> QED BY <2>1, <2>5 DEF Get
<1>9. CASE FlushReset
  <2>1. mem' = Empty /\ current' = current /\ pc = "reset" BY <1>9 DEF FlushReset
  <2>2. PICK f \in current[0] : f.data = mem /\ \A g \in current[0] : g.number <= f.number
    BY <1>0, <2>1 DEF FlushInv
  <2>3. \A k \in Keys : mem[k] # NotFound => GetFromVersion(current, k) = mem[k]
    BY <1>1, <2>2, TopReads
  <2>4. \A k \in Keys : Get(k)' = GetFromVersion(current, k) BY <2>1, EmptyType DEF Get
  <2>5. \A k \in Keys : Get(k)' = Get(k) BY <2>3, <2>4 DEF Get
  <2> QED BY <2>5
<1> QED BY ZenonT(30), <1>a, <1>2, <1>3, <1>4, <1>5, <1>6, <1>7, <1>8, <1>9 DEF Client

\* The background thread never changes what a key reads as.
LEMMA BackgroundReads ==
  ASSUME IInv, Background
  PROVE  \A k \in Keys : Live(Get(k)') = Live(Get(k))
<1>1. mem' = mem BY BackgroundFrame
<1>2. CASE BgInstall BY <1>1, <1>2, BgInstallReads DEF Get
<1>3. CASE ~BgInstall
  <2>1. current' = current BY <1>3, BackgroundQuiet DEF Quiet
  <2> QED BY <1>1, <2>1 DEF Get
<1> QED BY <1>2, <1>3

\* While a process runs, only the memtable insert of a Put or a Delete changes
\* what a key reads as: no flush, compaction, failure or unlinking does.
THEOREM StableReads == Spec => ReadsStable
<1> DEFINE Stable == up /\ up' => \A k \in Keys :
                       Live(Get(k)') = Live(Get(k)) \/ \E c \in op : c[1] = k
<1>1. IInv /\ [Next]_vars => [Stable]_vars
  <2> SUFFICES ASSUME IInv, Next PROVE Stable OBVIOUS
  <2>1. CASE Client BY <2>1, ClientReads
  <2>2. CASE Background BY <2>2, BackgroundReads
  <2>3. CASE Crash BY SMTT(30), <2>3 DEF Crash
  <2>4. CASE Recover BY <2>4 DEF Recover
  <2> QED BY <2>1, <2>2, <2>3, <2>4 DEF Next
<1> QED BY <1>1, Invariance, PTL DEF Spec, ReadsStable

-------------------------------------------------------------------------------
(* What the views are *)

\* A read of a sound version returns an entry.
LEMMA ReadType ==
  ASSUME NEW v \in [Level -> SUBSET File], VersionOK(v), NEW k \in Keys
  PROVE  GetFromVersion(v, k) \in Entry
<1>1. CASE \A l \in Level : LevelEntry(v, l, k) = NotFound
  BY <1>1, GetMiss DEF Entry
<1>2. CASE \E l \in Level : LevelEntry(v, l, k) # NotFound
  <2>1. PICK m \in Level : LevelEntry(v, m, k) # NotFound
                           /\ \A i \in Level : i < m => LevelEntry(v, i, k) = NotFound
    BY <1>2, GetFirst
  <2>2. PICK h \in v[m] : h.data[k] # NotFound BY <2>1, LevelMiss
  <2>3. PICK f \in v[m] : LevelEntry(v, m, k) = f.data[k] BY <2>2, LevelFile
  <2>4. f.data[k] \in Entry BY SMT DEF File, Table
  <2> QED BY <2>1, <2>3, <2>4, GetHit
<1> QED BY <1>1, <1>2

\* The files a manifest names make a version, when all of them are complete.
LEMMA LoadedType ==
  ASSUME NEW d \in [Number -> Table \cup {Missing, Partial}], NEW m \in [Level -> SUBSET Number],
         \A l \in Level : \A n \in m[l] : d[n] \in Table
  PROVE  [l \in Level |-> {[number |-> n, data |-> d[n]] : n \in m[l]}] \in [Level -> SUBSET File]
<1>1. \A l \in Level : \A n \in m[l] : [number |-> n, data |-> d[n]] \in File BY DEF File
<1> QED BY <1>1

\* After every step what a crash would show is a map to values.
LEMMA DurableType ==
  ASSUME IInv'
  PROVE  \A k \in Keys : Live(Recovered(k)') \in Values \cup {NotFound}
<1>0. TypeOK' /\ ManifestInv' BY DEF IInv
<1>1. Loaded' \in [Level -> SUBSET File]
  <2>1. disk' \in [Number -> Table \cup {Missing, Partial}]
        /\ manifest'.files \in [Level -> SUBSET Number]
    BY <1>0 DEF TypeOK
  <2>2. \A l \in Level : \A n \in manifest'.files[l] : disk'[n] \in Table BY <1>0 DEF ManifestInv
  <2> QED BY <2>1, <2>2, LoadedType DEF Loaded
<1>2. VersionOK(Loaded') BY <1>0 DEF ManifestInv
<1>3. ASSUME NEW k \in Keys PROVE Recovered(k)' \in Entry
  <2>1. wal'[k] \in Entry BY <1>0 DEF TypeOK, Table
  <2>2. GetFromVersion(Loaded', k) \in Entry BY <1>1, <1>2, ReadType
  <2> QED BY <2>1, <2>2 DEF Recovered
<1> QED BY <1>3 DEF Live, Entry

\* The views, key by key, before and after a step.
LEMMA Views ==
  /\ DurableView = [k \in Keys |-> Live(Recovered(k))]
  /\ DurableView' = [k \in Keys |-> Live(Recovered(k)')]
  /\ up => StoreView = [k \in Keys |-> Live(Get(k))]
  /\ up' => StoreView' = [k \in Keys |-> Live(Get(k)')]
  /\ ~up => StoreView = DurableView
  /\ ~up' => StoreView' = DurableView'
BY DEF DurableView, StoreView, Recovered, Get

-------------------------------------------------------------------------------
(* Steps that change no read *)

\* A step that changes nothing a client can see, now or after a crash.
LEMMA Stutters ==
  ASSUME up /\ up', op' = op, torn' = torn,
         \A k \in Keys : Live(Get(k)') = Live(Get(k)),
         \A k \in Keys : Live(Recovered(k)') = Live(Recovered(k))
  PROVE  UNCHANGED KV!vars
<1>1. StoreView' = StoreView /\ DurableView' = DurableView BY SMT, Views
<1>2. OpView' = OpView BY DEF OpView
<1> QED BY <1>1, <1>2 DEF KV!vars

\* A step that changes what a crash would show, and no read.
LEMMA Settles ==
  ASSUME IInv', up /\ up', op' = op,
         \A k \in Keys : Live(Get(k)') = Live(Get(k)),
         ~torn => \A k \in Keys : Live(Recovered(k)') \in {Live(Recovered(k)), Live(Get(k))},
         torn' = torn \/ (torn' = FALSE /\ \A k \in Keys : Live(Recovered(k)') = Live(Get(k)))
  PROVE  KV!Settle
<1>1. StoreView' = StoreView BY Views
<1>2. OpView' = OpView BY DEF OpView
<1>3. DurableView' \in [Keys -> Values \cup {NotFound}] BY Views, DurableType
<1>4. torn \/ \A k \in Keys : DurableView'[k] \in {DurableView[k], StoreView[k]} BY Views
<1>5. torn' = torn \/ (torn' = FALSE /\ DurableView' = StoreView) BY Views
<1> QED BY <1>1, <1>2, <1>3, <1>4, <1>5 DEF KV!Settle

-------------------------------------------------------------------------------
(* The client *)

\* What an append leaves durable: the write, or nothing behind a torn frame.
LEMMA Appends ==
  ASSUME TypeOK, NEW k \in Keys, NEW x \in Values \cup {Deleted},
         wal' = Append(k, x), Loaded' = Loaded
  PROVE  KV!Logged(k, Live(x))
<1>1. CASE torn
  <2>1. wal' = wal BY <1>1 DEF Append
  <2>2. \A j \in Keys : Recovered(j)' = Recovered(j) BY <2>1 DEF Recovered
  <2>3. DurableView' = DurableView BY <2>2, Views
  <2> QED BY <1>1, <2>3 DEF KV!Logged
<1>2. CASE ~torn
  <2>1. wal' = [wal EXCEPT ![k] = x] BY <1>2 DEF Append
  <2>2. wal'[k] = x /\ x # NotFound BY <2>1, EntryAssumption DEF TypeOK, Table
  <2>3. \A j \in Keys : j # k => wal'[j] = wal[j] BY <2>1 DEF TypeOK, Table
  <2>4. Recovered(k)' = x BY <2>2 DEF Recovered
  <2>5. \A j \in Keys : j # k => Recovered(j)' = Recovered(j) BY <2>3 DEF Recovered
  <2>6. DurableView' = [DurableView EXCEPT ![k] = Live(x)] BY <2>4, <2>5, Views
  <2> QED BY <2>6 DEF KV!Logged
<1> QED BY <1>1, <1>2

\* A value or a tombstone reads as a value or as nothing.
LEMMA LiveType == \A x \in Values \cup {Deleted} : Live(x) \in Values \cup {NotFound}
BY DEF Live

\* AddRecord logs the write.
LEMMA LogRefines ==
  ASSUME IInv, Quiet, up /\ up', NEW k \in Keys, NEW x \in Values \cup {Deleted}, Log(k, x)
  PROVE  KV!Log(k, Live(x))
<1>0. TypeOK /\ OpInv BY DEF IInv
<1>1. Loaded' = Loaded /\ current' = current BY QuietFiles DEF Quiet
<1>2. mem' = mem /\ torn' = torn /\ op' = {<<k, x>>} /\ wal' = Append(k, x) BY DEF Log
<1>3. op = {} BY <1>0 DEF Log, Writing, OpInv
<1>4. OpView = {} /\ OpView' = {<<k, Live(x)>>} BY SMT, <1>2, <1>3 DEF OpView
<1>5. StoreView' = StoreView BY <1>1, <1>2, Views DEF Get
<1>6. KV!Logged(k, Live(x)) BY <1>0, <1>1, <1>2, Appends
<1> QED BY <1>2, <1>4, <1>5, <1>6 DEF KV!Log

\* A failing AddRecord fails the write, whatever it leaves in the log.
LEMMA LogFailRefines ==
  ASSUME IInv, Quiet, up /\ up', NEW k \in Keys, NEW x \in Values \cup {Deleted}, LogFail(k, x)
  PROVE  KV!Fail(k, Live(x)) \/ UNCHANGED KV!vars
<1>0. TypeOK /\ OpInv BY DEF IInv
<1>1. Loaded' = Loaded /\ current' = current BY QuietFiles DEF Quiet
<1>2. mem' = mem /\ op' = op BY DEF LogFail
<1>3. op = {} BY <1>0 DEF LogFail, Writing, OpInv
<1>4. OpView = {} /\ OpView' = OpView BY <1>2, <1>3 DEF OpView
<1>5. StoreView' = StoreView BY <1>1, <1>2, Views DEF Get
<1>6. wal' = wal => DurableView' = DurableView BY <1>1, Views DEF Recovered
<1>7. CASE wal' = wal /\ torn' = torn BY <1>4, <1>5, <1>6, <1>7 DEF KV!vars
<1>8. CASE wal' = wal /\ torn' = TRUE BY <1>4, <1>5, <1>6, <1>8 DEF KV!Fail
<1>9. CASE wal' = Append(k, x) /\ torn' = torn
  <2>1. KV!Logged(k, Live(x)) BY <1>0, <1>1, <1>9, Appends
  <2> QED BY <1>4, <1>5, <1>9, <2>1 DEF KV!Fail
<1> QED BY <1>7, <1>8, <1>9 DEF LogFail

\* The memtable insert makes the logged write visible.
LEMMA ApplyRefines ==
  ASSUME IInv, Quiet, up /\ up', Apply
  PROVE  KV!Apply
<1> USE DEF walVars
<1>0. TypeOK /\ OpInv /\ LogInv BY DEF IInv
<1>1. Loaded' = Loaded /\ current' = current BY QuietFiles DEF Quiet
<1>2. wal' = wal /\ torn' = torn /\ op' = {} BY DEF Apply
<1>3. PICK c \in op : mem' = [mem EXCEPT ![c[1]] = c[2]] BY DEF Apply
<1>4. c[1] \in Keys /\ c[2] # NotFound BY <1>0, EntryAssumption DEF TypeOK
<1>5. <<c[1], Live(c[2])>> \in OpView BY DEF OpView
<1>6. OpView' = {} BY <1>2 DEF OpView
<1>7. DurableView' = DurableView BY <1>1, <1>2, Views DEF Recovered
<1>8. torn \/ DurableView[c[1]] = Live(c[2])
  <2>1. ~torn => wal[c[1]] = c[2] BY <1>0 DEF LogInv
  <2>2. ~torn => Recovered(c[1]) = c[2] BY <1>4, <2>1 DEF Recovered
  <2> QED BY <1>4, <2>2, Views
<1>9. StoreView' = [StoreView EXCEPT ![c[1]] = Live(c[2])]
  <2>1. mem'[c[1]] = c[2] BY ZenonT(30), <1>0, <1>3, <1>4 DEF TypeOK, Table
  <2>2. \A j \in Keys : j # c[1] => mem'[j] = mem[j] BY ZenonT(30), <1>0, <1>3, <1>4 DEF TypeOK, Table
  <2>3. Get(c[1])' = c[2] BY <1>4, <2>1 DEF Get
  <2>4. \A j \in Keys : j # c[1] => Get(j)' = Get(j) BY <1>1, <2>2 DEF Get
  <2>5. /\ StoreView = [j \in Keys |-> Live(Get(j))]
        /\ StoreView' = [j \in Keys |-> Live(Get(j)')]
    BY <1>4, Views
  <2> QED BY ZenonT(30), <1>4, <2>3, <2>4, <2>5
<1> QED BY <1>2, <1>5, <1>6, <1>7, <1>8, <1>9 DEF KV!Apply

\* Resetting memtable and log, once the manifest names the flushed file, makes
\* durable whatever the store shows.
LEMMA ResetRefines ==
  ASSUME IInv, IInv', Quiet, up /\ up', FlushReset
  PROVE  KV!Settle
<1>0. TypeOK /\ OpInv /\ FilesInv /\ FlushInv BY DEF IInv
<1>1. Loaded' = Loaded /\ current' = current BY QuietFiles DEF Quiet
<1>2. mem' = Empty /\ pc = "reset" /\ op' = op BY DEF FlushReset
<1>3. op = {} BY <1>0, <1>2 DEF OpInv
<1>4. Loaded = current BY <1>0, <1>2, ResetLoads
<1>5. \A k \in Keys : Live(Get(k)') = Live(Get(k)) BY <1>3, ClientReads DEF Client
<1>6. \A k \in Keys : Get(k)' = GetFromVersion(current, k) BY <1>1, <1>2, EmptyType DEF Get
<1>7. CASE wal' = Empty /\ torn' = FALSE
  <2>1. \A k \in Keys : Recovered(k)' = Get(k)'
    BY ZenonT(30), <1>1, <1>4, <1>6, <1>7, EmptyType DEF Recovered
  <2> QED BY <1>2, <1>5, <1>7, <2>1, Settles
<1>8. CASE wal' = wal /\ torn' = torn
  <2>1. \A k \in Keys : Recovered(k)' = Recovered(k) BY <1>1, <1>8 DEF Recovered
  <2> QED BY ZenonT(30), <1>2, <1>5, <1>8, <2>1, Settles
<1> QED BY <1>7, <1>8 DEF FlushReset

\* A step that installs a version leaves a restart with the version it would
\* have loaded, or with the new one.
LEMMA InstallLoads ==
  ASSUME IInv, IInv', UNCHANGED <<disk, nextFile>>,
         manifest' = manifest \/ manifest' = ManifestOf(current')
  PROVE  Loaded' = Loaded \/ Loaded' = current'
<1>0. TypeOK /\ TypeOK' /\ FilesInv' BY DEF IInv
<1>1. manifest' = manifest => Loaded' = Loaded BY DEF Loaded
<1>2. manifest' = ManifestOf(current') => Loaded' = current' BY <1>0, ManifestWritten
<1> QED BY <1>1, <1>2

\* Installing a version that reads the same outside the memtable, with or
\* without its manifest.
LEMMA InstallRefines ==
  ASSUME IInv, IInv', up /\ up', UNCHANGED <<mem, wal, torn, op, disk, nextFile>>,
         \A k \in Keys : mem[k] = NotFound =>
           Live(GetFromVersion(current', k)) = Live(GetFromVersion(current, k)),
         manifest' = manifest \/ manifest' = ManifestOf(current')
  PROVE  KV!Settle
<1>0. LogInv BY DEF IInv
<1>1. Loaded' = Loaded \/ Loaded' = current' BY InstallLoads
<1>2. \A k \in Keys : Live(Get(k)') = Live(Get(k)) BY DEF Get
<1>3. ASSUME NEW k \in Keys, ~torn
      PROVE  Recovered(k)' = Recovered(k) \/ Recovered(k)' = Get(k)'
  BY <1>0, <1>1, <1>3 DEF LogInv, Recovered, Get
<1>4. ~torn => \A k \in Keys : Live(Recovered(k)') \in {Live(Recovered(k)), Live(Get(k))}
  BY <1>2, <1>3
<1> QED BY <1>2, <1>4, Settles

\* A flushed file joins the version.
LEMMA FlushInstallRefines ==
  ASSUME IInv, IInv', up /\ up', FlushInstall
  PROVE  KV!Settle
<1>0. TypeOK /\ OpInv /\ FilesInv /\ FlushInv BY DEF IInv
<1> DEFINE f == [number |-> num, data |-> mem]
<1>1. /\ current' = AddL0(current, f) /\ pc = "install"
      /\ UNCHANGED <<op, mem, wal, torn, disk, nextFile>>
      /\ manifest' = manifest \/ manifest' = ManifestOf(current')
  BY DEF FlushInstall, walVars
<1>2. Private(num) /\ mem # Empty /\ mem \in Table BY <1>0, <1>1 DEF FlushInv, TypeOK
<1>3. f \in File /\ f.data = mem /\ f.number = num /\ KeysOf(f.data) # {}
  BY <1>2, NotEmpty DEF Private, File
<1>4. \A l \in Level : \A g \in current[l] : g.number # f.number
  BY <1>2, <1>3 DEF Private, Unnamed
<1>5. current \in [Level -> SUBSET File] /\ VersionOK(current) BY <1>0 DEF TypeOK, FilesInv
<1>6. \A k \in Keys : mem[k] = NotFound =>
        GetFromVersion(current', k) = GetFromVersion(current, k)
  BY <1>1, <1>3, <1>4, <1>5, FlushReads
<1> QED BY <1>1, <1>6, InstallRefines

\* The client's steps are steps of the map.
LEMMA ClientRefines ==
  ASSUME IInv, IInv', Client
  PROVE  [KV!Next]_(KV!vars)
<1> USE DEF walVars
<1>1. up /\ up' BY UpStep DEF IInv
<1>2. ASSUME ~FlushInstall PROVE Quiet BY <1>2, ClientQuiet
<1>3. Quiet => Loaded' = Loaded /\ current' = current BY QuietFiles DEF Quiet
<1>4. ASSUME Quiet, UNCHANGED <<mem, wal, torn, op>> PROVE UNCHANGED KV!vars
  BY <1>1, <1>3, <1>4, Stutters DEF Get, Recovered
<1>5. CASE FlushInstall BY <1>1, <1>5, FlushInstallRefines DEF KV!Next
<1>6. CASE Quiet
  <2>1. ASSUME NEW k \in Keys, NEW x \in Values \cup {Deleted}, Log(k, x) PROVE KV!Next
    BY ZenonT(30), <1>1, <1>6, <2>1, LogRefines, LiveType DEF KV!Next
  <2>2. ASSUME NEW k \in Keys, NEW x \in Values \cup {Deleted}, LogFail(k, x)
        PROVE  KV!Next \/ UNCHANGED KV!vars
    BY ZenonT(30), <1>1, <1>6, <2>2, LogFailRefines, LiveType DEF KV!Next
  <2>3. Apply => KV!Next BY <1>1, <1>6, ApplyRefines DEF KV!Next
  <2>4. FlushReset => KV!Next BY <1>1, <1>6, ResetRefines DEF KV!Next
  <2>5. FlushCall \/ FlushAlloc \/ FlushBuild => UNCHANGED KV!vars
    BY <1>4, <1>6 DEF FlushCall, FlushAlloc, FlushBuild
  <2>6. FlushInstall => KV!Next BY <1>1, FlushInstallRefines DEF KV!Next
  <2> QED BY ZenonT(30), <2>1, <2>2, <2>3, <2>4, <2>5, <2>6 DEF Client
<1> QED BY <1>2, <1>5, <1>6

-------------------------------------------------------------------------------
(* The background thread, crash and recovery *)

\* The background thread's steps are steps of the map.
LEMMA BackgroundRefines ==
  ASSUME IInv, IInv', Background
  PROVE  [KV!Next]_(KV!vars)
<1>1. up /\ up' BY UpStep DEF IInv
<1>2. UNCHANGED <<mem, wal, torn, op>> BY BackgroundFrame
<1>3. CASE BgInstall
  <2>1. UNCHANGED <<disk, nextFile>> /\ (manifest' = manifest \/ manifest' = ManifestOf(current'))
    BY <1>3 DEF BgInstall
  <2> QED BY ZenonT(30), <1>1, <1>2, <1>3, <2>1, BgInstallReads, InstallRefines DEF KV!Next
<1>4. CASE ~BgInstall
  <2>1. Quiet BY <1>4, BackgroundQuiet
  <2>2. Loaded' = Loaded /\ current' = current BY <2>1, QuietFiles DEF Quiet
  <2> QED BY <1>1, <1>2, <2>2, Stutters DEF Get, Recovered
<1> QED BY <1>3, <1>4

\* A crash shows what was durable, with at most the write under way added.
LEMMA CrashRefines ==
  ASSUME IInv, Crash
  PROVE  KV!Crash
<1>0. TypeOK /\ OpInv BY DEF IInv
<1>1. up' = FALSE /\ op' = {} /\ disk' = disk /\ manifest' = manifest BY DEF Crash
<1>2. Loaded' = Loaded BY <1>1 DEF Loaded
<1>3. StoreView' = DurableView' BY <1>1, Views
<1>4. OpView' = {} BY <1>1 DEF OpView
<1>5. wal' = wal => DurableView' = DurableView BY <1>2, Views DEF Recovered
<1>6. pc = "idle" => OpView = {} BY <1>0 DEF OpInv, OpView
<1>7. CASE wal' = wal /\ torn' = torn BY <1>3, <1>4, <1>5, <1>7 DEF KV!Crash
<1>8. CASE pc = "idle" /\ wal' = wal /\ torn' = TRUE
  BY <1>3, <1>4, <1>5, <1>6, <1>8 DEF KV!Crash
<1>9. ASSUME NEW k \in Keys, NEW x \in Values \cup {Deleted}, pc = "idle",
             wal' = Append(k, x), torn' = torn
      PROVE  KV!Crash
  <2>1. KV!Logged(k, Live(x)) BY <1>0, <1>2, <1>9, Appends
  <2> QED BY ZenonT(30), <1>3, <1>4, <1>6, <1>9, <2>1, LiveType DEF KV!Crash
<1> QED BY <1>7, <1>8, <1>9 DEF Crash

\* DB::Open shows what was durable.
LEMMA RecoverRefines ==
  ASSUME IInv, Recover
  PROVE  UNCHANGED KV!vars
<1>1. current' = Loaded /\ Loaded' = Loaded BY RecoveredFiles DEF IInv
<1>2. ~up /\ up' /\ mem' = wal /\ wal' = wal /\ op' = op /\ torn' = torn BY DEF Recover
<1>3. \A k \in Keys : Recovered(k)' = Recovered(k) BY <1>1, <1>2 DEF Recovered
<1>4. \A k \in Keys : Get(k)' = Recovered(k)' BY <1>1, <1>2 DEF Get, Recovered
<1>5. DurableView' = DurableView BY <1>3, Views
<1>6. StoreView = DurableView /\ StoreView' = DurableView' BY ZenonT(30), <1>2, <1>4, Views
<1>7. OpView' = OpView BY <1>2 DEF OpView
<1> QED BY ZenonT(30), <1>2, <1>5, <1>6, <1>7 DEF KV!vars

\* A fresh database is the empty map.
LEMMA InitRefines == Init => KV!Init
<1> SUFFICES ASSUME Init PROVE KV!Init OBVIOUS
<1>1. /\ op = {} /\ mem = Empty /\ wal = Empty /\ torn = FALSE /\ up = TRUE
      /\ current = NoFiles /\ manifest.files = [l \in Level |-> {}]
  BY DEF Init
<1>2. Loaded = NoFiles BY <1>1 DEF Loaded, NoFiles
<1>3. \A k \in Keys : GetFromVersion(NoFiles, k) = NotFound
  <2>1. \A l \in Level : NoFiles[l] = {} BY DEF NoFiles
  <2>2. \A l \in Level, k \in Keys : LevelEntry(NoFiles, l, k) = NotFound BY <2>1, LevelMiss
  <2> QED BY <2>2, GetMiss
<1>4. \A k \in Keys : Get(k) = NotFound /\ Recovered(k) = NotFound
  BY ZenonT(30), <1>1, <1>2, <1>3, EmptyType DEF Get, Recovered
<1>5. Live(NotFound) = NotFound BY DEF Live
<1>6. StoreView = [k \in Keys |-> NotFound] /\ DurableView = [k \in Keys |-> NotFound]
  BY <1>1, <1>4, <1>5, Views
<1> QED BY <1>1, <1>6 DEF KV!Init, OpView

\* Every behaviour of the engine, with any interleaving of its threads, any
\* failures and any crashes, is one of the crash-safe map: a write is visible
\* and durable once it is acknowledged, and no flush, compaction or restart
\* shows through, with the one exception KVStore states for a torn log.
THEOREM Refinement == Spec => ImplementsKVStore
<1>1. IInv /\ IInv' /\ [Next]_vars => [KV!Next]_(KV!vars)
  <2> SUFFICES ASSUME IInv, IInv', [Next]_vars PROVE [KV!Next]_(KV!vars) OBVIOUS
  <2>1. Client => [KV!Next]_(KV!vars) BY ClientRefines
  <2>2. Background => [KV!Next]_(KV!vars) BY BackgroundRefines
  <2>3. Crash => KV!Next BY CrashRefines DEF KV!Next
  <2>4. Recover => UNCHANGED KV!vars BY RecoverRefines
  <2>5. UNCHANGED vars => UNCHANGED KV!vars
    <3>1. ASSUME UNCHANGED vars
          PROVE  UNCHANGED <<mem, wal, torn, op, disk, manifest, current, up>>
      BY <3>1 DEF vars, clientVars, walVars, envVars
    <3>2. ASSUME UNCHANGED vars PROVE UNCHANGED <<StoreView, DurableView, OpView>>
      <4>1. Loaded' = Loaded BY <3>1, <3>2, LoadedSame
      <4>2. DurableView' = DurableView BY <3>1, <3>2, <4>1 DEF DurableView
      <4>3. StoreView' = StoreView
        <5>1. up' = up /\ \A k \in Keys : Get(k)' = Get(k) BY <3>1, <3>2 DEF Get
        <5>2. CASE up BY <5>1, <5>2, Views
        <5>3. CASE ~up BY <4>2, <5>1, <5>3, Views
        <5> QED BY <5>2, <5>3
      <4>4. OpView' = OpView BY <3>1, <3>2 DEF OpView
      <4> QED BY <4>2, <4>3, <4>4
    <3> QED BY <3>1, <3>2 DEF KV!vars
  <2> QED BY <2>1, <2>2, <2>3, <2>4, <2>5 DEF Next
<1> QED BY <1>1, InitRefines, Invariance, PTL DEF Spec, ImplementsKVStore, KV!Spec

-------------------------------------------------------------------------------
(* Tombstones *)

\* Of all steps only the two that install a version, a crash and a recovery
\* change what is in use or what a restart would load.
LEMMA QuietSteps ==
  ASSUME IInv, [Next]_vars, ~FlushInstall, ~BgInstall, ~Crash, ~Recover
  PROVE  current' = current /\ Loaded' = Loaded
<1>1. CASE Client \/ Background
  <2>1. Quiet BY ZenonT(30), <1>1, ClientQuiet, BackgroundQuiet
  <2> QED BY <2>1, QuietFiles DEF Quiet
<1>2. CASE UNCHANGED vars BY <1>2 DEF vars, Loaded
<1> QED BY <1>1, <1>2 DEF Next

\* A compaction into the last level is bottommost, and its outputs hold no
\* tombstone.
LEMMA BottomOutputs ==
  ASSUME IInv, BgInstall, comp.source + 1 = MaxLevels - 1
  PROVE  \A o \in outs : \A k \in Keys : o.data[k] # Deleted
<1>1. PickOK(current, comp) /\ OutputsOK(comp, outs)
  BY DEF IInv, CompactionInv, MergeInv, BgInstall
<1>2. NoDataBelow(current, MaxLevels - 1) BY SMTT(30), OptionsAssumption DEF NoDataBelow, Level
<1>3. comp.bottommost BY <1>1, <1>2 DEF PickOK
<1>4. \A k \in Keys : Merged(comp)[k] # Deleted BY <1>3, EntryAssumption DEF Merged
<1> QED BY ZenonT(30), <1>1, <1>4, EntryAssumption DEF OutputsOK

\* Every step keeps the last level free of tombstones.
LEMMA LastLevelStep == IInv /\ IInv' /\ LastLevelInv /\ [Next]_vars => LastLevelInv'
<1> SUFFICES ASSUME IInv, IInv', LastLevelInv, [Next]_vars PROVE LastLevelInv' OBVIOUS
<1>0. TypeOK /\ FilesInv /\ CompactionInv /\ FlushInv BY DEF IInv
<1>1. current \in [Level -> SUBSET File] /\ VersionOK(current) BY <1>0 DEF TypeOK, FilesInv
<1>2. MaxLevels - 1 \in Level /\ MaxLevels - 1 # 0 BY LastLevel
<1>3. NoTombstones(current) /\ NoTombstones(Loaded) BY DEF LastLevelInv
<1>4. ASSUME NoTombstones(current'), Loaded' = Loaded \/ Loaded' = current' PROVE LastLevelInv'
  BY <1>3, <1>4 DEF LastLevelInv
<1>5. CASE FlushInstall
  <2> DEFINE f == [number |-> num, data |-> mem]
  <2>1. /\ current' = AddL0(current, f) /\ pc = "install" /\ UNCHANGED <<disk, nextFile>>
        /\ manifest' = manifest \/ manifest' = ManifestOf(current')
    BY <1>5 DEF FlushInstall
  <2>2. f \in File BY <1>0, <2>1 DEF FlushInv, Private, TypeOK, File
  <2>3. current'[MaxLevels - 1] = current[MaxLevels - 1] BY ZenonT(40), <1>1, <1>2, <2>1, <2>2, FlushedLevels
  <2>4. NoTombstones(current') BY <1>3, <2>3 DEF NoTombstones
  <2> QED BY <1>4, <2>1, <2>4, InstallLoads
<1>6. CASE BgInstall
  <2>1. /\ current' = InstallCompaction(current, comp, outs) /\ bg = "merge"
        /\ UNCHANGED <<disk, nextFile>>
        /\ manifest' = manifest \/ manifest' = ManifestOf(current')
    BY <1>6 DEF BgInstall
  <2>2. \A g \in current'[MaxLevels - 1] :
          g \in current[MaxLevels - 1] \/ (comp.source + 1 = MaxLevels - 1 /\ g \in outs)
    BY ZenonT(30), <1>2, <1>0, <1>6, CompactionInstalled
  <2>3. NoTombstones(current') BY ZenonT(30), <1>3, <1>6, <2>2, BottomOutputs DEF NoTombstones
  <2> QED BY ZenonT(30), <1>4, <2>1, <2>3, InstallLoads
<1>7. CASE Crash
  <2>1. current'[MaxLevels - 1] = {} /\ disk' = disk /\ manifest' = manifest
    BY <1>2, <1>7 DEF Crash, NoFiles
  <2>2. NoTombstones(current') /\ Loaded' = Loaded BY <2>1 DEF NoTombstones, Loaded
  <2> QED BY <1>4, <2>2
<1>8. CASE Recover
  <2>1. current' = Loaded /\ Loaded' = Loaded BY <1>8, RecoveredFiles
  <2> QED BY <1>3, <1>4, <2>1
<1>9. CASE ~FlushInstall /\ ~BgInstall /\ ~Crash /\ ~Recover
  BY <1>3, <1>4, <1>9, QuietSteps
<1> QED BY <1>5, <1>6, <1>7, <1>8, <1>9

\* A delete that has sunk to the last level is gone, whatever was flushed,
\* compacted, failed or recovered on the way.
THEOREM Reclaimed == Spec => []TombstonesReclaimed
<1>1. Init => LastLevelInv
  <2> SUFFICES ASSUME Init PROVE LastLevelInv OBVIOUS
  <2>1. MaxLevels - 1 \in Level BY LastLevel
  <2>2. current[MaxLevels - 1] = {} /\ Loaded[MaxLevels - 1] = {}
    BY <2>1 DEF Init, NoFiles, Loaded
  <2> QED BY <2>2 DEF LastLevelInv, NoTombstones
<1>2. LastLevelInv => TombstonesReclaimed BY DEF LastLevelInv, NoTombstones, TombstonesReclaimed
<1> QED BY <1>1, <1>2, LastLevelStep, Invariance, PTL DEF Spec

-------------------------------------------------------------------------------
(* Files left behind *)

\* Every step of the client accounts for the files on disk.
LEMMA ClientDirectory ==
  ASSUME IInv, IInv', DirectoryInv, Client, faults' = 0
  PROVE  \A n \in Number : disk'[n] # Missing => InUse(n)'
<1> USE DEF envVars, walVars, bgVars
<1>0. TypeOK /\ FilesInv /\ FlushInv BY DEF IInv
<1>1. up /\ UNCHANGED <<bg, comp, rest, outs, bnum, doomed>> BY <1>0, UpStep, ClientFrame
<1>2. ~Fault BY SMT, <1>0 DEF Fault, TypeOK
<1>3. faults = 0
  <2>1. NoFault \/ UNCHANGED envVars
    BY <1>2 DEF Client, Log, LogFail, Apply, FlushCall, FlushAlloc, FlushBuild, FlushInstall,
                FlushReset
  <2> QED BY SMTT(30), <2>1 DEF NoFault
<1>4. \A n \in Number : disk[n] # Missing => InUse(n) BY SMTT(30), <1>1, <1>3 DEF DirectoryInv
<1>5. ASSUME disk' = disk, current' = current, pc \notin {"build", "install"}
      PROVE  \A n \in Number : disk'[n] # Missing => InUse(n)'
  BY <1>1, <1>4, <1>5 DEF InUse, LiveNumbers
<1>6. ASSUME NEW k \in Keys, NEW x \in Values \cup {Deleted}, Log(k, x) \/ LogFail(k, x)
      PROVE  disk' = disk /\ current' = current /\ pc = "idle"
  BY <1>6 DEF Log, LogFail, Writing
<1>7. Apply \/ FlushCall \/ FlushReset =>
        disk' = disk /\ current' = current /\ pc \in {"apply", "idle", "reset"}
  BY DEF Apply, FlushCall, FlushReset
<1>8. CASE FlushAlloc
  <2>1. /\ disk' = [disk EXCEPT ![nextFile] = Partial] /\ num' = nextFile /\ pc' = "build"
        /\ pc = "alloc" /\ current' = current
    BY <1>2, <1>8 DEF FlushAlloc
  <2>2. \A n \in Number : n # nextFile => disk'[n] = disk[n] BY ZenonT(30), <1>0, <2>1 DEF TypeOK
  <2> QED BY ZenonT(30), <1>1, <1>4, <2>1, <2>2 DEF InUse, LiveNumbers
<1>9. CASE FlushBuild
  <2>1. /\ disk' = [disk EXCEPT ![num] = mem] /\ num' = num /\ pc' = "install"
        /\ pc = "build" /\ current' = current
    BY <1>2, <1>9 DEF FlushBuild
  <2>2. \A n \in Number : n # num => disk'[n] = disk[n] BY <1>0, <2>1 DEF TypeOK
  <2> QED BY ZenonT(30), <1>1, <1>4, <2>1, <2>2 DEF InUse, LiveNumbers
<1>10. CASE FlushInstall
  <2> DEFINE f == [number |-> num, data |-> mem]
  <2>1. current' = AddL0(current, f) /\ disk' = disk /\ pc = "install" BY <1>10 DEF FlushInstall
  <2>2. f \in File /\ current \in [Level -> SUBSET File]
    BY ZenonT(30), <1>0, <2>1 DEF FlushInv, Private, TypeOK, File
  <2>3. 0 \in Level /\ f \in current'[0] /\ \A l \in Level : current[l] \subseteq current'[l]
    <3>1. /\ 0 \in Level /\ current'[0] = current[0] \cup {f}
          /\ \A l \in Level : l # 0 => current'[l] = current[l]
      BY <2>1, <2>2, FlushedLevels
    <3> HIDE DEF f
    <3> QED BY <3>1
  <2>4. num \in NumbersOf(current'[0]) BY SMT, <2>3 DEF NumbersOf
  <2>5. \A n \in LiveNumbers : n \in LiveNumbers' BY SMT, <2>3 DEF LiveNumbers, NumbersOf
  <2>6. num \in LiveNumbers' BY <2>3, <2>4 DEF LiveNumbers
  <2>7. ASSUME NEW n \in Number, disk'[n] # Missing PROVE InUse(n)'
    <3>1. InUse(n) BY <1>4, <2>1, <2>7
    <3>2. n \in LiveNumbers \/ n = num => n \in LiveNumbers' BY <2>5, <2>6
    <3> QED BY <1>1, <3>1, <3>2 DEF InUse
  <2> QED BY <2>7
<1> QED BY ZenonT(30), <1>5, <1>6, <1>7, <1>8, <1>9, <1>10 DEF Client

\* A number some level of the new version names is in use.
LEMMA NamedIsLive ==
  ASSUME NEW l \in Level, NEW n, n \in NumbersOf(current'[l])
  PROVE  n \in LiveNumbers'
BY DEF LiveNumbers

\* Every step of the background thread accounts for the files on disk.
LEMMA BackgroundDirectory ==
  ASSUME IInv, IInv', DirectoryInv, Background, faults' = 0
  PROVE  \A n \in Number : disk'[n] # Missing => InUse(n)'
<1> USE DEF envVars
<1>0. TypeOK /\ FilesInv /\ CompactionInv BY DEF IInv
<1>1. up /\ pc' = pc /\ num' = num BY <1>0, UpStep, BackgroundFrame
<1>2. ~Fault BY SMT, <1>0 DEF Fault, TypeOK
<1>3. faults = 0
  <2>1. NoFault \/ UNCHANGED envVars
    BY <1>2 DEF Background, BgPick, BgOpenOutput, BgFinishOutput, BgFail, BgInstall, BgUnlink
  <2> QED BY <2>1 DEF NoFault
<1>4. \A n \in Number : disk[n] # Missing => InUse(n) BY <1>1, <1>3 DEF DirectoryInv
<1>5. CASE BgPick
  <2>1. disk' = disk /\ current' = current /\ bg = "idle" BY <1>5 DEF BgPick
  <2> QED BY <1>1, <1>4, <2>1 DEF InUse, LiveNumbers
<1>6. CASE BgOpenOutput
  <2>1. /\ disk' = [disk EXCEPT ![nextFile] = Partial] /\ bnum' = nextFile /\ bg' = "write"
        /\ bg = "merge" /\ outs' = outs /\ current' = current
    BY <1>2, <1>6 DEF BgOpenOutput
  <2>2. \A n \in Number : n # nextFile => disk'[n] = disk[n] BY SMTT(30), <1>0, <2>1 DEF TypeOK
  <2> QED BY ZenonT(30), <1>1, <1>4, <2>1, <2>2 DEF InUse, LiveNumbers
<1>7. CASE BgFinishOutput
  <2> DEFINE o == [number |-> bnum, data |-> Only(rest, Chunk(rest))]
  <2>1. /\ disk' = [disk EXCEPT ![bnum] = Only(rest, Chunk(rest))] /\ outs' = outs \cup {o}
        /\ bg = "write" /\ bg' = "merge" /\ current' = current
    BY <1>7 DEF BgFinishOutput
  <2>2. \A n \in Number : n # bnum => disk'[n] = disk[n] BY <1>0, <2>1 DEF TypeOK
  <2>3. bnum \in NumbersOf(outs') /\ \A n \in NumbersOf(outs) : n \in NumbersOf(outs')
    <3>1. o \in outs' /\ o.number = bnum /\ outs \subseteq outs' BY <2>1
    <3> QED BY <3>1 DEF NumbersOf
  <2> QED BY ZenonT(40), <1>1, <1>4, <2>1, <2>2, <2>3 DEF InUse, LiveNumbers
<1>8. CASE BgInstall
  <2>1. /\ current' = InstallCompaction(current, comp, outs) /\ bg = "merge" /\ disk' = disk
        /\ bg' = "unlink" /\ doomed' = NumbersOf(Inputs(comp))
    BY SMTT(30), <1>2, <1>8 DEF BgInstall
  <2>2. /\ comp.source + 1 \in Level
        /\ current'[comp.source] = current[comp.source] \ comp.srcs
        /\ current'[comp.source + 1] = (current[comp.source + 1] \ comp.tgts) \cup outs
        /\ \A l \in Level : l # comp.source /\ l # comp.source + 1 => current'[l] = current[l]
    BY <1>0, <1>8, CompactionInstalled
  <2>3. \A l \in Level : \A f \in current[l] : f \in current'[l] \/ f \in Inputs(comp)
    BY <2>2 DEF Inputs
  <2>4. ASSUME NEW n \in LiveNumbers PROVE n \in LiveNumbers' \/ n \in doomed'
    <3>0. PICK l \in Level : \E f \in current[l] : f.number = n BY DEF LiveNumbers, NumbersOf
    <3>1. PICK f \in current[l] : f.number = n BY <3>0
    <3>2. CASE f \in current'[l]
      <4>1. n \in NumbersOf(current'[l]) BY <3>1, <3>2 DEF NumbersOf
      <4> QED BY <4>1, NamedIsLive
    <3>3. CASE f \in Inputs(comp) BY <2>1, <3>1, <3>3 DEF NumbersOf
    <3> QED BY <2>3, <3>1, <3>2, <3>3
  <2>5. \A n \in NumbersOf(outs) : n \in LiveNumbers' BY SMT, <2>2 DEF LiveNumbers, NumbersOf
  <2>6. ASSUME NEW n \in Number, disk'[n] # Missing PROVE InUse(n)'
    <3>1. InUse(n) BY <1>4, <2>1, <2>6
    <3> QED BY SMTT(30), <1>1, <2>1, <2>4, <2>5, <3>1 DEF InUse
  <2> QED BY <2>6
<1>9. CASE BgUnlink
  <2>1. PICK n \in doomed :
          /\ disk' = [disk EXCEPT ![n] = Missing]
          /\ doomed # {n} => doomed' = doomed \ {n} /\ bg' = bg
    BY <1>2, <1>9 DEF BgUnlink
  <2>2. n \in Number /\ bg = "unlink" /\ current' = current BY ZenonT(30), <1>0, <1>9 DEF BgUnlink, TypeOK
  <2>3. disk'[n] = Missing /\ \A i \in Number : i # n => disk'[i] = disk[i]
    BY <1>0, <2>1, <2>2 DEF TypeOK
  <2> QED BY ZenonT(30), <1>1, <1>4, <2>1, <2>2, <2>3 DEF InUse, LiveNumbers
<1>10. ~BgFail BY <1>2 DEF BgFail
<1> QED BY ZenonT(30), <1>5, <1>6, <1>7, <1>8, <1>9, <1>10 DEF Background

\* Every step keeps the account of the files on disk.
LEMMA DirectoryStep == IInv /\ IInv' /\ DirectoryInv /\ [Next]_vars => DirectoryInv'
<1> SUFFICES ASSUME IInv, IInv', DirectoryInv, [Next]_vars, up', faults' = 0
             PROVE  \A n \in Number : disk'[n] # Missing => InUse(n)'
  BY DEF DirectoryInv
<1>1. CASE Client BY <1>1, ClientDirectory
<1>2. CASE Background BY <1>2, BackgroundDirectory
<1>3. CASE Crash BY <1>3 DEF Crash
<1>4. CASE Recover
  <2>0. TypeOK BY SMTT(30) DEF IInv
  <2>1. PICK kept \in SUBSET {n \in Number \ ManifestNumbers : disk[n] # Missing} :
          /\ disk' = [n \in Number |-> IF n \in ManifestNumbers \cup kept THEN disk[n] ELSE Missing]
          /\ \/ kept = {} /\ UNCHANGED faults
             \/ kept # {} /\ faults < MaxFaults /\ faults' = faults + 1
    BY ZenonT(40), <1>4 DEF Recover
  <2>2. kept = {} BY SMT, <2>0, <2>1 DEF TypeOK
  <2>3. \A n \in Number : disk'[n] # Missing => n \in ManifestNumbers BY <2>1, <2>2
  <2>4. current' = Loaded BY <1>4 DEF Recover
  <2>5. \A l \in Level : \A n \in manifest.files[l] : n \in NumbersOf(current'[l])
    <3>1. ASSUME NEW l \in Level, NEW n \in manifest.files[l] PROVE n \in NumbersOf(current'[l])
      <4> DEFINE f == [number |-> n, data |-> disk[n]]
      <4>1. f \in current'[l] /\ f.number = n BY <2>4 DEF Loaded
      <4> QED BY <4>1 DEF NumbersOf
    <3> QED BY <3>1
  <2>6. ASSUME NEW n \in ManifestNumbers PROVE n \in LiveNumbers'
    <3>1. PICK l \in Level : n \in manifest.files[l] BY SMT DEF ManifestNumbers
    <3> QED BY <2>5, <3>1, NamedIsLive
  <2> QED BY <2>3, <2>6 DEF InUse
<1>5. CASE UNCHANGED vars
  <2>1. UNCHANGED <<pc, num, bg, outs, bnum, doomed, disk, current, up, faults>>
    BY <1>5 DEF vars, clientVars, bgVars, envVars
  <2> QED BY <2>1 DEF DirectoryInv, InUse, LiveNumbers
<1> QED BY <1>1, <1>2, <1>3, <1>4, <1>5 DEF Next

\* Whatever the crashes and the interleaving, with both threads at rest and no
\* failed call the directory holds the files of the version and no other.
THEOREM NothingLeftBehind == Spec => []NoOrphans
<1>1. Init => DirectoryInv BY DEF Init, DirectoryInv
<1>2. IInv /\ DirectoryInv => NoOrphans
  <2> SUFFICES ASSUME IInv, DirectoryInv, up, pc = "idle", bg = "idle", faults = 0
               PROVE  {n \in Number : disk[n] # Missing} = LiveNumbers
    BY DEF NoOrphans
  <2>0. TypeOK /\ FilesInv BY DEF IInv
  <2>1. \A n \in Number : disk[n] # Missing => n \in LiveNumbers BY DEF DirectoryInv, InUse
  <2>2. \A l \in Level : \A f \in current[l] :
          f.number \in Number /\ f.data \in Table /\ disk[f.number] = f.data
    BY SMT, <2>0 DEF TypeOK, FilesInv, File
  <2>3. \A n \in LiveNumbers : n \in Number /\ disk[n] # Missing
    BY SMT, <2>2, FileAssumption DEF LiveNumbers, NumbersOf
  <2> QED BY <2>1, <2>3
<1> QED BY <1>1, <1>2, DirectoryStep, Invariance, PTL DEF Spec
===============================================================================
