------------------------------- MODULE MCFat ---------------------------------
(***************************************************************************)
(* The FAT file system for TLC: a behaviour is about one of its parts, the *)
(* shell's commands on cluster chains and directory slots, the geometry of *)
(* the volume, or the names in directory entries. The parts share no       *)
(* variable.                                                               *)
(***************************************************************************)
EXTENDS FatShell, FatGeometry

CONSTANTS LastCluster, n1, n2, n3, x, y

MCClusters == 2..LastCluster
\* n1 is a short name, n2 and n3 are long ones with one LFN entry.
MCParts == [n \in Names |-> IF n = n1 THEN 0 ELSE 1]
\* An empty root directory on cluster 2; the FAT entry has a reserved bit set. What was
\* in the other clusters before the volume was formatted looks like files.
MCFormatted ==
    [fat |-> [c \in MCClusters |-> IF c = 2 THEN Eoc + 2^28 ELSE 0],
     data |-> [c \in MCClusters |->
                  [i \in 1..PerCluster |-> IF c = 2 THEN Terminal ELSE Entry(n1, FALSE, 2, 1)]]]
\* Directories and names; and two files until the volume is full.
MCSessions ==
    {[commands |-> {"cd", "touch", "mkdir", "rm", "mv"},
      args |-> {<<n1>>, <<n2>>, <<n3>>, <<n1, n2>>, <<"..", n2>>}, max |-> 6, files |-> 3],
     [commands |-> {"touch", "write", "append", "rm", "mv"}, args |-> {<<n1>>, <<n2>>}, max |-> 7, files |-> 2]}
\* Texts of nothing, of less than a cluster, and of more than half of the volume.
MCTexts == {<<>>, <<x>>, [i \in 1..(3 * PerCluster + 1) |-> IF i % 2 = 0 THEN x ELSE y]}

\* Sectors of two or three FAT entries, clusters of one or two sectors, one or two
\* FATs, and values that try_from refuses.
MCBootSectors ==
    [bytsPerSec : {8, 12, 16}, secPerClus : {0, 1, 2, 3}, rsvdSecCnt : {0, 1, 2}, numFats : {1, 2},
     fat16 : BOOLEAN, magic : {"ok", "JmpBoot", "FSVer"}, totSec32 : {5, 9, 10}, fatSz32 : {1, 2, 3}]
MCVolumes == [size : {8, 12}, count : {9, 10}]

VARIABLES name, runs, slots, first, given, phase, reader, start, pos, found
CONSTANTS Chars, Runs, MaxRuns

Blank(n) == [i \in 1..n |-> 32]
Sfn(nt, attr, cluster, size) ==
    [kind |-> "Sfn", name |-> Blank(11), attr |-> attr, ntRes |-> nt, cluster |-> cluster, size |-> size]
\* The empty name, and one that is thirteen units short of the limit of 255.
MCStems == {<<>>, [i \in 1..242 |-> 97]}
\* Its operators on names, for the directories below.
Format == INSTANCE DirEntryNames WITH Stems <- MCStems, Settings <- {}
\* A fresh entry in an empty directory; a directory renamed behind a deleted entry and
\* the entries of "."; a file with both cluster halves renamed behind the first two
\* entries of a three-part name whose creation failed; a fresh one behind a volume label.
MCSettings ==
    {[before |-> <<>>, old |-> Sfn(0, 0, 0, 0)],
     [before |-> <<[kind |-> "Unused"]>> \o Format!LfnSequence(<<46>>, Sfn(0, 16, 2, 0)),
      old |-> Sfn(8, 16, 5, 0)],
     [before |-> SubSeq(Format!LfnSequence([i \in 1..30 |-> 98], Sfn(0, 0, 0, 0)), 1, 2),
      old |-> Sfn(24, 32, 65541, 70001)],
     [before |-> <<Sfn(0, 8, 0, 0)>>, old |-> Sfn(0, 0, 0, 0)]}
Entries == INSTANCE DirEntryNames WITH Stems <- MCStems, Settings <- MCSettings
-----------------------------------------------------------------------------
VARIABLE part
Idle == "idle"
OfEntries == <<name, runs, slots, first, given, phase, reader, start, pos, found>>
NoGeometry == bs = Idle /\ volume = Idle /\ status = Idle /\ access = NoAccess
NoEntries ==
    /\ name = Idle /\ runs = Idle /\ slots = Idle /\ first = Idle /\ given = Idle
    /\ phase = Idle /\ reader = Idle /\ start = Idle /\ pos = Idle /\ found = Idle
NoShell == session = Idle /\ v = Idle /\ wd = <<>> /\ tree = <<>> /\ count = 0

MCInit ==
    \/ part = "shell" /\ Init /\ NoGeometry /\ NoEntries
    \/ part = "geometry" /\ InitGeometry /\ NoShell /\ NoEntries
    \/ part = "names" /\ Entries!Init /\ NoShell /\ NoGeometry
MCNext ==
    \/ part = "shell" /\ Next /\ UNCHANGED <<part, geometry, OfEntries>>
    \/ part = "geometry" /\ NextGeometry /\ UNCHANGED <<part, vars, OfEntries>>
    \/ part = "names" /\ Entries!Next /\ UNCHANGED <<part, vars, geometry>>
MCSpec == MCInit /\ [][MCNext]_<<part, vars, geometry, OfEntries>>

\* The clusters in use are exactly those of the files and directories, each in one chain, after any
\* sequence of the sessions' commands, a `write` or `append` that found the volume full included
\* (FileWriter, File::remove). Not in it: writes that shorten a file (see FileFatTellsStatus), a
\* directory moved below itself, and directories that grow or are made on a full volume.
FileChainsSound == part = "shell" => ChainsSound

\* `write` replaces the text of its file and `append` extends it, whatever either reuses or links of
\* the chain, and either fails, which empties the file, only when the volume has no room for the whole
\* (File::overwriter, File::appender, FileWriter).
FileWritesExact == [][part = "shell" => WritesExact]_<<part, vars>>

\* "the value of the FAT entry indicates the status of the corresponding cluster"
\* (boot_sector.rs, above fat_entry): no cluster of a file or directory is marked unused.
FileFatTellsStatus == part = "shell" => FatTellsStatus

\* A name that lfn_sequence accepts is read back unchanged by DirIter.
NameReadBack == part = "names" => Entries!NameReadBack
=============================================================================
