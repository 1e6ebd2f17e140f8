-------------------------------- MODULE FatFs --------------------------------
(***************************************************************************)
(* fs/fat.rs and fs/fat/low_level.rs as functions of the volume: v.fat is  *)
(* the File Allocation Table (raw 32-bit entries), v.data the cells of the *)
(* clusters, a cell being one directory entry or one block of file         *)
(* contents. A result is [v, ok, ...]: the volume after the call, changed  *)
(* also when the call failed, as nothing is rolled back. Names are values  *)
(* with a number of LFN entries (see DirEntryNames). 0 is "no cluster".    *)
(***************************************************************************)
EXTENDS Integers, Sequences, SequencesExt, FiniteSetsExt

CONSTANTS Clusters,   \* 2 .. cluster_count() + 1
          PerCluster, \* dir_entries_count, and blocks per cluster
          Root,       \* the cluster of the root directory
          Names, Parts, Invalid  \* file names, their LFN entries, the ones lfn_sequence refuses

Eoc == 268435455
Terminal == [kind |-> "UnusedTerminal"]
Unused == [kind |-> "Unused"]
Entry(name, dir, c, size) == [kind |-> "Sfn", name |-> name, dir |-> dir, cluster |-> c, size |-> size]

\* FatEntry::from and chain: the four reserved bits are ignored, bad clusters do not chain.
IsUnused(raw) == raw % 2^28 = 0
ChainOf(raw) == IF raw % 2^28 \in 2..(Eoc - 9) THEN raw % 2^28 ELSE 0
IsEoc(raw) == raw % 2^28 \in (Eoc - 7)..Eoc

SetFat(v, c, raw) == [v EXCEPT !.fat[c] = raw]
SetCell(v, at, cell) == [v EXCEPT !.data[at[1]][at[2]] = cell]

\* BufferedFat::allocate: the first unused entry.
Allocate(v) ==
    LET free == {c \in Clusters : IsUnused(v.fat[c])}
    IN IF free = {} THEN [v |-> v, ok |-> FALSE, c |-> 0]
       ELSE [v |-> SetFat(v, Min(free), Eoc), ok |-> TRUE, c |-> Min(free)]

\* BufferedFat::release
RECURSIVE Release(_, _)
Release(v, c) ==
    IF ChainOf(v.fat[c]) # 0 THEN Release(SetFat(v, c, 0), ChainOf(v.fat[c]))
    ELSE IF IsEoc(v.fat[c]) THEN SetFat(v, c, 0) ELSE v

\* ChainedCluster::prepare and release
Linked(a, c, link) == IF ~a.ok \/ ~link THEN a ELSE [a EXCEPT !.v = SetFat(a.v, c, a.c)]
PrepareWith(v, c, link) ==
    IF ChainOf(v.fat[c]) # 0 THEN [v |-> v, ok |-> TRUE, c |-> ChainOf(v.fat[c])]
    ELSE Linked(Allocate(v), c, link)

\* Mutant: the new cluster is not linked to its predecessor.
PrepareUnlinked(v, c) == PrepareWith(v, c, FALSE)

Prepare(v, c) == PrepareWith(v, c, TRUE)
ReleaseNext(v, c) ==
    IF ChainOf(v.fat[c]) = 0 THEN v ELSE Release(SetFat(v, c, 0), ChainOf(v.fat[c]))

\* The clusters of a chain, at most `fuel` of them.
RECURSIVE Follow(_, _, _)
Follow(v, c, fuel) ==
    IF c = 0 \/ fuel = 0 THEN <<>> ELSE <<c>> \o Follow(v, ChainOf(v.fat[c]), fuel - 1)
Chain(v, c) == Follow(v, c, Cardinality(Clusters))

\* DirEntries: the slots <<cluster, index>> of a directory up to its terminal.
At(v, s) == v.data[s[1]][s[2]]
AllSlots(chain) ==
    [i \in 1..(Len(chain) * PerCluster) |-> <<chain[((i - 1) \div PerCluster) + 1], ((i - 1) % PerCluster) + 1>>]
UpToTerminal(v, all) ==
    LET end == SelectInSeq(all, LAMBDA s : At(v, s) = Terminal) IN IF end = 0 THEN all ELSE SubSeq(all, 1, end)
Slots(v, d) == UpToTerminal(v, AllSlots(Chain(v, d)))

\* DirIter: the files of directory d in order. A name whose LFN entries do not precede
\* it is shown by its short form <<name>>.
FilesAt(v, d, slots) ==
    LET Part(i, name, k) == i > 0 /\ At(v, slots[i]) = [kind |-> "Lfn", name |-> name, order |-> k]
        File(i) ==
            LET e == At(v, slots[i])
                whole == \A k \in 1..Parts[e.name] : Part(i - k, e.name, k)
            IN [dir |-> d, entry |-> e, name |-> IF whole THEN e.name ELSE <<e.name>>,
                slots |-> SubSeq(slots, i - (IF whole THEN Parts[e.name] ELSE 0), i)]
        listed == SelectSeq([i \in 1..Len(slots) |-> i],
                      LAMBDA i : LET e == At(v, slots[i]) IN e.kind = "Sfn" /\ e.name \in Names)
    IN [k \in 1..Len(listed) |-> File(listed[k])]
Files(v, d) == FilesAt(v, d, Slots(v, d))

NoFile == [name |-> <<>>]
Named(files, name) ==
    LET i == SelectInSeq(files, LAMBDA f : f.name = name) IN IF i = 0 THEN NoFile ELSE files[i]
Find(v, d, name) == Named(Files(v, d), name)
AsDir(f) == IF f # NoFile /\ f.entry.dir THEN f.entry.cluster ELSE 0

\* DirEntry::lfn_sequence
LfnSequence(name, e) ==
    [i \in 1..Parts[name] |-> [kind |-> "Lfn", name |-> name, order |-> Parts[name] - i + 1]]
    \o <<[e EXCEPT !.name = name]>>

\* The second loop of insert_dir_entries.
RECURSIVE WriteEntries(_, _, _)
WriteEntriesTo(p, n, es) ==
    IF ~p.ok THEN [v |-> p.v, ok |-> FALSE]
    ELSE WriteEntries(SetCell(p.v, <<p.c, n>>, Head(es)), <<p.c, n + 1>>, Tail(es))
WriteEntries(v, at, es) ==
    IF es = <<>> THEN [v |-> v, ok |-> TRUE]
    ELSE IF at[2] > PerCluster THEN WriteEntriesTo(Prepare(v, at[1]), 1, es)
    ELSE WriteEntriesTo([v |-> v, ok |-> TRUE, c |-> at[1]], at[2], es)

\* The first loop of insert_dir_entries: writable_start and writable_len.
WritableSpaceFrom(v, d, required, reset) ==
    LET Visit(a, s) ==
            LET e == At(v, s)
                from == IF a.len = 0 THEN s ELSE a.start
            IN IF a.stop THEN a
               ELSE IF e = Unused THEN [start |-> from, len |-> a.len + 1, stop |-> a.len + 1 = required]
               ELSE IF e = Terminal THEN [start |-> from, len |-> a.len, stop |-> TRUE]
               ELSE [a EXCEPT !.len = IF reset THEN 0 ELSE a.len]
    IN FoldLeft(Visit, [start |-> <<d, 1>>, len |-> 0, stop |-> FALSE], Slots(v, d))

\* Mutant: unused entries are counted across the entries of files.
ScatteredSpace(v, d, required) == WritableSpaceFrom(v, d, required, FALSE)

WritableSpace(v, d, required) == WritableSpaceFrom(v, d, required, TRUE)

InsertInto(v, w, es) == WriteEntries(v, w.start, IF w.len # Len(es) THEN Append(es, Terminal) ELSE es)
InsertDirEntries(v, d, es) == InsertInto(v, WritableSpace(v, d, Len(es)), es)

\* Dir::create_file and create_dir
CreateFile(v, d, name) ==
    IF Find(v, d, name) # NoFile \/ name \in Invalid THEN [v |-> v, ok |-> FALSE]
    ELSE InsertDirEntries(v, d, LfnSequence(name, Entry(name, FALSE, 0, 0)))
CreateDirAt(a, d, name) ==
    LET new == SetCell(SetCell(SetCell(a.v, <<a.c, 1>>, Entry(".", TRUE, a.c, 0)),
                               <<a.c, 2>>, Entry("..", TRUE, IF d = Root THEN 0 ELSE d, 0)),
                       <<a.c, 3>>, Terminal)
    IN IF ~a.ok THEN a ELSE InsertDirEntries(new, d, LfnSequence(name, Entry(name, TRUE, a.c, 0)))
CreateDir(v, d, name) ==
    IF Find(v, d, name) # NoFile \/ name \in Invalid THEN [v |-> v, ok |-> FALSE]
    ELSE CreateDirAt(Allocate(v), d, name)

\* File::write_back, release_cluster, and the removal of a file's directory entries.
WriteBack(v, f) == SetCell(v, Last(f.slots), f.entry)
ReleaseCluster(v, f) ==
    IF f.entry.cluster = 0 THEN v
    ELSE Release(WriteBack(v, [f EXCEPT !.entry.cluster = 0]), f.entry.cluster)
Unlink(v, f) == FoldLeft(LAMBDA acc, s : SetCell(acc, s, Unused), v, f.slots)

\* File::remove
RECURSIVE RemoveFile(_, _, _)
RemoveHolding(v, f, inside, recursive) ==
    IF inside # <<>> /\ ~recursive THEN [v |-> v, ok |-> FALSE]
    ELSE LET emptied == FoldLeft(LAMBDA acc, g : RemoveFile(acc, g, TRUE).v, v, inside)
         IN [v |-> Unlink(ReleaseCluster(emptied, f), f), ok |-> TRUE]
RemoveFile(v, f, recursive) ==
    RemoveHolding(v, f, IF AsDir(f) # 0 THEN Files(v, AsDir(f)) ELSE <<>>, recursive)

\* File::mv to directory d under `name` (the shell always gives a directory).
Mv(v, f, d, name) ==
    LET moved == IF name # f.name THEN LfnSequence(name, f.entry)
                 ELSE [i \in 1..Len(f.slots) |-> At(v, f.slots[i])]
    IN IF name = f.name /\ d = f.dir THEN [v |-> v, ok |-> TRUE]
       ELSE IF name \in Invalid \/ Find(v, d, name) # NoFile THEN [v |-> v, ok |-> FALSE]
       ELSE InsertDirEntries(Unlink(v, f), d, moved)

\* FileReader::read_to_end
RECURSIVE ReadFrom(_, _, _)
ReadFrom(v, c, rest) ==
    IF c = 0 \/ rest = 0 THEN <<>>
    ELSE IF rest < PerCluster THEN SubSeq(v.data[c], 1, rest)
    ELSE v.data[c] \o ReadFrom(v, ChainOf(v.fat[c]), rest - PerCluster)
Contents(v, f) == ReadFrom(v, f.entry.cluster, f.entry.size)

\* FileWriter: [v, f, ok, at, total]; `at` is the cursor, <<0, 0>> when it is None.
NoCursor == <<0, 0>>
Overwriter(v, f) == [v |-> v, f |-> f, ok |-> TRUE, at |-> NoCursor, total |-> 0]
RECURSIVE SeekEnd(_, _, _, _)
SeekEnd(v, c, rest, total) ==
    IF rest <= PerCluster THEN [at |-> <<c, rest>>, total |-> total + rest]
    ELSE IF ChainOf(v.fat[c]) = 0 THEN [at |-> <<c, PerCluster>>, total |-> total + PerCluster]
    ELSE SeekEnd(v, ChainOf(v.fat[c]), rest - PerCluster, total + PerCluster)

\* Mutant: append starts at the beginning of the file.
AppenderAtStart(v, f) == Overwriter(v, f)

Appender(v, f) ==
    LET end == SeekEnd(v, f.entry.cluster, f.entry.size, 0)
    IN IF f.entry.cluster = 0 THEN Overwriter(v, f)
       ELSE [v |-> v, f |-> f, ok |-> TRUE, at |-> end.at, total |-> end.total]

\* The cluster of the cursor: File::prepare_cluster, ChainedCluster::prepare, or the same.
In(p, f, from) == [v |-> p.v, ok |-> p.ok, f |-> f, c |-> p.c, from |-> from]
First(a, f) == IF a.ok THEN In([a EXCEPT !.v = WriteBack(@, f)], f, 0) ELSE In(a, f, 0)
Place(w) ==
    IF w.at # NoCursor /\ w.at[2] < PerCluster THEN In([v |-> w.v, ok |-> TRUE, c |-> w.at[1]], w.f, w.at[2])
    ELSE IF w.at # NoCursor THEN In(Prepare(w.v, w.at[1]), w.f, 0)
    ELSE IF w.f.entry.cluster # 0 THEN In([v |-> w.v, ok |-> TRUE, c |-> w.f.entry.cluster], w.f, 0)
    ELSE First(Allocate(w.v), [w.f EXCEPT !.entry.cluster = Allocate(w.v).c])

\* FileWriter::write
RECURSIVE WriteAll(_, _)
WriteSome(w, p, buf, l) ==
    LET cells == [i \in 1..PerCluster |-> IF i \in (p.from + 1)..(p.from + l)
                                          THEN buf[i - p.from] ELSE p.v.data[p.c][i]]
    IN WriteAll([v |-> [p.v EXCEPT !.data[p.c] = cells], f |-> p.f, ok |-> TRUE,
                 at |-> <<p.c, p.from + l>>, total |-> w.total + l],
                SubSeq(buf, l + 1, Len(buf)))
WriteIn(w, p, buf) ==
    IF ~p.ok THEN [w EXCEPT !.v = p.v, !.ok = FALSE, !.at = NoCursor]
    ELSE WriteSome(w, p, buf, Min({Len(buf), PerCluster - p.from}))
WriteAll(w, buf) == IF buf = <<>> THEN w ELSE WriteIn(w, Place(w), buf)

\* FileWriter::drop: what follows the cursor is released, the size is written.
Close(w) ==
    LET f == IF w.at = NoCursor THEN [w.f EXCEPT !.entry.cluster = 0] ELSE w.f
    IN WriteBack(IF w.at = NoCursor THEN ReleaseCluster(w.v, w.f) ELSE ReleaseNext(w.v, w.at[1]),
                 [f EXCEPT !.entry.size = w.total])
=============================================================================
