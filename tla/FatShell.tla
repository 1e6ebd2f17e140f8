------------------------------ MODULE FatShell -------------------------------
(***************************************************************************)
(* The file commands of shell.rs on a mounted FAT volume. The shell is the *)
(* only task that uses the volume, so a command is one step; its commit is *)
(* a commit of the buffered volume (BufferedVolume), which changes nothing *)
(* that is modelled here. Paths are given relative to the working          *)
(* directory, as Path::joined reads every path.                            *)
(***************************************************************************)
EXTENDS FatFs

CONSTANTS Sessions,  \* [commands, args, max, files]: the commands used, the paths they are given,
                     \* and bounds on the commands and on the files and directories
          Texts,     \* the texts write and append are given
          MaxDepth,  \* bound: the length of paths
          Formatted, \* the volume a behaviour starts from
          Truncating \* whether `write` may shorten a file to fewer clusters, but not to none

VARIABLES session, \* one of Sessions, does not change
          v,     \* the volume
          wd,    \* Context::wd
          tree,  \* what a reader of the volume sees: a function of v
          count  \* commands given
vars == <<session, v, wd, tree, count>>

\* Path::join, get_file and get_dir. The parts of a path that cannot be reached end at 0.
Joined(p) ==
    FoldLeft(LAMBDA acc, x : IF x # ".." THEN Append(acc, x) ELSE IF acc = <<>> THEN acc ELSE Front(acc),
             wd, p)
GetDir(path) == FoldLeft(LAMBDA d, x : IF d = 0 THEN 0 ELSE AsDir(Find(v, d, x)), Root, path)
FileIn(d, name) == IF d = 0 THEN NoFile ELSE Find(v, d, name)
GetFile(path) == IF path = <<>> THEN NoFile ELSE FileIn(GetDir(Front(path)), Last(path))

\* Every file of volume u with its path, and the tree they make: what `ls` and `read` show.
RECURSIVE PathsTo(_, _, _, _)
PathsTo(u, files, path, fuel) ==
    LET Below(f) == IF AsDir(f) = 0 \/ fuel = 0 THEN {}
                    ELSE PathsTo(u, Files(u, AsDir(f)), Append(path, f.name), fuel - 1)
    IN UNION {{[path |-> Append(path, f.name), file |-> f]} \cup Below(f) : f \in ToSet(files)}
Listing(u) == PathsTo(u, Files(u, Root), <<>>, MaxDepth)
TreeWith(u, all) ==
    LET FileOf(path) == (CHOOSE x \in all : x.path = path).file
        Node(f) == [dir |-> f.entry.dir, text |-> IF f.entry.dir THEN <<>> ELSE Contents(u, f)]
    IN [path \in {x.path : x \in all} |-> Node(FileOf(path))]
TreeOf(u) == TreeWith(u, Listing(u))

Init == session \in Sessions /\ v = Formatted /\ wd = <<>> /\ tree = TreeOf(v) /\ count = 0

Uses(command, path) == command \in session.commands /\ Len(path) <= MaxDepth /\ count < session.max
Shown == tree' = TreeOf(v') /\ count' = count + 1 /\ UNCHANGED session

\* The commands take the path they are given as Path::joined resolves it.
Cd(path) ==
    /\ Uses("cd", path) /\ GetDir(path) # 0
    /\ wd' = path /\ UNCHANGED v /\ Shown

Makes(command, path) == Uses(command, path) /\ path # <<>> /\ Cardinality(DOMAIN tree) < session.files
Touch(path) ==
    /\ Makes("touch", path)
    /\ \E d \in {GetDir(Front(path))} \ {0} : v' = CreateFile(v, d, Last(path)).v
    /\ UNCHANGED wd /\ Shown

Mkdir(path) ==
    /\ Makes("mkdir", path)
    /\ \E d \in {GetDir(Front(path))} \ {0} : v' = CreateDir(v, d, Last(path)).v
    /\ UNCHANGED wd /\ Shown

\* `write` and `append`: one write on the writer, which is then dropped, failed or not.
Keeps(f, text) == Len(text) > PerCluster * (Len(Chain(v, f.entry.cluster)) - 1)
WriteTo(path, text, append) ==
    /\ Uses(IF append THEN "append" ELSE "write", path)
    /\ \E f \in {GetFile(path)} \ {NoFile} :
          /\ ~f.entry.dir
          /\ append \/ Truncating \/ text = <<>> \/ Keeps(f, text)
          /\ v' = Close(WriteAll(IF append THEN Appender(v, f) ELSE Overwriter(v, f), text))
    /\ UNCHANGED wd /\ Shown

\* `rm` and `rmr`
Rm(path, recursive) ==
    /\ Uses("rm", path)
    /\ \E f \in {GetFile(path)} \ {NoFile} : v' = RemoveFile(v, f, recursive).v
    /\ UNCHANGED wd /\ Shown

\* `mv`: into a directory under the same name, or to a new name in a directory. A directory
\* is not moved into itself or below: mv does not look, and would cut it off.
Height(src) == Max({Len(x) - Len(src) : x \in {y \in DOMAIN tree : IsPrefix(src, y)}})
MvTo(src, dest) ==
    /\ Uses("mv", src)
    /\ \E f \in {GetFile(src)} \ {NoFile}, into \in {GetDir(dest) # 0} :
          /\ into \/ GetFile(dest) = NoFile
          /\ \E to \in {IF into THEN Append(dest, f.name) ELSE dest} :
                /\ ~IsStrictPrefix(src, to) /\ Len(to) + Height(src) <= MaxDepth
                /\ \E d \in {GetDir(Front(to))} \ {0} : v' = Mv(v, f, d, Last(to)).v
    /\ UNCHANGED wd /\ Shown

Next ==
    \E path \in {Joined(p) : p \in session.args} :
       \/ Cd(path)
       \/ Touch(path)
       \/ Mkdir(path)
       \/ \E text \in Texts, append \in BOOLEAN : WriteTo(path, text, append)
       \/ \E recursive \in BOOLEAN : Rm(path, recursive)
       \/ \E dest \in {Joined(p) : p \in session.args} : MvTo(path, dest)

Spec == Init /\ [][Next]_vars
-----------------------------------------------------------------------------
\* Every command changes one file or one subtree and nothing else: what touch, mkdir, write,
\* append, rm, rmr and mv do to FAT chains and directory slots is what FileTree says of
\* names and texts, with deleted slots reused, directories growing past a cluster and
\* clusters that still hold what their last owner wrote.
Tree == INSTANCE FileTree WITH AllPaths <- UNION {[1..n -> Names] : n \in 0..MaxDepth}
ImplementsFileTree == Tree!Spec

\* A text fits into the clusters its file has and those nobody has.
Fits(text, f) ==
    Len(text) <= PerCluster * (Len(Chain(v, f.entry.cluster)) + Cardinality({c \in Clusters : IsUnused(v.fat[c])}))

\* What a step of `write` or `append` does to the file it is given: its text is the new one,
\* or the old one and the new one, unless that does not fit; the file is then empty.
WritesExact ==
    \A path \in DOMAIN tree, text \in Texts, append \in BOOLEAN :
       WriteTo(path, text, append) =>
          LET whole == IF append THEN tree[path].text \o text ELSE text
          IN tree' = [tree EXCEPT ![path].text = IF Fits(whole, GetFile(path)) THEN whole ELSE <<>>]

\* The chains of everything a path leads to.
ChainsOf(all) == {<<x.path, Chain(v, x.file.entry.cluster)>> : x \in all} \cup {<<<<>>, Chain(v, Root)>>}

\* A cluster belongs to at most one file or directory, each chain ends in the end-of-chain
\* mark, and the clusters in use in the FAT are exactly those some path leads to: nothing is
\* lost, and nothing that release freed is still reachable.
ChainsSound ==
    \E chains \in {ChainsOf(Listing(v))} :
       /\ \A c \in Clusters : Cardinality({x \in chains : c \in ToSet(x[2])})
                              = (IF IsUnused(v.fat[c]) THEN 0 ELSE 1)
       /\ \A x \in chains : x[2] # <<>> => IsEoc(v.fat[Last(x[2])])

\* "the value of the FAT entry indicates the status of the corresponding cluster": a
\* cluster of a file or directory is not marked unused.
FatTellsStatus ==
    \A x \in ChainsOf(Listing(v)) : \A c \in ToSet(x[2]) : ~IsUnused(v.fat[c])
=============================================================================
