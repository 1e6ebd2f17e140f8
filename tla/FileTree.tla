------------------------------ MODULE FileTree -------------------------------
(***************************************************************************)
(* What the shell's file commands promise: a tree of named files and       *)
(* directories, and commands that each change one file or one subtree of   *)
(* it and nothing else. A path is a sequence of names, << >> the root.     *)
(***************************************************************************)
EXTENDS Sequences, SequencesExt

CONSTANTS AllPaths,  \* the paths there are names for
          Texts      \* what write and append may add

VARIABLES tree,  \* the paths that exist, each with [dir, text]
          wd     \* the working directory
vars == <<tree, wd>>

Directory == [dir |-> TRUE, text |-> <<>>]
IsDirectory(p) == p = <<>> \/ (p \in DOMAIN tree /\ tree[p].dir)
Under(p) == {q \in DOMAIN tree : IsPrefix(p, q)}
With(p, node) == [q \in DOMAIN tree \cup {p} |-> IF q = p THEN node ELSE tree[q]]

Init == tree = [p \in {} |-> Directory] /\ wd = <<>>

ChangeDir(p) == IsDirectory(p) /\ wd' = p /\ UNCHANGED tree

\* A file or directory appears in a directory, under a name nobody had there.
Create(p, node) ==
    /\ p # <<>> /\ p \notin DOMAIN tree /\ IsDirectory(Front(p))
    /\ tree' = With(p, node) /\ UNCHANGED wd

\* The file's text is replaced or extended; when the volume is full the file ends empty.
\* Which of these a command does is not said here (see WritesExact of FatShell).
Write(p, text) ==
    /\ p \in DOMAIN tree /\ ~tree[p].dir
    /\ tree' \in {With(p, [dir |-> FALSE, text |-> t]) : t \in {text, tree[p].text \o text, <<>>}}
    /\ UNCHANGED wd

Delete(p) ==
    /\ p \in DOMAIN tree
    /\ tree' = [q \in DOMAIN tree \ Under(p) |-> tree[q]]
    /\ UNCHANGED wd

\* p and all that is under it is found at q, which was free, with the same texts.
Move(p, q) ==
    /\ p \in DOMAIN tree /\ q # <<>> /\ q \notin DOMAIN tree /\ IsDirectory(Front(q)) /\ ~IsPrefix(p, q)
    /\ LET Back(r) == p \o SubSeq(r, Len(q) + 1, Len(r))
           moved == {q \o SubSeq(r, Len(p) + 1, Len(r)) : r \in Under(p)}
       IN tree' = [r \in (DOMAIN tree \ Under(p)) \cup moved |->
                      IF r \in moved THEN tree[Back(r)] ELSE tree[r]]
    /\ UNCHANGED wd

Next ==
    \E p \in AllPaths :
       \/ ChangeDir(p)
       \/ Create(p, Directory)
       \/ Create(p, [dir |-> FALSE, text |-> <<>>])
       \/ \E text \in Texts : Write(p, text)
       \/ Delete(p)
       \/ \E q \in AllPaths : Move(p, q)

Spec == Init /\ [][Next]_vars
=============================================================================
