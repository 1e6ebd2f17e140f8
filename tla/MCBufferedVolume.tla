-------------------------- MODULE MCBufferedVolume --------------------------
EXTENDS BufferedVolume, TLC

CONSTANTS t1, t2, h1, h2, h3, s1, s2, s3

\* The program as it is, one task (the shell) whose code keeps two refs at a time; and two
\* tasks, one of which keeps two refs, on a device that fails at will.
MCSettings ==
    {[owner |-> [h \in {h1, h2} |-> t1], values |-> {0, 1, 2}, cache |-> 2, faults |-> {}],
     [owner |-> (h1 :> t1) @@ (h2 :> t1) @@ (h3 :> t2), values |-> {0}, cache |-> 1,
      faults |-> {"read", "write"}]}

\* Nothing tells sectors apart, nor the two holders of a task.
Symmetry == Permutations({h1, h2}) \union Permutations({s1, s2, s3})
=============================================================================
