----------------------------- MODULE MCScheduler -----------------------------
(* Instances of Scheduler for TLC: workers at the top and at a lower level.  *)
EXTENDS SchedulerInv, TLC

CONSTANTS c1, c2, w1, w2, x, y

OneCpu == {c1}
TwoCpus == {c1, c2}
OneWorker == {w1}
TwoWorkers == {w1, w2}
OneChan == {x}
TwoChans == {x, y}

ShellAndConsole == (w1 :> 3) @@ (w2 :> 1)
OneConsole == w1 :> 3
TwoConsole == (w1 :> 3) @@ (w2 :> 3)
=============================================================================
