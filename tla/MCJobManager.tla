---------------------------- MODULE MCJobManager ----------------------------
(* Model values and constant functions for the runs of JobManager: one or  *)
(* two jobs that compete for the single lease of the GPU class.            *)
EXTENDS JobManager, TLC

CONSTANTS j1, j2, Gpu, Key1

OneJob == {j1}
TwoJobs == {j1, j2}

GpuClass == [j \in Jobs |-> Gpu]
OneGpu == Gpu :> 1

(* With and without a dedupe key; with j2 of higher or of equal priority.  *)
NoKeys == [j \in Jobs |-> NoKey]
SameKey == [j \in Jobs |-> Key1]
MCPrio == [j \in Jobs |-> IF j = j1 THEN 1 ELSE 2]
EqualPrio == [j \in Jobs |-> 1]
=============================================================================
