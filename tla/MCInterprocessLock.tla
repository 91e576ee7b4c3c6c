------------------------- MODULE MCInterprocessLock -------------------------
(* Two threads of the backend and two of a worker process (its run loop    *)
(* and its heartbeat).                                                     *)
EXTENDS InterprocessLock, TLC

CONSTANTS b1, b2, w1, w2, backend, worker

FourThreads == {b1, b2, w1, w2}
TwoProcs == {backend, worker}
Placement == b1 :> backend @@ b2 :> backend @@ w1 :> worker @@ w2 :> worker
=============================================================================
