----------------------------- MODULE MCServices -----------------------------
(* Values for the services: four threads of two processes at the lock, and *)
(* four tiles in a row, the last of another scene; a tile is 2 units wide. *)
EXTENDS Services, MCInterprocessLock

FourTiles == [t \in 1..4 |->
    [scene |-> IF t = 4 THEN "b" ELSE "a", col |-> t, row |-> 1, x |-> 2 * t - 1, y |-> 1]]

HalfAndQuarter == {<<50, 25>>}

(* InterprocessLock: a lock left by a dead process does not block a        *)
(* caller.  The threads, of two processes alike, are interchangeable: b1   *)
(* stands for each.                                                        *)
DeadLockIsTaken == DeadLockGoesFor(b1)

(* A request for a shared rendering returns (SingleFlight.do), and an      *)
(* event stream that its client does not leave ends (stream_job_events).   *)
(* The callers are interchangeable: 1 stands for each.                     *)
RequestsEnd == Calls!CallReturns(1) /\ Events!StreamEnds

=============================================================================
