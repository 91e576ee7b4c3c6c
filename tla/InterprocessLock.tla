-------------------------- MODULE InterprocessLock --------------------------
(***************************************************************************)
(* The lock under every durable JSON document of the backend:              *)
(* interprocess_lock and _lock_is_stale of services/jobs/store.py.         *)
(*                                                                         *)
(* A thread first takes the lock its own process keeps for the path, then  *)
(* creates the lock file with O_EXCL and writes its identity into it.  A   *)
(* file left by a dead process is removed by whoever finds it: the finding *)
(* and the removal are two steps, and the removal goes by the path alone.  *)
(* The other modules take a section under this lock as one step; this one  *)
(* says when they may.                                                     *)
(***************************************************************************)
EXTENDS Naturals

CONSTANTS
    Threads,       \* threads that use the lock
    Procs,         \* processes they belong to
    ProcOf,        \* Threads -> Procs
    NoThread,      \* nobody holds the lock of the process
    NoFile,        \* there is no lock file
    Prompt,        \* is a lock of a live process never 120 s old?
    Restarts,      \* is a dead process started again?
    MaxCrashes     \* bound on process crashes

ASSUME ThreadsAssumption ==
    /\ ProcOf \in [Threads -> Procs]
    /\ NoThread \notin Threads

ASSUME SwitchAssumption ==
    /\ Prompt \in BOOLEAN
    /\ Restarts \in BOOLEAN
    /\ MaxCrashes \in Nat

VARIABLES
    local,    \* who holds the in-process lock of the path
    file,     \* the lock file
    pc,       \* where a thread stands in interprocess_lock
    up,       \* is the process running?
    crashes   \* process crashes so far

vars == <<local, file, pc, up, crashes>>

(* alive: does the process incarnation that created the file still run?    *)
LockFile == [by: Threads, written: BOOLEAN, alive: BOOLEAN, old: BOOLEAN]

ASSUME FileAssumption == NoFile \notin LockFile

PC == {"idle", "try", "write", "held", "unlink", "break"}
Inside == {"held", "unlink"}

TypeOK ==
    /\ local \in [Procs -> Threads \union {NoThread}]
    /\ file \in LockFile \union {NoFile}
    /\ pc \in [Threads -> PC]
    /\ \A t \in Threads : pc[t] # "idle" => local[ProcOf[t]] = t
    /\ up \in [Procs -> BOOLEAN]
    /\ crashes \in 0..MaxCrashes

Init ==
    /\ local = [p \in Procs |-> NoThread]
    /\ file = NoFile
    /\ pc = [t \in Threads |-> "idle"]
    /\ up = [p \in Procs |-> TRUE]
    /\ crashes = 0

-----------------------------------------------------------------------------
Goto(t, place) == pc' = [pc EXCEPT ![t] = place]

(* The end of interprocess_lock, with or without the lock.                 *)
Return(t) ==
    /\ Goto(t, "idle")
    /\ local' = [local EXCEPT ![ProcOf[t]] = NoThread]

(* Mutant of Enter: the threads of a process do not exclude each other.    *)
EnterShared(t) ==
    /\ pc[t] = "idle"
    /\ up[ProcOf[t]]
    /\ local' = [local EXCEPT ![ProcOf[t]] = t]
    /\ Goto(t, "try")
    /\ UNCHANGED <<file, up, crashes>>

Enter(t) ==
    /\ pc[t] = "idle"
    /\ up[ProcOf[t]]
    /\ local[ProcOf[t]] = NoThread
    /\ local' = [local EXCEPT ![ProcOf[t]] = t]
    /\ Goto(t, "try")
    /\ UNCHANGED <<file, up, crashes>>

Create(t) ==
    /\ pc[t] = "try"
    /\ file = NoFile
    /\ file' = [by |-> t, written |-> FALSE, alive |-> TRUE, old |-> FALSE]
    /\ Goto(t, "write")
    /\ UNCHANGED <<local, up, crashes>>

IsMine(t) == file # NoFile /\ file.by = t /\ file.alive

(* The payload goes to the file that was opened, which may be gone.        *)
WriteOwner(t) ==
    /\ pc[t] = "write"
    /\ file' = IF IsMine(t) THEN [file EXCEPT !.written = TRUE] ELSE file
    /\ Goto(t, "held")
    /\ UNCHANGED <<local, up, crashes>>

(* The payload cannot be written: remove the path and raise.               *)
WriteFails(t) ==
    /\ pc[t] = "write"
    /\ file' = NoFile
    /\ Return(t)
    /\ UNCHANGED <<up, crashes>>

(* Mutants of Stale: the owner of a file without a payload counts as gone; *)
(* a lock is judged by its age alone.                                      *)
StaleUnwritten(f) == ~f.alive \/ ~f.written
StaleByAge(f) == f.old

(* A dead or recycled owner, or one that is unknown (nothing is written    *)
(* yet) in a file older than 120 s.                                        *)
Stale(f) == IF f.written THEN ~f.alive ELSE f.old

FindStale(t) ==
    /\ pc[t] = "try"
    /\ file # NoFile
    /\ Stale(file)
    /\ Goto(t, "break")
    /\ UNCHANGED <<local, file, up, crashes>>

BreakStale(t) ==
    /\ pc[t] = "break"
    /\ file' = NoFile
    /\ Goto(t, "try")
    /\ UNCHANGED <<local, up, crashes>>

(* Mutant of GiveUp: the section runs although the deadline passed.         *)
EnterAnyway(t) ==
    /\ pc[t] = "try"
    /\ file # NoFile
    /\ ~Stale(file)
    /\ Goto(t, "held")
    /\ UNCHANGED <<local, file, up, crashes>>

(* The deadline, or a caller that does not wait.                           *)
GiveUp(t) ==
    /\ pc[t] = "try"
    /\ file # NoFile
    /\ ~Stale(file)
    /\ Return(t)
    /\ UNCHANGED <<file, up, crashes>>

(* Release: read the token, and remove the path in a later step.           *)
Leave(t) ==
    /\ pc[t] = "held"
    /\ IF IsMine(t) THEN Goto(t, "unlink") /\ UNCHANGED local ELSE Return(t)
    /\ UNCHANGED <<file, up, crashes>>

Unlink(t) ==
    /\ pc[t] = "unlink"
    /\ file' = NoFile
    /\ Return(t)
    /\ UNCHANGED <<up, crashes>>

(* 120 seconds pass.                                                       *)
Age ==
    /\ file # NoFile
    /\ ~file.old
    /\ Prompt => ~file.alive
    /\ file' = [file EXCEPT !.old = TRUE]
    /\ UNCHANGED <<local, pc, up, crashes>>

Crash(p) ==
    /\ crashes < MaxCrashes
    /\ up[p]
    /\ crashes' = crashes + 1
    /\ up' = [up EXCEPT ![p] = Restarts]
    /\ local' = [local EXCEPT ![p] = NoThread]
    /\ pc' = [t \in Threads |-> IF ProcOf[t] = p THEN "idle" ELSE pc[t]]
    /\ file' = IF file # NoFile /\ ProcOf[file.by] = p
               THEN [file EXCEPT !.alive = FALSE] ELSE file

-----------------------------------------------------------------------------
Step(t) ==
    \/ Create(t) \/ WriteOwner(t) \/ FindStale(t) \/ BreakStale(t)
    \/ GiveUp(t) \/ Leave(t) \/ Unlink(t)

Next ==
    \/ \E t \in Threads : Enter(t) \/ Step(t) \/ WriteFails(t)
    \/ Age
    \/ \E p \in Procs : Crash(p)

Spec == Init /\ [][Next]_vars

(* A thread that is inside interprocess_lock keeps running, and the        *)
(* sections under the lock are finite.                                     *)
FairSpec == Spec /\ \A t \in Threads : WF_vars(Step(t))

-----------------------------------------------------------------------------
(* Properties.                                                             *)

(* At most one thread of all processes is inside the section the lock      *)
(* protects (interprocess_lock yields TRUE to one caller at a time).       *)
MutualExclusion ==
    \A t, u \in Threads : pc[t] \in Inside /\ pc[u] \in Inside => t = u

(* The lock file of a running process is removed by the thread that made   *)
(* it and by nobody else (_lock_is_stale, and the token compared on exit). *)
LiveLockStays ==
    [][file # NoFile /\ file.alive /\ file' = NoFile => pc'[file.by] # pc[file.by]]_vars

(* A lock left by a dead process does not block a caller: while it waits   *)
(* the file is taken away (the stale-lock recovery); for a thread t, and   *)
(* for every thread.                                                       *)
DeadLockGoesFor(t) ==
    (pc[t] = "try" /\ file # NoFile /\ ~file.alive /\ file.written)
        ~> (file = NoFile \/ file.alive \/ ~up[ProcOf[t]])

DeadLockGoes == \A t \in Threads : DeadLockGoesFor(t)

(* At most one thread at a time is between finding a stale file and        *)
(* removing it: nothing in the code enforces it across processes.          *)
SoleBreaker ==
    \A t, u \in Threads : pc[t] = "break" /\ pc[u] = "break" => t = u
=============================================================================
