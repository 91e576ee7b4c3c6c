--------------------------- MODULE ServicesProofs ---------------------------
(***************************************************************************)
(* Proofs about the services that Services puts together, for every value  *)
(* of the constants: first the lock, the publication, the shared calls and *)
(* the event log each for itself, then the composition.  The proofs about  *)
(* EmbeddingIndex and DatasetSplits have modules of their own.             *)
(***************************************************************************)
EXTENDS Services, Sequences, FiniteSetTheorems, TLAPS

-----------------------------------------------------------------------------
\* The lock: mutual exclusion for any number of processes and threads.

(* A free lock is of its types.                                            *)
LEMMA InitLock == Init => TypeOK
  BY ThreadsAssumption, SwitchAssumption DEF Init, TypeOK, PC

(* Every step keeps the types.                                             *)
LEMMA StepLock == TypeOK /\ [Next]_vars => TypeOK'
<1> SUFFICES ASSUME TypeOK, [Next]_vars
             PROVE  TypeOK'
  OBVIOUS
<1> USE ThreadsAssumption, SwitchAssumption, FileAssumption
    DEF TypeOK, PC, LockFile, Goto, Return
<1>1. ASSUME NEW t \in Threads, Enter(t) PROVE TypeOK'
  BY <1>1 DEF Enter
<1>2. ASSUME NEW t \in Threads, Create(t) PROVE TypeOK'
  BY <1>2 DEF Create
<1>3. ASSUME NEW t \in Threads, WriteOwner(t) PROVE TypeOK'
  BY <1>3 DEF WriteOwner, IsMine
<1>4. ASSUME NEW t \in Threads, WriteFails(t) PROVE TypeOK'
  BY <1>4 DEF WriteFails
<1>5. ASSUME NEW t \in Threads, FindStale(t) PROVE TypeOK'
  BY <1>5 DEF FindStale
<1>6. ASSUME NEW t \in Threads, BreakStale(t) PROVE TypeOK'
  BY <1>6 DEF BreakStale
<1>7. ASSUME NEW t \in Threads, GiveUp(t) PROVE TypeOK'
  BY <1>7 DEF GiveUp
<1>8. ASSUME NEW t \in Threads, Leave(t) PROVE TypeOK'
  BY <1>8 DEF Leave
<1>9. ASSUME NEW t \in Threads, Unlink(t) PROVE TypeOK'
  BY <1>9 DEF Unlink
<1>10. CASE Age
  BY <1>10 DEF Age
<1>11. ASSUME NEW p \in Procs, Crash(p) PROVE TypeOK'
  <2>1. file' \in LockFile \union {NoFile}
    BY <1>11 DEF Crash
  <2>2. \A t \in Threads : pc'[t] # "idle" => local'[ProcOf[t]] = t
    BY <1>11 DEF Crash
  <2>3. /\ local' \in [Procs -> Threads \union {NoThread}]
        /\ pc' \in [Threads -> PC]
        /\ up' \in [Procs -> BOOLEAN]
        /\ crashes' \in 0..MaxCrashes
    BY <1>11 DEF Crash
  <2>4. QED
    BY <2>1, <2>2, <2>3
<1>12. CASE UNCHANGED vars
  BY <1>12 DEF vars
<1>13. QED
  BY <1>1, <1>2, <1>3, <1>4, <1>5, <1>6, <1>7, <1>8, <1>9, <1>10, <1>11, <1>12
     DEF Next, Step

(* The lock never confuses the states of its threads.                      *)
THEOREM LockTyped == Spec => []TypeOK
  BY InitLock, StepLock, PTL DEF Spec

-----------------------------------------------------------------------------
(* A thread past O_EXCL owns the file at the path, and a thread about to   *)
(* remove a stale file still finds that dead file there.                   *)
Owned ==
    /\ \A t \in Threads : pc[t] \in {"write"} \union Inside => IsMine(t)
    /\ \A t \in Threads : pc[t] \in Inside => file.written
    /\ \A t \in Threads : pc[t] = "break" => file # NoFile /\ ~file.alive
    /\ file # NoFile /\ file.alive => ~file.old

(* A free lock is nobody's.                                                *)
LEMMA InitOwned == Init => Owned
  BY DEF Init, Owned, Inside

(* A file of which a mark changes is a file that keeps its other fields.   *)
LEMMA MarkedFile ==
  ASSUME NEW f \in LockFile
  PROVE  /\ \A g \in {[f EXCEPT !.written = TRUE], [f EXCEPT !.alive = FALSE],
                      [f EXCEPT !.old = TRUE]} : g \in LockFile /\ g # NoFile /\ g.by = f.by
         /\ [f EXCEPT !.written = TRUE].written
         /\ [f EXCEPT !.written = TRUE].alive = f.alive
         /\ [f EXCEPT !.written = TRUE].old = f.old
         /\ ~[f EXCEPT !.alive = FALSE].alive
         /\ [f EXCEPT !.alive = FALSE].written = f.written
         /\ [f EXCEPT !.alive = FALSE].old = f.old
         /\ [f EXCEPT !.old = TRUE].written = f.written
         /\ [f EXCEPT !.old = TRUE].alive = f.alive
<1>1. [f EXCEPT !.written = TRUE] \in LockFile
  BY DEF LockFile
<1>2. [f EXCEPT !.alive = FALSE] \in LockFile
  BY DEF LockFile
<1>3. [f EXCEPT !.old = TRUE] \in LockFile
  BY DEF LockFile
<1>4. QED
  BY <1>1, <1>2, <1>3, FileAssumption DEF LockFile

(* Every step keeps the ownership, when a stale file has one breaker.      *)
LEMMA StepOwned ==
  ASSUME Prompt, TypeOK, SoleBreaker, Owned, [Next]_vars
  PROVE  Owned'
<1> USE ThreadsAssumption, FileAssumption
    DEF TypeOK, PC, LockFile, Owned, Inside, IsMine, Goto, Return
<1>1. ASSUME NEW t \in Threads, Enter(t) PROVE Owned'
  BY <1>1 DEF Enter
<1>2. ASSUME NEW t \in Threads, Create(t) PROVE Owned'
  <2>1. /\ file' = [by |-> t, written |-> FALSE, alive |-> TRUE, old |-> FALSE]
        /\ file' # NoFile
        /\ pc' = [pc EXCEPT ![t] = "write"]
    <3>1. [by |-> t, written |-> FALSE, alive |-> TRUE, old |-> FALSE] \in LockFile
      OBVIOUS
    <3>2. QED
      BY <1>2, <3>1 DEF Create
  <2>2. \A u \in Threads : pc[u] \notin {"write", "held", "unlink", "break"}
    BY <1>2 DEF Create
  <2>3. QED
    BY <2>1, <2>2
<1>3. ASSUME NEW t \in Threads, WriteOwner(t) PROVE Owned'
  <2>1. pc[t] = "write" /\ IsMine(t) /\ file \in LockFile
    BY <1>3 DEF WriteOwner
  <2>2. /\ file' \in LockFile /\ file' # NoFile /\ file'.written
        /\ file'.by = file.by /\ file'.alive = file.alive /\ file'.old = file.old
    <3>1. file' = [file EXCEPT !.written = TRUE]
      BY <1>3, <2>1 DEF WriteOwner
    <3> HIDE DEF LockFile
    <3>2. QED
      BY <2>1, <3>1, MarkedFile
  <2>3. \A u \in Threads : pc'[u] = IF u = t THEN "held" ELSE pc[u]
    BY <1>3 DEF WriteOwner
  <2>4. \A u \in Threads : pc'[u] \in {"write"} \union Inside => IsMine(u)'
    BY <2>1, <2>2, <2>3
  <2>5. \A u \in Threads : pc'[u] = "break" => FALSE
    BY <2>1, <2>3
  <2>6. QED
    BY <2>1, <2>2, <2>4, <2>5
<1>4. ASSUME NEW t \in Threads, WriteFails(t) PROVE Owned'
  BY <1>4 DEF WriteFails
<1>5. ASSUME NEW t \in Threads, FindStale(t) PROVE Owned'
  BY <1>5 DEF FindStale, Stale
<1>6. ASSUME NEW t \in Threads, BreakStale(t) PROVE Owned'
  BY <1>6 DEF BreakStale, SoleBreaker
<1>7. ASSUME NEW t \in Threads, GiveUp(t) PROVE Owned'
  BY <1>7 DEF GiveUp
<1>8. ASSUME NEW t \in Threads, Leave(t) PROVE Owned'
  BY <1>8 DEF Leave
<1>9. ASSUME NEW t \in Threads, Unlink(t) PROVE Owned'
  BY <1>9 DEF Unlink
<1>10. CASE Age
  <2>1. /\ file # NoFile /\ ~file.alive
        /\ file' = [file EXCEPT !.old = TRUE]
        /\ file' # NoFile
        /\ UNCHANGED pc
    <3> HIDE DEF LockFile
    <3>1. /\ file # NoFile /\ ~file.alive
          /\ file' = [file EXCEPT !.old = TRUE]
          /\ UNCHANGED pc
      BY <1>10, Prompt DEF Age
    <3>2. QED
      BY <3>1, MarkedFile
  <2>2. QED
    BY <2>1
<1>11. ASSUME NEW p \in Procs, Crash(p) PROVE Owned'
  <2>1. \A t \in Threads : pc'[t] = IF ProcOf[t] = p THEN "idle" ELSE pc[t]
    BY <1>11 DEF Crash
  <2>2. CASE file # NoFile /\ ProcOf[file.by] = p
    <3>1. file \in LockFile /\ file' = [file EXCEPT !.alive = FALSE]
      BY <1>11, <2>2 DEF Crash
    <3>2. file' # NoFile /\ ~file'.alive
      <4> HIDE DEF LockFile
      <4>1. QED
        BY <3>1, MarkedFile
    <3>3. \A t \in Threads : pc'[t] \notin {"write"} \union Inside
      BY <2>1, <2>2
    <3>4. QED
      BY <3>2, <3>3
  <2>3. CASE ~(file # NoFile /\ ProcOf[file.by] = p)
    <3>1. file' = file
      BY <1>11, <2>3 DEF Crash
    <3>2. QED
      BY <2>1, <3>1
  <2>4. QED
    BY <2>2, <2>3
<1>12. CASE UNCHANGED vars
  BY <1>12 DEF vars
<1>13. QED
  BY <1>1, <1>2, <1>3, <1>4, <1>5, <1>6, <1>7, <1>8, <1>9, <1>10, <1>11, <1>12
     DEF Next, Step

(* The file has one owner, so one thread is inside.                        *)
LEMMA OwnedExcludes == TypeOK /\ Owned => MutualExclusion
  BY DEF TypeOK, Owned, MutualExclusion, IsMine, Inside

(* Whatever crashes, the lock excludes as long as no two threads are ever  *)
(* between finding and removing a stale file: the race of two breakers is  *)
(* the only way in (interprocess_lock, the unlink by path).                *)
THEOREM ExclusionUnlessTwoBreak ==
  ASSUME Prompt
  PROVE  Spec /\ []SoleBreaker => []MutualExclusion
<1>1. TypeOK /\ SoleBreaker /\ Owned /\ [Next]_vars => Owned'
  BY StepOwned
<1>2. QED
  BY <1>1, InitLock, StepLock, InitOwned, OwnedExcludes, PTL DEF Spec

(* Without crashes nothing is ever stale.                                  *)
NothingStale ==
    /\ \A t \in Threads : pc[t] # "break"
    /\ file # NoFile => file.alive

(* Between processes that do not die the lock is a mutual exclusion lock.  *)
THEOREM ExclusionWithoutCrashes ==
  ASSUME Prompt, MaxCrashes = 0
  PROVE  Spec => []MutualExclusion
<1>1. Init => NothingStale
  BY DEF Init, NothingStale
<1>2. TypeOK /\ Owned /\ NothingStale /\ [Next]_vars => NothingStale'
  <2> SUFFICES ASSUME TypeOK, Owned, NothingStale, [Next]_vars
               PROVE  NothingStale'
    OBVIOUS
  <2> USE FileAssumption DEF NothingStale, TypeOK, LockFile, Goto, Return
  <2>1. ASSUME NEW t \in Threads, Enter(t) \/ Create(t) \/ WriteOwner(t) \/ WriteFails(t)
        PROVE  NothingStale'
    <3>1. CASE Enter(t) \/ WriteFails(t)
      BY <3>1 DEF Enter, WriteFails
    <3>2. CASE Create(t)
      BY <3>2 DEF Create
    <3>3. CASE WriteOwner(t)
      <4>1. \A u \in Threads : pc'[u] # "break"
        BY <3>3 DEF WriteOwner
      <4>2. file' # NoFile => file'.alive
        <5>1. CASE file' = file
          BY <5>1
        <5>2. CASE file # NoFile /\ file' = [file EXCEPT !.written = TRUE]
          BY <5>2
        <5>3. QED
          BY <3>3, <5>1, <5>2 DEF WriteOwner, IsMine
      <4>3. QED
        BY <4>1, <4>2
    <3>4. QED
      BY <2>1, <3>1, <3>2, <3>3
  <2>2. ASSUME NEW t \in Threads, FindStale(t) PROVE NothingStale'
    BY <2>2 DEF FindStale, Stale, Owned
  <2>3. ASSUME NEW t \in Threads, BreakStale(t) \/ GiveUp(t) \/ Leave(t) \/ Unlink(t)
        PROVE  NothingStale'
    BY <2>3 DEF BreakStale, GiveUp, Leave, Unlink
  <2>4. CASE Age
    BY <2>4 DEF Age
  <2>5. ASSUME NEW p \in Procs, Crash(p) PROVE NothingStale'
    BY <2>5, SwitchAssumption DEF Crash
  <2>6. CASE UNCHANGED vars
    BY <2>6 DEF vars
  <2>7. QED
    BY <2>1, <2>2, <2>3, <2>4, <2>5, <2>6 DEF Next, Step
<1>3. NothingStale => SoleBreaker
  BY DEF NothingStale, SoleBreaker
<1>4. TypeOK /\ SoleBreaker /\ Owned /\ [Next]_vars => Owned'
  BY StepOwned
<1>5. QED
  BY <1>1, <1>2, <1>3, <1>4, InitLock, StepLock, InitOwned, OwnedExcludes, PTL DEF Spec

-----------------------------------------------------------------------------
(* The file of a running thread is removed by that thread alone, under the *)
(* condition of ExclusionUnlessTwoBreak: whoever breaks a stale lock, or   *)
(* leaves, compares what it is about to remove (_lock_is_stale, and the    *)
(* token compared on exit).                                                *)
THEOREM LiveLocksStay ==
  ASSUME Prompt
  PROVE  Spec /\ []SoleBreaker => LiveLockStays
<1>1. TypeOK /\ SoleBreaker /\ Owned /\ [Next]_vars => Owned'
  BY StepOwned
<1>2. TypeOK /\ Owned /\ [Next]_vars =>
        [file # NoFile /\ file.alive /\ file' = NoFile => pc'[file.by] # pc[file.by]]_vars
  <2> SUFFICES ASSUME TypeOK, Owned, Next, file # NoFile, file.alive, file' = NoFile
               PROVE  pc'[file.by] # pc[file.by]
    OBVIOUS
  <2> USE FileAssumption DEF TypeOK, PC, LockFile, Owned, Inside, IsMine, Goto, Return
  <2>1. ASSUME NEW t \in Threads, Enter(t) \/ FindStale(t) \/ GiveUp(t) \/ Leave(t)
        PROVE  FALSE
    BY <2>1 DEF Enter, FindStale, GiveUp, Leave
  <2>2. ASSUME NEW t \in Threads, Create(t) \/ WriteOwner(t) PROVE FALSE
    <3>1. CASE Create(t)
      BY <3>1 DEF Create
    <3>2. CASE WriteOwner(t)
      <4>1. [file EXCEPT !.written = TRUE] \in LockFile
        OBVIOUS
      <4>2. QED
        BY <3>2, <4>1 DEF WriteOwner
    <3>3. QED
      BY <2>2, <3>1, <3>2
  <2>3. ASSUME NEW t \in Threads, BreakStale(t) PROVE FALSE
    BY <2>3 DEF BreakStale
  <2>4. ASSUME NEW t \in Threads, WriteFails(t) \/ Unlink(t)
        PROVE  pc'[file.by] # pc[file.by]
    BY <2>4 DEF WriteFails, Unlink
  <2>5. CASE Age
    BY <2>5, Prompt DEF Age
  <2>6. ASSUME NEW p \in Procs, Crash(p) PROVE FALSE
    <3>1. file \in LockFile /\ [file EXCEPT !.alive = FALSE] \in LockFile
      OBVIOUS
    <3>2. QED
      BY <2>6, <3>1 DEF Crash
  <2>7. QED
    BY <2>1, <2>2, <2>3, <2>4, <2>5, <2>6 DEF Next, Step
<1>3. QED
  BY <1>1, <1>2, InitLock, StepLock, InitOwned, PTL DEF Spec, LiveLockStays

-----------------------------------------------------------------------------
(* Without restarts a process that left a file behind stays down, and      *)
(* nobody runs in a process that is down.                                  *)
DeadStayDown ==
    /\ \A t \in Threads : pc[t] # "idle" => up[ProcOf[t]]
    /\ file # NoFile /\ ~file.alive => ~up[ProcOf[file.by]]

(* Of two processes one is down when there is something to break, and the  *)
(* threads of the other exclude each other.                                *)
LEMMA TwoProcsBreak ==
  ASSUME NEW p \in Procs, NEW q \in Procs, Procs = {p, q}, TypeOK, Owned, DeadStayDown
  PROVE  SoleBreaker
<1>1. SUFFICES ASSUME NEW t \in Threads, NEW u \in Threads, pc[t] = "break", pc[u] = "break"
               PROVE  t = u
  BY DEF SoleBreaker
<1>2. file \in LockFile /\ ~file.alive /\ file # NoFile
  BY <1>1 DEF Owned, TypeOK
<1>3. file.by \in Threads
  BY <1>2 DEF LockFile
<1>4. ~up[ProcOf[file.by]] /\ up[ProcOf[t]] /\ up[ProcOf[u]]
  BY <1>1, <1>2 DEF DeadStayDown
<1>5. ProcOf[t] = ProcOf[u]
  BY <1>3, <1>4, ThreadsAssumption
<1>6. QED
  BY <1>1, <1>5 DEF TypeOK

(* A crash is the only way for a file to lose its process.                 *)
LEMMA StepDown ==
  ASSUME ~Restarts, TypeOK, DeadStayDown, [Next]_vars
  PROVE  DeadStayDown'
<1> USE ThreadsAssumption, FileAssumption
    DEF TypeOK, PC, LockFile, DeadStayDown, Goto, Return
<1>1. ASSUME NEW t \in Threads, Enter(t) \/ FindStale(t) \/ GiveUp(t) \/ Leave(t)
      PROVE  DeadStayDown'
  BY <1>1 DEF Enter, FindStale, GiveUp, Leave
<1>2. ASSUME NEW t \in Threads, Create(t) PROVE DeadStayDown'
  BY <1>2 DEF Create
<1>3. ASSUME NEW t \in Threads, WriteOwner(t) PROVE DeadStayDown'
  <2>1. UNCHANGED up /\ \A u \in Threads : pc'[u] # "idle" => pc[u] # "idle"
    BY <1>3 DEF WriteOwner
  <2>2. file' = file \/ (file # NoFile /\ file' = [file EXCEPT !.written = TRUE])
    BY <1>3 DEF WriteOwner, IsMine
  <2>3. file' # NoFile => file # NoFile /\ file'.alive = file.alive /\ file'.by = file.by
    BY <2>2
  <2>4. QED
    BY <2>1, <2>3
<1>4. ASSUME NEW t \in Threads, BreakStale(t) \/ WriteFails(t) \/ Unlink(t)
      PROVE  DeadStayDown'
  BY <1>4 DEF BreakStale, WriteFails, Unlink
<1>5. CASE Age
  BY <1>5 DEF Age
<1>6. ASSUME NEW p \in Procs, Crash(p) PROVE DeadStayDown'
  <2>1. up' = [up EXCEPT ![p] = FALSE]
    BY <1>6, SwitchAssumption DEF Crash
  <2>2. \A t \in Threads : pc'[t] # "idle" => up'[ProcOf[t]]
    BY <1>6, <2>1 DEF Crash
  <2>3. CASE file # NoFile /\ ProcOf[file.by] = p
    <3>1. file' = [file EXCEPT !.alive = FALSE]
      BY <1>6, <2>3 DEF Crash
    <3>2. file'.by = file.by
      BY <2>3, <3>1
    <3>3. QED
      BY <2>1, <2>2, <2>3, <3>2
  <2>4. CASE ~(file # NoFile /\ ProcOf[file.by] = p)
    <3>1. UNCHANGED file
      BY <1>6, <2>4 DEF Crash
    <3>2. QED
      BY <2>1, <2>2, <2>4, <3>1
  <2>5. QED
    BY <2>3, <2>4
<1>7. CASE UNCHANGED vars
  BY <1>7 DEF vars
<1>8. QED
  BY <1>1, <1>2, <1>3, <1>4, <1>5, <1>6, <1>7 DEF Next, Step

(* The race of two breakers takes a third process or a restarted one: two  *)
(* processes, either of which may die, exclude each other.                 *)
THEOREM TwoProcessesExclude ==
  ASSUME Prompt, ~Restarts, NEW p \in Procs, NEW q \in Procs, Procs = {p, q}
  PROVE  Spec => []MutualExclusion /\ LiveLockStays
<1>1. Init => DeadStayDown
  BY DEF Init, DeadStayDown
<1>2. TypeOK /\ DeadStayDown /\ [Next]_vars => DeadStayDown'
  BY StepDown
<1>3. TypeOK /\ Owned /\ DeadStayDown => SoleBreaker
  BY TwoProcsBreak
<1>4. TypeOK /\ SoleBreaker /\ Owned /\ [Next]_vars => Owned'
  BY StepOwned
<1>5. Spec => []SoleBreaker
  BY <1>1, <1>2, <1>3, <1>4, InitLock, StepLock, InitOwned, PTL DEF Spec
<1>6. Spec /\ []SoleBreaker => []MutualExclusion
  BY ExclusionUnlessTwoBreak
<1>7. Spec /\ []SoleBreaker => LiveLockStays
  BY LiveLocksStay
<1>8. QED
  BY <1>5, <1>6, <1>7, PTL

-----------------------------------------------------------------------------
\* FullresPublication, for any number of views, sources, jobs and kills.

(* The newest source that a build has begun with: what the worker reads    *)
(* while there is one, else the present one.  It never goes back, though   *)
(* a worker may save an old source over a relink.                          *)
PubFront == IF pubWpc = "idle" THEN pubSource ELSE pubBuilt

(* What a file may be once a record of that source waits for it.           *)
PubOfFront == {Pub!NoCog, PubFront}

PubActivating == {"artifact", "manifest", "scene", "activate"}

(* Nothing is newer than the front, and the front no newer than the        *)
(* source; a worker that activates has checked that they are the same, and *)
(* one that builds has recorded no step.                                   *)
PubBounded ==
    /\ PubFront \in 1..pubSource
    /\ pubRecord.source <= PubFront /\ pubMine.source <= PubFront
    /\ \A s \in Pub!Sources : pubJob[s] = "queued" => s <= PubFront
    /\ \A v \in Views : pubCopy[v].source <= PubFront
    /\ pubWpc # "idle" => pubMine.source \in Pub!Sources /\ pubJob[pubMine.source] = "running"
    /\ pubWpc \in {"unlink", "move", "artifact", "manifest"} => pubSeen = pubBuilt
    /\ pubWpc \in {"build", "decode", "validated"} => pubMine.steps = {}

(* The candidate of a live worker is what it built, until a view takes it. *)
PubBuiltFits ==
    /\ pubWpc = "decode" => pubCandidate = Pub!NoCog
    /\ pubWpc \in {"validated", "check", "unlink", "move"} \union PubActivating
         => pubCandidate \in PubOfFront
    /\ pubWpc \in PubActivating => pubActive \in PubOfFront

(* A view that resumes has the copy of a candidate record.                 *)
PubCopiesWait ==
    \A v \in Views : pubVpc[v] \in {"look", "unlink", "move"} \union PubActivating =>
        pubCopy[v].state = "candidate"

(* From the first candidate record of the front on, the candidate is of    *)
(* the front or gone.                                                      *)
PubCandidateFits ==
    /\ pubRecord.source = PubFront /\ pubRecord.state \in {"candidate", "active"}
         => pubCandidate \in PubOfFront
    /\ \A v \in Views : pubCopy[v].source = PubFront /\ pubCopy[v].state = "candidate"
                          => pubCandidate \in PubOfFront

(* From the move on, so is the published file.                             *)
PubActiveFits ==
    \/ pubVanished
    \/ /\ (/\ pubRecord.source = PubFront
           /\ \/ pubRecord.state = "active"
              \/ pubRecord.state = "candidate" /\ "artifact" \in pubRecord.steps)
             => pubActive \in PubOfFront
       /\ \A v \in Views : pubCopy[v].source = PubFront /\ pubVpc[v] \in PubActivating
              => pubActive \in PubOfFront

(* Where a view would look for the file, there is none of an older source. *)
PubLookFits ==
    \/ pubVanished
    \/ pubCandidate # Pub!NoCog
    \/ pubActive \in PubOfFront
    \/ /\ ~(pubRecord.source = PubFront /\ pubRecord.state = "candidate")
       /\ \A v \in Views : ~(pubCopy[v].source = PubFront /\ pubVpc[v] = "look")

(* The inductive invariant.                                                *)
PublicationInv == /\ Pub!TypeOK /\ PubBounded /\ PubBuiltFits /\ PubCopiesWait
                  /\ PubCandidateFits /\ PubActiveFits /\ PubLookFits

(* The blank record waits for nothing.                                     *)
LEMMA PubBlankRecord ==
    ASSUME PubMaxSource \in Nat
    PROVE  /\ Pub!NoRecord \in Pub!Record /\ Pub!NoRecord.state = "none"
           /\ Pub!NoRecord.source = 0 /\ Pub!NoRecord.steps = {}
  BY DEF Pub!NoRecord, Pub!Record, Pub!States, Pub!Steps, Pub!Files, Pub!NoCog

(* It holds before the first build.                                        *)
LEMMA InitPublication == ASSUME PublicationBounds, Pub!Init PROVE PublicationInv
<1>1. Pub!TypeOK
  <2>1. Pub!NoRecord \in Pub!Record
    BY PubBlankRecord DEF PublicationBounds
  <2>2. pubJob \in [Pub!Sources -> {"none", "queued", "running", "failed", "done"}]
    BY DEF Pub!Init
  <2>3. pubSource \in Pub!Sources /\ {Pub!NoCog} \subseteq Pub!Files
    BY DEF PublicationBounds, Pub!Init, Pub!Sources, Pub!Files
  <2>4. pubJobs \in 0..PubMaxJobs /\ pubKills \in 0..PubMaxKills
    BY DEF PublicationBounds, Pub!Init
  <2> QED
    BY <2>1, <2>2, <2>3, <2>4 DEF Pub!Init, Pub!TypeOK
<1>2. PubBounded
  BY DEF Pub!Init, PubBounded, PubFront, Pub!NoRecord, Pub!NoCog
<1>3. PubBuiltFits /\ PubCopiesWait /\ PubCandidateFits /\ PubActiveFits /\ PubLookFits
  BY DEF Pub!Init, PubBuiltFits, PubCopiesWait, PubCandidateFits, PubActiveFits,
      PubLookFits, PubFront, PubOfFront, PubActivating, Pub!NoRecord, Pub!NoCog
<1> QED
  BY <1>1, <1>2, <1>3 DEF PublicationInv

(* A record that is marked or changes its state is a record of the same    *)
(* source.                                                                 *)
LEMMA PubRecordKept ==
    ASSUME NEW r \in Pub!Record
    PROVE  /\ \A step \in Pub!Steps :
                  /\ Pub!Marked(r, step) \in Pub!Record
                  /\ Pub!Marked(r, step).source = r.source
           /\ \A state \in Pub!States :
                  /\ Pub!InState(r, state) \in Pub!Record
                  /\ Pub!InState(r, state).source = r.source
                  /\ Pub!InState(r, state).steps = r.steps
  BY DEF Pub!Record, Pub!Marked, Pub!InState

(* The sources of the records are numbers.                                 *)
LEMMA PubSourcesAreNumbers ==
    ASSUME PublicationBounds, Pub!TypeOK
    PROVE  /\ pubSource \in Nat /\ pubRecord.source \in Nat /\ pubMine.source \in Nat
           /\ \A v \in Views : pubCopy[v].source \in Nat
  BY DEF PublicationBounds, Pub!TypeOK, Pub!Record, Pub!Files, Pub!Sources, Pub!NoCog

(* The removal of a candidate or of a waiting record keeps the history a   *)
(* Boolean.                                                                *)
LEMMA PubRemovalTyped ==
    ASSUME pubVanished \in BOOLEAN
    PROVE  /\ Pub!DropCandidate => pubCandidate' = Pub!NoCog /\ pubVanished' \in BOOLEAN
           /\ \A r : Pub!RecordWithout(r) => pubRecord' = r /\ pubVanished' \in BOOLEAN
  BY DEF Pub!DropCandidate, Pub!RecordWithout

(* Types and bounds are kept: the steps of the worker.                     *)
LEMMA PubWorkerTyped ==
    ASSUME PublicationBounds, Pub!TypeOK, PubBounded,
           \/ Pub!StartBuild \/ Pub!ClearCandidate \/ Pub!BuildCandidate
           \/ Pub!RecordCandidate \/ Pub!CheckSource \/ Pub!UnlinkOld
           \/ Pub!MoveCandidate \/ Pub!RecordArtifact \/ Pub!PublishManifest
           \/ Pub!PublishScene \/ Pub!RecordActive \/ Pub!RemoveBuilt
           \/ Pub!RecordFailed \/ Pub!Report
    PROVE  (Pub!TypeOK /\ PubBounded)'
<1>1. /\ \A step \in {"artifact", "manifest", "scene"} :
             /\ Pub!Marked(pubMine, step) \in Pub!Record
             /\ Pub!Marked(pubMine, step).source = pubMine.source
      /\ \A state \in {"candidate", "active", "failed"} :
             /\ Pub!InState(pubMine, state) \in Pub!Record
             /\ Pub!InState(pubMine, state).source = pubMine.source
             /\ Pub!InState(pubMine, state).steps = pubMine.steps
  BY PubRecordKept DEF Pub!TypeOK, Pub!Steps, Pub!States
<1>2. /\ Pub!DropCandidate => pubCandidate' = Pub!NoCog /\ pubVanished' \in BOOLEAN
      /\ \A r : Pub!RecordWithout(r) => pubRecord' = r /\ pubVanished' \in BOOLEAN
  BY PubRemovalTyped DEF Pub!TypeOK
<1>3. Pub!NoRecord \in Pub!Record /\ Pub!NoRecord.source = 0
  BY PubBlankRecord DEF PublicationBounds
<1> USE DEF PubBounded, PubFront, PublicationBounds, Pub!TypeOK, Pub!Files, Pub!Sources,
        Pub!NoCog, Pub!files, Pub!workerVars, Pub!views, Pub!workerFrame
<1>4. CASE Pub!StartBuild
  <2> PICK s \in Pub!Sources :
             /\ pubJob[s] = "queued"
             /\ pubJob' = [pubJob EXCEPT ![s] = "running"]
             /\ pubMine' = [state |-> "building", steps |-> {}, source |-> s]
             /\ Pub!RecordWithout(pubMine')
    BY <1>4 DEF Pub!StartBuild
  <2>1. pubMine' \in Pub!Record /\ pubMine'.source = s /\ pubMine'.steps = {}
    BY DEF Pub!Record, Pub!States
  <2>2. Pub!TypeOK'
    BY <1>2, <1>4, <2>1 DEF Pub!StartBuild
  <2>3. PubBounded'
    BY <1>2, <1>4, <2>1 DEF Pub!StartBuild
  <2> QED
    BY <2>2, <2>3
<1>5. CASE Pub!ClearCandidate
  BY <1>2, <1>5 DEF Pub!ClearCandidate
<1>6. CASE Pub!BuildCandidate
  BY <1>6 DEF Pub!BuildCandidate
<1>7. CASE Pub!RecordCandidate
  BY <1>1, <1>7 DEF Pub!RecordCandidate
<1>8. CASE Pub!CheckSource
  BY <1>8 DEF Pub!CheckSource, Pub!MayActivate
<1>9. CASE Pub!UnlinkOld
  BY <1>9 DEF Pub!UnlinkOld
<1>10. CASE Pub!MoveCandidate
  BY <1>10 DEF Pub!MoveCandidate
<1>11. CASE Pub!RecordArtifact
  BY <1>1, <1>11 DEF Pub!RecordArtifact, Pub!RecordStep
<1>12. CASE Pub!PublishManifest
  BY <1>1, <1>12 DEF Pub!PublishManifest, Pub!RecordStep
<1>13. CASE Pub!PublishScene
  BY <1>1, <1>13 DEF Pub!PublishScene, Pub!RecordStep
<1>14. CASE Pub!RecordActive
  BY <1>1, <1>14 DEF Pub!RecordActive
<1>15. CASE Pub!RemoveBuilt
  BY <1>2, <1>15 DEF Pub!RemoveBuilt
<1>16. CASE Pub!RecordFailed
  BY <1>1, <1>2, <1>16 DEF Pub!RecordFailed
<1>17. CASE Pub!Report
  <2>1. Pub!TypeOK'
    BY <1>3, <1>17 DEF Pub!Report, Pub!WorkerEnds
  <2>2. PubBounded'
    BY <1>3, <1>17, PubSourcesAreNumbers DEF Pub!Report, Pub!WorkerEnds
  <2> QED
    BY <2>1, <2>2
<1> QED
  BY <1>4, <1>5, <1>6, <1>7, <1>8, <1>9, <1>10, <1>11, <1>12, <1>13, <1>14, <1>15, <1>16, <1>17

(* Types and bounds are kept: relinks, submissions, faults and restarts.   *)
LEMMA PubOtherTyped ==
    ASSUME PublicationBounds, Pub!TypeOK, PubBounded,
           \/ Pub!Relink \/ Pub!SubmitJob \/ Pub!WorkerRaises
           \/ Pub!KillWorker \/ Pub!RestartBackend
    PROVE  (Pub!TypeOK /\ PubBounded)'
<1>1. Pub!NoRecord \in Pub!Record /\ Pub!NoRecord.source = 0
  BY PubBlankRecord DEF PublicationBounds
<1> USE DEF PubBounded, PubFront, PublicationBounds, Pub!TypeOK, Pub!Files, Pub!Sources,
        Pub!NoCog, Pub!files, Pub!workerVars, Pub!views
<1>2. CASE Pub!Relink
  <2>1. Pub!TypeOK'
    BY <1>2 DEF Pub!Relink
  <2>2. PubBounded'
    BY <1>2, PubSourcesAreNumbers DEF Pub!Relink
  <2> QED
    BY <2>1, <2>2
<1>3. CASE Pub!SubmitJob
  <2>1. pubWpc = "idle"
    BY <1>3 DEF Pub!SubmitJob
  <2>2. Pub!TypeOK'
    BY <1>3 DEF Pub!SubmitJob
  <2>3. PubBounded'
    BY <1>3, <2>1 DEF Pub!SubmitJob
  <2> QED
    BY <2>2, <2>3
<1>4. CASE Pub!WorkerRaises
  <2>1. /\ pubMine' \in Pub!Record /\ pubMine'.source = pubMine.source
        /\ pubWpc \in {"build", "decode", "validated"} => pubMine'.steps = pubMine.steps
    BY <1>4, PubRecordKept DEF Pub!WorkerRaises, Pub!Steps, Pub!States
  <2>2. pubWpc # "idle" /\ pubWpc' \in {"fail", "cleanup"}
    BY <1>4 DEF Pub!WorkerRaises
  <2>3. UNCHANGED <<pubSource, Pub!files, pubReady, pubJob, pubJobs, pubKills, pubBuilt,
                    pubSeen, Pub!views, pubVanished>>
    BY <1>4 DEF Pub!WorkerRaises, Pub!workerFrame
  <2>4. Pub!TypeOK'
    BY <2>1, <2>2, <2>3
  <2>5. PubBounded'
    BY <2>1, <2>2, <2>3
  <2> QED
    BY <2>4, <2>5
<1>5. CASE Pub!KillWorker
  <2>1. Pub!TypeOK'
    BY <1>1, <1>5 DEF Pub!KillWorker, Pub!WorkerEnds
  <2>2. PubBounded'
    BY <1>1, <1>5, PubSourcesAreNumbers DEF Pub!KillWorker, Pub!WorkerEnds
  <2> QED
    BY <2>1, <2>2
<1>6. CASE Pub!RestartBackend
  BY <1>1, <1>6 DEF Pub!RestartBackend
<1> QED
  BY <1>2, <1>3, <1>4, <1>5, <1>6

(* Types and bounds are kept: the steps of a view.                         *)
LEMMA PubViewTyped ==
    ASSUME PublicationBounds, Pub!TypeOK, PubBounded, NEW v \in Views,
           \/ Pub!AskView(v) \/ Pub!ReadLegacy(v) \/ Pub!SweepCandidate(v)
           \/ Pub!SweepActive(v) \/ Pub!SweepRecord(v) \/ Pub!ReadRecord(v)
           \/ Pub!ViewLooks(v) \/ Pub!ViewUnlinks(v) \/ Pub!ViewMoves(v)
           \/ Pub!ViewRecordsArtifact(v) \/ Pub!ViewPublishesManifest(v)
           \/ Pub!ViewPublishesScene(v) \/ Pub!ViewActivates(v)
           \/ Pub!Serve(v) \/ Pub!ReadJobs(v) \/ Pub!ReadPublication(v)
           \/ Pub!ViewRemovesCandidate(v) \/ Pub!ViewRecordsFailed(v)
    PROVE  (Pub!TypeOK /\ PubBounded)'
<1>1. /\ pubCopy[v] \in Pub!Record
      /\ \A step \in {"artifact", "manifest", "scene"} :
             /\ Pub!Marked(pubCopy[v], step) \in Pub!Record
             /\ Pub!Marked(pubCopy[v], step).source = pubCopy[v].source
      /\ \A state \in {"active", "failed"} :
             /\ Pub!InState(pubCopy[v], state) \in Pub!Record
             /\ Pub!InState(pubCopy[v], state).source = pubCopy[v].source
  <2>1. pubCopy[v] \in Pub!Record
    BY DEF Pub!TypeOK
  <2> QED
    BY <2>1, PubRecordKept DEF Pub!Steps, Pub!States
<1>2. /\ Pub!DropCandidate => pubCandidate' = Pub!NoCog /\ pubVanished' \in BOOLEAN
      /\ \A r : Pub!RecordWithout(r) => pubRecord' = r /\ pubVanished' \in BOOLEAN
  BY PubRemovalTyped DEF Pub!TypeOK
<1>3. Pub!NoRecord \in Pub!Record /\ Pub!NoRecord.source = 0
  BY PubBlankRecord DEF PublicationBounds
<1> USE DEF PubBounded, PubFront, PublicationBounds, Pub!TypeOK, Pub!Files, Pub!Sources,
        Pub!NoCog, Pub!ViewTo, Pub!files, Pub!workerVars, Pub!viewFrame
<1>4. CASE Pub!AskView(v)
  BY <1>4 DEF Pub!AskView
<1>5. CASE Pub!ReadLegacy(v)
  <2>1. /\ \E place \in {"sweep", "record"} : pubVpc' = [pubVpc EXCEPT ![v] = place]
        /\ UNCHANGED <<pubSource, Pub!files, pubReady, pubAsked, pubCopy, pubEnded,
                       Pub!viewFrame, pubVanished>>
    BY <1>5 DEF Pub!ReadLegacy
  <2>2. Pub!TypeOK'
    BY <2>1
  <2>3. PubBounded'
    BY <2>1
  <2> QED
    BY <2>2, <2>3
<1>6. CASE Pub!SweepCandidate(v)
  BY <1>2, <1>6 DEF Pub!SweepCandidate
<1>7. CASE Pub!SweepActive(v)
  BY <1>7 DEF Pub!SweepActive
<1>8. CASE Pub!SweepRecord(v)
  BY <1>2, <1>3, <1>8 DEF Pub!SweepRecord
<1>9. CASE Pub!ReadRecord(v)
  BY <1>9 DEF Pub!ReadRecord
<1>10. CASE Pub!ViewLooks(v)
  BY <1>10 DEF Pub!ViewLooks
<1>11. CASE Pub!ViewUnlinks(v)
  BY <1>11 DEF Pub!ViewUnlinks
<1>12. CASE Pub!ViewMoves(v)
  BY <1>12 DEF Pub!ViewMoves
<1>13. CASE Pub!ViewRecordsArtifact(v)
  BY <1>1, <1>13 DEF Pub!ViewRecordsArtifact, Pub!ViewRecords
<1>14. CASE Pub!ViewPublishesManifest(v)
  <2>1. CASE pubActive = Pub!NoCog
    BY <1>14, <2>1 DEF Pub!ViewPublishesManifest
  <2>2. CASE pubActive # Pub!NoCog
    <3>1. /\ pubCopy' = [pubCopy EXCEPT ![v] = Pub!Marked(pubCopy[v], "manifest")]
          /\ pubRecord' = Pub!Marked(pubCopy[v], "manifest")
          /\ pubVpc' = [pubVpc EXCEPT ![v] = "scene"]
          /\ UNCHANGED <<pubSource, pubCandidate, pubActive, pubReady, pubAsked, pubEnded,
                         Pub!viewFrame, pubVanished>>
      BY <1>14, <2>2 DEF Pub!ViewPublishesManifest, Pub!ViewRecords
    <3>2. Pub!TypeOK'
      BY <1>1, <3>1
    <3>3. PubBounded'
      BY <1>1, <3>1
    <3> QED
      BY <3>2, <3>3
  <2> QED
    BY <2>1, <2>2
<1>15. CASE Pub!ViewPublishesScene(v)
  BY <1>1, <1>15 DEF Pub!ViewPublishesScene, Pub!ViewRecords
<1>16. CASE Pub!ViewActivates(v)
  <2>1. pubVanished' \in BOOLEAN
    BY <1>16 DEF Pub!ViewActivates
  <2> QED
    BY <1>1, <1>16, <2>1 DEF Pub!ViewActivates, Pub!ViewRecords
<1>17. CASE Pub!Serve(v)
  BY <1>17 DEF Pub!Serve
<1>18. CASE Pub!ReadJobs(v)
  BY <1>18 DEF Pub!ReadJobs
<1>19. CASE Pub!ReadPublication(v)
  <2>1. CASE Pub!LeftOver(v)
    <3>1. /\ pubCopy' = [pubCopy EXCEPT ![v] = pubRecord]
          /\ pubVpc' = [pubVpc EXCEPT ![v] = "cleanup"]
          /\ UNCHANGED <<pubSource, Pub!files, pubReady, pubAsked, pubEnded, Pub!viewFrame,
                         pubVanished>>
      BY <1>19, <2>1 DEF Pub!ReadPublication
    <3>2. Pub!TypeOK'
      BY <3>1
    <3>3. PubBounded'
      BY <3>1
    <3> QED
      BY <3>2, <3>3
  <2>2. CASE ~Pub!LeftOver(v)
    <3>1. /\ pubCopy' = [pubCopy EXCEPT ![v] = Pub!NoRecord]
          /\ pubVpc' = [pubVpc EXCEPT ![v] = "idle"]
          /\ pubAsked' = [pubAsked EXCEPT ![v] = Pub!NoCog]
          /\ pubEnded' = [pubEnded EXCEPT ![v] = FALSE]
          /\ UNCHANGED <<pubSource, Pub!files, pubReady, Pub!viewFrame, pubVanished>>
      BY <1>19, <2>2 DEF Pub!ReadPublication, Pub!ViewEnds
    <3>2. Pub!TypeOK'
      BY <1>3, <3>1
    <3>3. PubBounded'
      BY <1>3, <3>1
    <3> QED
      BY <3>2, <3>3
  <2> QED
    BY <2>1, <2>2
<1>20. CASE Pub!ViewRemovesCandidate(v)
  BY <1>2, <1>20 DEF Pub!ViewRemovesCandidate
<1>21. CASE Pub!ViewRecordsFailed(v)
  BY <1>1, <1>2, <1>3, <1>21 DEF Pub!ViewRecordsFailed, Pub!ViewEnds
<1> QED
  BY <1>4, <1>5, <1>6, <1>7, <1>8, <1>9, <1>10, <1>11, <1>12, <1>13, <1>14, <1>15, <1>16, <1>17,
     <1>18, <1>19, <1>20, <1>21

(* Types and bounds are kept: all steps.                                   *)
LEMMA PubStepTyped ==
    ASSUME PublicationBounds, Pub!TypeOK, PubBounded, [Pub!Next]_(Pub!vars)
    PROVE  (Pub!TypeOK /\ PubBounded)'
<1>1. CASE UNCHANGED Pub!vars
  BY <1>1 DEF Pub!vars, Pub!files, Pub!workerVars, Pub!views, Pub!TypeOK, PubBounded, PubFront
<1>2. CASE Pub!Next
  BY <1>2, PubWorkerTyped, PubOtherTyped, PubViewTyped DEF Pub!Next, Pub!WorkerStep, Pub!ViewStep
<1> QED
  BY <1>1, <1>2

(* A view that keeps or drops a record it will not resume touches no file. *)
LEMMA PubViewForgets ==
    ASSUME PublicationBounds, PublicationInv, NEW v \in Views,
              NEW r \in {Pub!NoRecord, pubRecord}, NEW place,
           place \in {"idle", "cleanup"},
           pubCopy' = [pubCopy EXCEPT ![v] = r], pubVpc' = [pubVpc EXCEPT ![v] = place],
           UNCHANGED <<pubSource, pubRecord, pubCandidate, pubActive, pubWpc, pubBuilt,
              pubVanished>>
    PROVE  (PubBuiltFits /\ PubCopiesWait /\ PubCandidateFits /\ PubActiveFits /\ PubLookFits)'
<1>1. /\ pubSource \in Nat /\ PubFront \in 1..pubSource /\ PubFront' = PubFront
  BY DEF PublicationInv, Pub!TypeOK, PubBounded, PublicationBounds, PubFront, Pub!Sources
<1>2. /\ pubVpc'[v] = place /\ pubCopy'[v] = r
      /\ \A w \in Views : w # v => pubVpc'[w] = pubVpc[w] /\ pubCopy'[w] = pubCopy[w]
  BY DEF PublicationInv, Pub!TypeOK
<1>3. r = pubRecord \/ (r.state = "none" /\ r.source = 0)
  BY PubBlankRecord DEF PublicationBounds
<1>4. PubBuiltFits' /\ PubCopiesWait'
  BY <1>1, <1>2 DEF PublicationInv, PubBuiltFits, PubCopiesWait, PubOfFront, PubActivating
<1>5. PubCandidateFits'
  BY <1>1, <1>2, <1>3 DEF PublicationInv, PubCandidateFits, PubOfFront
<1>6. PubActiveFits'
  BY <1>1, <1>2 DEF PublicationInv, PubActiveFits, PubOfFront, PubActivating
<1>7. PubLookFits'
  BY <1>1, <1>2 DEF PublicationInv, PubLookFits, PubOfFront
<1> QED
  BY <1>4, <1>5, <1>6, <1>7

(* When the worker is gone the front is the source: no record is of it, or *)
(* it is where it was.                                                     *)
LEMMA PubWorkerGone ==
    ASSUME PublicationBounds, PublicationInv, pubWpc' = "idle",
           UNCHANGED <<pubSource, pubRecord, pubCandidate, pubActive, pubCopy, pubVpc, pubVanished>>
    PROVE  (PubBuiltFits /\ PubCopiesWait /\ PubCandidateFits /\ PubActiveFits /\ PubLookFits)'
<1>1. /\ pubSource \in Nat /\ PubFront \in 1..pubSource /\ PubFront' = pubSource
      /\ pubRecord.source \in Nat /\ pubRecord.source <= PubFront
      /\ \A v \in Views : pubCopy[v].source \in Nat /\ pubCopy[v].source <= PubFront
  BY DEF PublicationInv, Pub!TypeOK, PubBounded, PublicationBounds, PubFront, Pub!Sources,
      Pub!Files, Pub!NoCog, Pub!Record
<1>2. /\ pubRecord.source = PubFront' => PubFront' = PubFront
      /\ \A v \in Views : pubCopy[v].source = PubFront' => PubFront' = PubFront
  BY <1>1
<1>3. PubBuiltFits' /\ PubCopiesWait'
  BY DEF PublicationInv, PubBuiltFits, PubCopiesWait, PubActivating
<1>4. PubCandidateFits'
  BY <1>2 DEF PublicationInv, PubCandidateFits, PubOfFront
<1>5. PubActiveFits'
  BY <1>2 DEF PublicationInv, PubActiveFits, PubOfFront
<1>6. PubLookFits'
  <2> SUFFICES ASSUME ~pubVanished, pubCandidate = Pub!NoCog, ~(pubActive \in PubOfFront'),
                      \/ pubRecord.source = PubFront' /\ pubRecord.state = "candidate"
                      \/ \E v \in Views : pubCopy[v].source = PubFront' /\ pubVpc[v] = "look"
               PROVE  FALSE
    BY DEF PubLookFits
  <2>1. PubFront' = PubFront /\ PubOfFront' = PubOfFront
    BY <1>2 DEF PubOfFront
  <2> QED
    BY <2>1 DEF PublicationInv, PubLookFits
<1> QED
  BY <1>3, <1>4, <1>5, <1>6

(* A candidate that goes leaves no view to an older file, or the history   *)
(* says so.                                                                *)
LEMMA PubCandidateGoes ==
    ASSUME PublicationInv, Pub!DropCandidate, PubFront' = PubFront,
           UNCHANGED <<pubRecord, pubActive, pubCopy>>,
           pubWpc' \in {pubWpc, "fail"},
           \A w \in Views : pubVpc'[w] \in {pubVpc[w], "sweepActive", "fail"}
    PROVE  (PubBuiltFits /\ PubCopiesWait /\ PubCandidateFits /\ PubActiveFits /\ PubLookFits)'
<1>1. pubCandidate' = Pub!NoCog /\ PubOfFront' = PubOfFront /\ Pub!NoCog \in PubOfFront
  BY DEF Pub!DropCandidate, PubOfFront
<1>2. ~pubVanished' =>
          /\ ~pubVanished
          /\ \/ pubCandidate = Pub!NoCog
             \/ pubActive = Pub!NoCog
             \/ pubRecord.state # "candidate" /\ ~Pub!Looking
  BY DEF Pub!DropCandidate
<1>3. PubBuiltFits'
  BY <1>1 DEF PublicationInv, PubBuiltFits, PubActivating
<1>4. PubCopiesWait'
  BY DEF PublicationInv, PubCopiesWait, PubActivating
<1>5. PubCandidateFits'
  BY <1>1 DEF PubCandidateFits
<1>6. PubActiveFits'
  BY <1>1, <1>2 DEF PublicationInv, PubActiveFits, PubActivating
<1>7. PubLookFits'
  BY <1>1, <1>2 DEF PublicationInv, PubLookFits, Pub!Looking
<1> QED
  BY <1>3, <1>4, <1>5, <1>6, <1>7

(* The files fit: the steps of the worker.                                 *)
LEMMA PubWorkerFiles ==
    ASSUME PublicationBounds, PublicationInv, Pub!TypeOK', PubBounded',
           \/ Pub!StartBuild \/ Pub!ClearCandidate \/ Pub!BuildCandidate
           \/ Pub!RecordCandidate \/ Pub!CheckSource \/ Pub!UnlinkOld
           \/ Pub!MoveCandidate \/ Pub!RecordArtifact \/ Pub!PublishManifest
           \/ Pub!PublishScene \/ Pub!RecordActive \/ Pub!RemoveBuilt
           \/ Pub!RecordFailed \/ Pub!Report
    PROVE  (PubBuiltFits /\ PubCopiesWait /\ PubCandidateFits /\ PubActiveFits /\ PubLookFits)'
<1> USE DEF PublicationInv, PubBuiltFits, PubCopiesWait, PubCandidateFits, PubActiveFits,
        PubLookFits, PubOfFront, PubActivating, PubBounded, PubFront, PublicationBounds,
        Pub!TypeOK, Pub!Record, Pub!NoRecord, Pub!Files, Pub!Sources, Pub!NoCog, Pub!States,
        Pub!Steps, Pub!Marked, Pub!InState, Pub!DropCandidate, Pub!RecordWithout, Pub!Resuming, Pub!Looking, Pub!ViewTo, Pub!files,
        Pub!workerVars, Pub!views, Pub!workerFrame, Pub!viewFrame
<1>1. CASE Pub!StartBuild
  BY <1>1 DEF Pub!StartBuild
<1>2. CASE Pub!ClearCandidate
  BY <1>2 DEF Pub!ClearCandidate
<1>3. CASE Pub!BuildCandidate
  BY <1>3 DEF Pub!BuildCandidate
<1>4. CASE Pub!RecordCandidate
  <2>1. CASE pubCandidate = Pub!NoCog
    BY <1>4, <2>1 DEF Pub!RecordCandidate
  <2>2. CASE ~(pubCandidate = Pub!NoCog)
    <3>1. PubBuiltFits'
      BY <1>4, <2>2 DEF Pub!RecordCandidate
    <3>2. PubCopiesWait'
      BY <1>4, <2>2 DEF Pub!RecordCandidate
    <3>3. PubCandidateFits'
      BY <1>4, <2>2 DEF Pub!RecordCandidate
    <3>4. PubActiveFits'
      <4>1. /\ pubRecord' = Pub!InState(pubMine, "candidate") /\ pubMine.steps = {}
            /\ UNCHANGED <<pubSource, pubActive, pubBuilt, pubCopy, pubVpc, pubVanished>>
            /\ pubWpc # "idle" /\ pubWpc' # "idle"
        BY <1>4, <2>2 DEF Pub!RecordCandidate
      <4>2. pubRecord'.steps = {} /\ pubRecord'.state = "candidate"
        BY <4>1
      <4> QED
        BY ONLY <4>1, <4>2, PublicationInv
           DEF PublicationInv, PubActiveFits, PubOfFront, PubFront
    <3>5. PubLookFits'
      BY <1>4, <2>2 DEF Pub!RecordCandidate
    <3> QED
      BY <3>1, <3>2, <3>3, <3>4, <3>5
  <2> QED
    BY <2>1, <2>2
<1>5. CASE Pub!CheckSource
  BY <1>5 DEF Pub!CheckSource, Pub!MayActivate
<1>6. CASE Pub!UnlinkOld
  BY <1>6 DEF Pub!UnlinkOld
<1>7. CASE Pub!MoveCandidate
  BY <1>7 DEF Pub!MoveCandidate
<1>8. CASE Pub!RecordArtifact
  BY <1>8 DEF Pub!RecordArtifact, Pub!RecordStep
<1>9. CASE Pub!PublishManifest
  BY <1>9 DEF Pub!PublishManifest, Pub!RecordStep
<1>10. CASE Pub!PublishScene
  BY <1>10 DEF Pub!PublishScene, Pub!RecordStep
<1>11. CASE Pub!RecordActive
  BY <1>11 DEF Pub!RecordActive
<1>12. CASE Pub!RemoveBuilt
  <2>1. CASE "artifact" \in pubMine.steps
    BY <1>12, <2>1 DEF Pub!RemoveBuilt
  <2>2. CASE ~("artifact" \in pubMine.steps)
    BY ONLY <1>12, <2>2, PublicationInv, PubCandidateGoes
       DEF Pub!RemoveBuilt, Pub!workerFrame, Pub!views, PubFront
  <2> QED
    BY <2>1, <2>2
<1>13. CASE Pub!RecordFailed
  <2>1. CASE pubMine.state = "active"
    BY <1>13, <2>1 DEF Pub!RecordFailed
  <2>2. CASE pubMine.state # "active"
    <3>1. /\ pubRecord' = Pub!InState(pubMine, "failed")
          /\ pubVanished' = (pubVanished /\ Pub!Resuming)
          /\ UNCHANGED <<pubSource, pubCandidate, pubActive, pubBuilt, pubCopy, pubVpc>>
          /\ pubWpc = "fail" /\ pubWpc' = "raised"
      BY ONLY <1>13, <2>2
         DEF Pub!RecordFailed, Pub!RecordWithout, Pub!workerFrame, Pub!views
    <3>2. pubRecord'.state = "failed"
      BY <3>1
    <3>3. pubVanished' \/ (\A v \in Views : pubVpc[v] \notin PubActivating \union {"look"})
                      \/ ~pubVanished
      BY <3>1
    <3>4. PubBuiltFits' /\ PubCopiesWait' /\ PubCandidateFits'
      BY ONLY <3>1, <3>2, PublicationInv
         DEF PublicationInv, PubBuiltFits, PubCopiesWait, PubCandidateFits, PubOfFront,
             PubFront, PubActivating
    <3>5. PubActiveFits'
      BY ONLY <3>1, <3>2, <3>3, PublicationInv
         DEF PublicationInv, PubActiveFits, PubOfFront, PubFront
    <3>6. PubLookFits'
      BY ONLY <3>1, <3>2, <3>3, PublicationInv
         DEF PublicationInv, PubLookFits, PubOfFront, PubFront
    <3> QED
      BY <3>4, <3>5, <3>6
  <2> QED
    BY <2>1, <2>2
<1>14. CASE Pub!Report
  BY <1>14, PubWorkerGone DEF Pub!Report, Pub!WorkerEnds
<1> QED
  BY <1>1, <1>2, <1>3, <1>4, <1>5, <1>6, <1>7, <1>8, <1>9, <1>10, <1>11, <1>12, <1>13, <1>14

(* The files fit: relinks, submissions, faults and restarts.               *)
LEMMA PubOtherFiles ==
    ASSUME PublicationBounds, PublicationInv, Pub!TypeOK', PubBounded',
           \/ Pub!Relink \/ Pub!SubmitJob \/ Pub!WorkerRaises
           \/ Pub!KillWorker \/ Pub!RestartBackend
    PROVE  (PubBuiltFits /\ PubCopiesWait /\ PubCandidateFits /\ PubActiveFits /\ PubLookFits)'
<1> USE DEF PublicationInv, PubBuiltFits, PubCopiesWait, PubCandidateFits, PubActiveFits,
        PubLookFits, PubOfFront, PubActivating, PubBounded, PubFront, PublicationBounds,
        Pub!TypeOK, Pub!Record, Pub!NoRecord, Pub!Files, Pub!Sources, Pub!NoCog, Pub!States,
        Pub!Steps, Pub!Marked, Pub!InState, Pub!DropCandidate, Pub!RecordWithout, Pub!Resuming, Pub!Looking, Pub!ViewTo, Pub!files,
        Pub!workerVars, Pub!views, Pub!workerFrame, Pub!viewFrame
<1>1. CASE Pub!Relink
  BY <1>1 DEF Pub!Relink
<1>2. CASE Pub!SubmitJob
  BY <1>2 DEF Pub!SubmitJob
<1>3. CASE Pub!WorkerRaises
  BY <1>3 DEF Pub!WorkerRaises
<1>4. CASE Pub!KillWorker
  BY <1>4, PubWorkerGone DEF Pub!KillWorker, Pub!WorkerEnds
<1>5. CASE Pub!RestartBackend
  BY <1>5 DEF Pub!RestartBackend
<1> QED
  BY <1>1, <1>2, <1>3, <1>4, <1>5

(* A view that records a step of the activation says what it knew.         *)
LEMMA PubViewMarks ==
    ASSUME PublicationBounds, PublicationInv, NEW v \in Views, NEW step \in Pub!Steps,
              NEW place \in PubActivating,
           pubVpc[v] \in PubActivating, pubVpc' = [pubVpc EXCEPT ![v] = place],
           pubCopy' = [pubCopy EXCEPT ![v] = Pub!Marked(pubCopy[v], step)],
              pubRecord' = Pub!Marked(pubCopy[v], step),
           UNCHANGED <<pubSource, pubCandidate, pubActive, pubWpc, pubBuilt, pubVanished>>
    PROVE  (PubBuiltFits /\ PubCopiesWait /\ PubCandidateFits /\ PubActiveFits /\ PubLookFits)'
<1>1. /\ PubFront' = PubFront /\ PubOfFront' = PubOfFront
      /\ pubCopy[v] \in Pub!Record /\ pubCopy[v].state = "candidate"
  BY DEF PublicationInv, Pub!TypeOK, PubCopiesWait, PubFront, PubOfFront
<1>2. /\ pubRecord'.source = pubCopy[v].source /\ pubRecord'.state = "candidate"
  BY <1>1 DEF Pub!Marked, Pub!Record
<1>3. /\ pubVpc'[v] = place /\ pubCopy'[v] = pubRecord'
      /\ \A w \in Views : w # v => pubVpc'[w] = pubVpc[w] /\ pubCopy'[w] = pubCopy[w]
  BY DEF PublicationInv, Pub!TypeOK
<1>4. place # "look"
  BY DEF PubActivating
<1>5. PubBuiltFits'
  BY <1>1 DEF PublicationInv, PubBuiltFits
<1>6. PubCopiesWait'
  BY <1>2, <1>3 DEF PublicationInv, PubCopiesWait
<1>7. PubCandidateFits'
  BY <1>1, <1>2, <1>3 DEF PublicationInv, PubCandidateFits
<1>8. pubCopy[v].source = PubFront => pubVanished \/ pubActive \in PubOfFront
  BY DEF PublicationInv, PubActiveFits
<1>9. PubActiveFits'
  <2>1. pubVanished' \/ (pubRecord'.source = PubFront' => pubActive' \in PubOfFront')
    BY <1>1, <1>2, <1>8
  <2>2. pubVanished' \/ \A w \in Views :
            pubCopy'[w].source = PubFront' /\ pubVpc'[w] \in PubActivating
                 => pubActive' \in PubOfFront'
    BY <1>1, <1>2, <1>3, <1>8 DEF PublicationInv, PubActiveFits
  <2> QED
    BY <2>1, <2>2 DEF PubActiveFits
<1>10. PubLookFits'
  BY <1>1, <1>2, <1>3, <1>4, <1>8 DEF PublicationInv, PubLookFits
<1> QED
  BY <1>5, <1>6, <1>7, <1>9, <1>10

(* The files fit: the steps of a view.                                     *)
LEMMA PubViewFiles ==
    ASSUME PublicationBounds, PublicationInv, Pub!TypeOK', PubBounded', NEW v \in Views,
           \/ Pub!AskView(v) \/ Pub!ReadLegacy(v) \/ Pub!SweepCandidate(v)
           \/ Pub!SweepActive(v) \/ Pub!SweepRecord(v) \/ Pub!ReadRecord(v) \/ Pub!ViewLooks(v)
           \/ Pub!ViewUnlinks(v) \/ Pub!ViewMoves(v) \/ Pub!ViewRecordsArtifact(v)
           \/ Pub!ViewPublishesManifest(v) \/ Pub!ViewPublishesScene(v) \/ Pub!ViewActivates(v)
           \/ Pub!Serve(v) \/ Pub!ReadJobs(v) \/ Pub!ReadPublication(v)
           \/ Pub!ViewRemovesCandidate(v) \/ Pub!ViewRecordsFailed(v)
    PROVE  (PubBuiltFits /\ PubCopiesWait /\ PubCandidateFits /\ PubActiveFits /\ PubLookFits)'
<1> USE DEF PublicationInv, PubBuiltFits, PubCopiesWait, PubCandidateFits, PubActiveFits,
        PubLookFits, PubOfFront, PubActivating, PubBounded, PubFront, PublicationBounds,
        Pub!TypeOK, Pub!Record, Pub!NoRecord, Pub!Files, Pub!Sources, Pub!NoCog, Pub!States,
        Pub!Steps, Pub!Marked, Pub!InState, Pub!DropCandidate, Pub!RecordWithout, Pub!Resuming, Pub!Looking, Pub!ViewTo, Pub!files,
        Pub!workerVars, Pub!views, Pub!workerFrame, Pub!viewFrame
<1>1. CASE Pub!AskView(v)
  BY <1>1 DEF Pub!AskView
<1>2. CASE Pub!ReadRecord(v)
  <2>1. CASE Pub!Resumable(v)
    <3>1. /\ pubCopy' = [pubCopy EXCEPT ![v] = pubRecord] /\ pubRecord.state = "candidate"
          /\ pubVpc' = [pubVpc EXCEPT ![v] =
                        IF "artifact" \in pubRecord.steps THEN "manifest" ELSE "look"]
          /\ UNCHANGED <<pubSource, Pub!files, Pub!workerVars, pubVanished>>
      BY <1>2, <2>1 DEF Pub!ReadRecord, Pub!Resumable
    <3>2. PubBuiltFits'
      BY <3>1
    <3>3. PubCopiesWait'
      BY <3>1
    <3>4. PubCandidateFits'
      BY <3>1
    <3>5. PubActiveFits'
      BY <3>1
    <3>6. PubLookFits'
      BY <3>1
    <3> QED
      BY <3>2, <3>3, <3>4, <3>5, <3>6
  <2>2. CASE ~(Pub!Resumable(v))
    BY <1>2, <2>2 DEF Pub!ReadRecord, Pub!Resumable
  <2> QED
    BY <2>1, <2>2
<1>3. CASE Pub!ViewLooks(v)
  BY <1>3 DEF Pub!ViewLooks
<1>4. CASE Pub!ViewUnlinks(v)
  BY <1>4 DEF Pub!ViewUnlinks
<1>5. CASE Pub!ViewMoves(v)
  BY <1>5 DEF Pub!ViewMoves
<1>6. CASE Pub!ViewRecordsArtifact(v)
  <2>1. pubVpc[v] \in PubActivating /\ "artifact" \in Pub!Steps /\ "manifest" \in PubActivating
    BY <1>6 DEF Pub!ViewRecordsArtifact
  <2> QED
    BY ONLY <1>6, <2>1, PublicationBounds, PublicationInv, v \in Views, PubViewMarks
       DEF Pub!ViewRecordsArtifact, Pub!ViewRecords, Pub!ViewTo, Pub!viewFrame, Pub!workerVars
<1>7. CASE Pub!ViewPublishesManifest(v)
  <2>1. CASE pubActive = Pub!NoCog
    BY <1>7, <2>1 DEF Pub!ViewPublishesManifest
  <2>2. CASE pubActive # Pub!NoCog
    <3>1. pubVpc[v] \in PubActivating /\ "manifest" \in Pub!Steps /\ "scene" \in PubActivating
      BY <1>7 DEF Pub!ViewPublishesManifest
    <3> QED
      BY ONLY <1>7, <2>2, <3>1, PublicationBounds, PublicationInv, v \in Views, PubViewMarks
         DEF Pub!ViewPublishesManifest, Pub!ViewRecords, Pub!ViewTo, Pub!viewFrame, Pub!workerVars
  <2> QED
    BY <2>1, <2>2
<1>8. CASE Pub!ViewPublishesScene(v)
  <2>1. pubVpc[v] \in PubActivating /\ "scene" \in Pub!Steps /\ "activate" \in PubActivating
    BY <1>8 DEF Pub!ViewPublishesScene
  <2> QED
    BY ONLY <1>8, <2>1, PublicationBounds, PublicationInv, v \in Views, PubViewMarks
       DEF Pub!ViewPublishesScene, Pub!ViewRecords, Pub!ViewTo, Pub!viewFrame, Pub!workerVars
<1>9. CASE Pub!ViewActivates(v)
  <2>1. PubBuiltFits'
    BY <1>9 DEF Pub!ViewActivates, Pub!ViewRecords
  <2>2. PubCopiesWait'
    BY <1>9 DEF Pub!ViewActivates, Pub!ViewRecords
  <2>3. PubCandidateFits'
    BY <1>9 DEF Pub!ViewActivates, Pub!ViewRecords
  <2>4. PubActiveFits'
    BY <1>9 DEF Pub!ViewActivates, Pub!ViewRecords
  <2>5. PubLookFits'
    <3>1. /\ pubRecord'.state = "active" /\ PubFront' = PubFront /\ pubActive' = pubActive
          /\ \A w \in Views : pubVpc'[w] = "look" => pubVpc[w] = "look" /\ pubCopy'[w] = pubCopy[w]
      BY <1>9 DEF Pub!ViewActivates, Pub!ViewRecords
    <3>6. pubVanished' = (\/ pubVanished
                          \/ /\ pubCandidate # Pub!NoCog /\ pubActive # Pub!NoCog
                             /\ Pub!Looking)
      BY ONLY <1>9 DEF Pub!ViewActivates
    <3>2. CASE Pub!Looking /\ pubCandidate # Pub!NoCog /\ pubActive # Pub!NoCog
      BY <3>1, <3>6, <3>2
    <3>3. CASE ~Pub!Looking
      BY <3>1, <3>6, <3>3
    <3>4. CASE pubCandidate = Pub!NoCog
      BY <3>1, <3>6, <3>4
    <3>5. CASE pubActive = Pub!NoCog
      BY <3>1, <3>6, <3>5
    <3> QED
      BY <3>2, <3>3, <3>4, <3>5
  <2> QED
    BY <2>1, <2>2, <2>3, <2>4, <2>5
<1>10. CASE Pub!Serve(v)
  BY <1>10 DEF Pub!Serve
<1>11. CASE Pub!ReadJobs(v)
  BY <1>11 DEF Pub!ReadJobs
<1>12. CASE Pub!ReadPublication(v)
  <2>1. CASE Pub!LeftOver(v)
    BY <1>12, <2>1, PubViewForgets DEF Pub!ReadPublication
  <2>2. CASE ~Pub!LeftOver(v)
    BY <1>12, <2>2, PubViewForgets DEF Pub!ReadPublication, Pub!ViewEnds
  <2> QED
    BY <2>1, <2>2
<1>13. CASE Pub!ViewRemovesCandidate(v)
  <2>1. \A w \in Views : pubVpc'[w] \in {pubVpc[w], "fail"}
    BY <1>13 DEF Pub!ViewRemovesCandidate
  <2> QED
    BY ONLY <1>13, <2>1, PublicationInv, PubCandidateGoes
       DEF Pub!ViewRemovesCandidate, Pub!viewFrame, Pub!workerVars, PubFront
<1>14. CASE Pub!ViewRecordsFailed(v)
  BY <1>14 DEF Pub!ViewRecordsFailed, Pub!ViewEnds
<1>15. CASE Pub!ReadLegacy(v)
  BY <1>15 DEF Pub!ReadLegacy
<1>16. CASE Pub!SweepCandidate(v)
  <2>1. CASE Pub!DropCandidate
    <3>1. \A w \in Views : pubVpc'[w] \in {pubVpc[w], "sweepActive"}
      BY <1>16 DEF Pub!SweepCandidate
    <3> QED
      BY ONLY <1>16, <2>1, <3>1, PublicationInv, PubCandidateGoes
         DEF Pub!SweepCandidate, Pub!viewFrame, Pub!workerVars, PubFront
  <2>2. CASE ~Pub!DropCandidate
    <3>1. /\ \A w \in Views : pubVpc'[w] \in {pubVpc[w], "sweepActive"}
          /\ UNCHANGED <<pubSource, pubRecord, pubCandidate, pubActive, pubCopy, pubWpc,
                         pubBuilt, pubVanished>>
      BY ONLY <1>16, <2>2, Pub!TypeOK
         DEF Pub!SweepCandidate, Pub!ViewTo, Pub!viewFrame, Pub!workerVars, Pub!TypeOK
    <3> QED
      BY ONLY <3>1, PublicationInv
         DEF PubFront, PublicationInv, PubBuiltFits, PubCopiesWait, PubCandidateFits,
             PubActiveFits, PubLookFits, PubOfFront, PubActivating
  <2> QED
    BY <2>1, <2>2
<1>17. CASE Pub!SweepActive(v)
  BY <1>17 DEF Pub!SweepActive
<1>18. CASE Pub!SweepRecord(v)
  BY <1>18 DEF Pub!SweepRecord
<1> QED
  BY <1>1, <1>2, <1>3, <1>4, <1>5, <1>6, <1>7, <1>8, <1>9, <1>10, <1>11, <1>12, <1>13, <1>14,
     <1>15, <1>16, <1>17, <1>18

(* Every step keeps the invariant.                                         *)
LEMMA StepPublication ==
    ASSUME PublicationBounds, PublicationInv, [Pub!Next]_(Pub!vars)
    PROVE  PublicationInv'
<1>1. Pub!TypeOK' /\ PubBounded'
  BY PubStepTyped DEF PublicationInv
<1>2. CASE UNCHANGED Pub!vars
  BY <1>2 DEF Pub!vars, Pub!files, Pub!workerVars, Pub!views, PublicationInv, Pub!TypeOK,
      PubBounded, PubBuiltFits, PubCopiesWait, PubCandidateFits, PubActiveFits, PubLookFits,
      PubFront, PubOfFront
<1>3. CASE Pub!Next
  BY <1>1, <1>3, PubWorkerFiles, PubOtherFiles, PubViewFiles DEF Pub!Next, Pub!WorkerStep,
      Pub!ViewStep, PublicationInv
<1> QED
  BY <1>2, <1>3

(* The state of the publication is of its types.                           *)
THEOREM PublicationTypes == ASSUME PublicationBounds PROVE Pub!Spec => []Pub!TypeOK
<1>1. Pub!Init => PublicationInv
  BY InitPublication
<1>2. PublicationInv /\ [Pub!Next]_(Pub!vars) => PublicationInv'
  BY StepPublication
<1>3. PublicationInv => Pub!TypeOK
  BY DEF PublicationInv
<1> QED
  BY <1>1, <1>2, <1>3, PTL DEF Pub!Spec

(* A request that finds the present source published is given its pixels,  *)
(* whatever relinks, killed workers, restarts and views that activate      *)
(* beside a live worker came before.  Exempt is vanished: a candidate was  *)
(* removed from beside an older published file while its record or a view  *)
(* still waited for it, and since then no record was written that waits    *)
(* for no candidate while no view was finishing an activation.             *)
THEOREM PixelsAreOfTheSource == ASSUME PublicationBounds PROVE Pub!Spec => []Pub!ShownIsCurrent
<1>1. Pub!Init => PublicationInv
  BY InitPublication
<1>2. PublicationInv /\ [Pub!Next]_(Pub!vars) => PublicationInv'
  BY StepPublication
<1>3. PublicationInv => Pub!ShownIsCurrent
  <2> SUFFICES ASSUME PublicationInv, Pub!Published(pubSource), ~pubVanished
               PROVE  pubActive = pubSource
    BY DEF Pub!ShownIsCurrent
  <2>1. pubSource \in Nat /\ PubFront \in 1..pubSource /\ pubSource <= PubFront
    BY DEF PublicationInv, PubBounded, Pub!Published, Pub!TypeOK, Pub!Sources
  <2>2. pubRecord.source = PubFront
    BY <2>1 DEF Pub!Published
  <2>3. pubActive \in PubOfFront
    BY <2>2 DEF PublicationInv, PubActiveFits, Pub!Published
  <2> QED
    BY <2>1, <2>2, <2>3 DEF PubOfFront, Pub!Published
<1> QED
  BY <1>1, <1>2, <1>3, PTL DEF Pub!Spec

-----------------------------------------------------------------------------
\* SingleFlight, for any number of threads, keys and requests.

(* A call that nobody made is blank; one that left the table has an        *)
(* outcome, and only such a call is done.                                  *)
CallSound ==
    \A i \in Calls!Calls :
        /\ callCall[i].key # NoKey => i <= callRequests
        /\ callCall[i].key = NoKey => callCall[i].outcome = Pending /\ ~callCall[i].done
        /\ callCall[i].key # NoKey /\ ~Calls!Registered(i) => callCall[i].outcome # Pending
        /\ callCall[i].done => ~Calls!Registered(i)

(* The table leads from a key to a call for it.                            *)
TableSound == \A k \in Keys : callTable[k] # Calls!NoCall => callCall[callTable[k]].key = k

(* A caller's call is for its own key, and what it says fits its place.    *)
CallerSound(c) ==
    /\ callPc[c] = "idle" => callKey[c] = NoKey /\ callRef[c] = Calls!NoCall
    /\ callPc[c] # "idle" => callKey[c] \in Keys /\ callTicket[c] \in 1..callRequests
    /\ callPc[c] = "enter" => callRef[c] = Calls!NoCall /\ callCall[callTicket[c]].key = NoKey
    /\ callPc[c] \in Calls!Leading \union {"wait"}
           => callRef[c] # Calls!NoCall /\ callCall[callRef[c]].key = callKey[c]
    /\ callPc[c] \in Calls!Leading => callRef[c] = callTicket[c]
    /\ callPc[c] \in {"lead", "pop"} => Calls!Registered(callRef[c])
    /\ callPc[c] = "lead" => callCall[callRef[c]].outcome = Pending
    /\ callPc[c] = "pop" => callCall[callRef[c]].outcome # Pending
    /\ callPc[c] \in {"signal", "return"} => ~Calls!Registered(callRef[c])

(* No two requests have the same number.                                   *)
TicketsDiffer ==
    \A c, d \in Callers :
        c # d /\ callPc[c] # "idle" /\ callPc[d] # "idle" => callTicket[c] # callTicket[d]

(* The inductive invariant.                                                *)
CallsInv ==
    /\ Calls!TypeOK
    /\ CallSound
    /\ TableSound
    /\ \A c \in Callers : CallerSound(c)
    /\ TicketsDiffer

(* The type of call.                                                       *)
CallSpace ==
    [Calls!Calls -> [key: Keys \union {NoKey}, done: BOOLEAN, outcome: Outcomes \union {Pending}]]

(* A call whose fields are set is a call.                                  *)
LEMMA CallSet ==
    ASSUME NEW f \in CallSpace, NEW i \in Calls!Calls
    PROVE  /\ \A k \in Keys : [f EXCEPT ![i].key = k] \in CallSpace
           /\ \A o \in Outcomes : [f EXCEPT ![i].outcome = o] \in CallSpace
           /\ [f EXCEPT ![i].done = TRUE] \in CallSpace
<1> DEFINE Call == [key: Keys \union {NoKey}, done: BOOLEAN, outcome: Outcomes \union {Pending}]
<1>1. f[i] \in Call
  BY DEF CallSpace
<1>2. ASSUME NEW c \in Call
      PROVE  /\ \A k \in Keys : [c EXCEPT !.key = k] \in Call
             /\ \A o \in Outcomes : [c EXCEPT !.outcome = o] \in Call
             /\ [c EXCEPT !.done = TRUE] \in Call
  <2>1. ASSUME NEW k \in Keys PROVE [c EXCEPT !.key = k] \in Call
    OBVIOUS
  <2>2. ASSUME NEW o \in Outcomes PROVE [c EXCEPT !.outcome = o] \in Call
    OBVIOUS
  <2>3. [c EXCEPT !.done = TRUE] \in Call
    OBVIOUS
  <2>4. QED
    BY <2>1, <2>2, <2>3
<1>3. CallSpace = [Calls!Calls -> Call]
  BY DEF CallSpace
<1> HIDE DEF Call
<1>4. \A c \in Call : [f EXCEPT ![i] = c] \in CallSpace
  BY <1>3
<1>5. ASSUME NEW k \in Keys PROVE [f EXCEPT ![i].key = k] \in CallSpace
  <2>1. [f EXCEPT ![i].key = k] = [f EXCEPT ![i] = [f[i] EXCEPT !.key = k]]
    OBVIOUS
  <2>2. QED
    BY <1>1, <1>2, <1>4, <2>1
<1>6. ASSUME NEW o \in Outcomes PROVE [f EXCEPT ![i].outcome = o] \in CallSpace
  <2>1. [f EXCEPT ![i].outcome = o] = [f EXCEPT ![i] = [f[i] EXCEPT !.outcome = o]]
    OBVIOUS
  <2>2. QED
    BY <1>1, <1>2, <1>4, <2>1
<1>7. [f EXCEPT ![i].done = TRUE] \in CallSpace
  <2>1. [f EXCEPT ![i].done = TRUE] = [f EXCEPT ![i] = [f[i] EXCEPT !.done = TRUE]]
    OBVIOUS
  <2>2. QED
    BY <1>1, <1>2, <1>4, <2>1
<1>8. QED
  BY <1>5, <1>6, <1>7

(* It holds before the first request.                                      *)
LEMMA CallsInitInv == ASSUME CallsBounds, Calls!Init PROVE CallsInv
  BY DEF CallsBounds, Calls!Init, CallsInv, Calls!TypeOK, CallSound, TableSound,
      CallerSound, TicketsDiffer, Calls!Registered, Calls!Leading, Calls!NoCall, Calls!Calls

(* Every step keeps it: a call is registered by the thread whose number it *)
(* has, and only that thread computes, removes and signals it.             *)
LEMMA CallsNextInv == ASSUME CallsBounds, CallsInv, [Calls!Next]_(Calls!vars) PROVE CallsInv'
<1> USE DEF CallsBounds, Calls!Calls, Calls!NoCall
<1>0. CASE UNCHANGED Calls!vars
  BY <1>0 DEF Calls!vars, CallsInv, Calls!TypeOK, CallSound, TableSound, CallerSound, TicketsDiffer,
              Calls!Registered, Calls!Leading
<1>1. ASSUME NEW c \in Callers, NEW k \in Keys, Calls!Request(c, k) PROVE CallsInv'
  <2> USE DEF CallsInv, Calls!Request
  <2>1. Calls!TypeOK'
    BY <1>1 DEF Calls!TypeOK
  <2>2. CallSound' /\ TableSound'
    BY <1>1 DEF Calls!TypeOK, CallSound, TableSound, Calls!Registered
  <2>3. (\A d \in Callers : CallerSound(d))'
    BY <1>1 DEF Calls!TypeOK, CallerSound, CallSound, Calls!Registered, Calls!Leading
  <2>4. TicketsDiffer'
    BY <1>1 DEF Calls!TypeOK, CallerSound, TicketsDiffer
  <2>5. QED
    BY <2>1, <2>2, <2>3, <2>4
<1>2. ASSUME NEW c \in Callers, Calls!Lead(c) PROVE CallsInv'
  <2> USE DEF CallsInv, Calls!Lead
  <2>1. Calls!TypeOK'
    <3>1. callKey[c] \in Keys /\ callTicket[c] \in Calls!Calls
      BY <1>2 DEF Calls!TypeOK, CallerSound
    <3>2. callCall \in CallSpace /\ callCall' = [callCall EXCEPT ![callTicket[c]].key = callKey[c]]
      BY <1>2 DEF Calls!TypeOK, CallSpace
    <3>3. callCall' \in CallSpace
      BY <3>1, <3>2, CallSet
    <3>4. QED
      BY <1>2, <3>1, <3>3 DEF Calls!TypeOK, Calls!Leading, CallSpace
  <2>2. CallSound' /\ TableSound'
    BY <1>2 DEF Calls!TypeOK, CallSound, TableSound, CallerSound, Calls!Registered
  <2>3. (\A d \in Callers : CallerSound(d))'
    BY <1>2 DEF Calls!TypeOK, CallSound, TableSound, CallerSound, TicketsDiffer,
        Calls!Registered, Calls!Leading
  <2>4. TicketsDiffer'
    BY <1>2 DEF Calls!TypeOK, TicketsDiffer
  <2>5. QED
    BY <2>1, <2>2, <2>3, <2>4
<1>3. ASSUME NEW c \in Callers, Calls!Join(c) PROVE CallsInv'
  <2> USE DEF CallsInv, Calls!Join
  <2>1. Calls!TypeOK'
    BY <1>3 DEF Calls!TypeOK, CallerSound
  <2>2. CallSound' /\ TableSound'
    BY <1>3 DEF Calls!TypeOK, CallSound, TableSound, Calls!Registered
  <2>3. (\A d \in Callers : CallerSound(d))'
    BY <1>3 DEF Calls!TypeOK, TableSound, CallerSound, Calls!Registered, Calls!Leading
  <2>4. TicketsDiffer'
    BY <1>3 DEF Calls!TypeOK, TicketsDiffer
  <2>5. QED
    BY <2>1, <2>2, <2>3, <2>4
<1>4. ASSUME NEW c \in Callers, NEW o \in Outcomes, Calls!Compute(c, o) PROVE CallsInv'
  <2> USE DEF CallsInv, Calls!Compute
  <2>1. Calls!TypeOK'
    <3>1. callRef[c] \in Calls!Calls
      BY <1>4 DEF Calls!TypeOK, CallerSound, Calls!Leading
    <3>2. callCall \in CallSpace /\ callCall' = [callCall EXCEPT ![callRef[c]].outcome = o]
      BY <1>4 DEF Calls!TypeOK, CallSpace
    <3>3. callCall' \in CallSpace
      BY <3>1, <3>2, CallSet
    <3>4. QED
      BY <1>4, <3>1, <3>3 DEF Calls!TypeOK, Calls!Leading, CallSpace
  <2>2. CallSound' /\ TableSound'
    BY <1>4 DEF Calls!TypeOK, CallSound, TableSound, CallerSound, Calls!Registered, Calls!Leading
  <2>3. (\A d \in Callers : CallerSound(d))'
    BY <1>4 DEF Calls!TypeOK, CallerSound, TicketsDiffer, Calls!Registered, Calls!Leading
  <2>4. TicketsDiffer'
    BY <1>4 DEF Calls!TypeOK, TicketsDiffer
  <2>5. QED
    BY <2>1, <2>2, <2>3, <2>4
<1>5. ASSUME NEW c \in Callers, Calls!Pop(c) PROVE CallsInv'
  <2> USE DEF CallsInv, Calls!Pop
  <2>1. Calls!TypeOK'
    BY <1>5 DEF Calls!TypeOK, Calls!Leading
  <2>2. CallSound' /\ TableSound'
    BY <1>5 DEF Calls!TypeOK, CallSound, TableSound, CallerSound, Calls!Registered, Calls!Leading
  <2>3. (\A d \in Callers : CallerSound(d))'
    BY <1>5 DEF Calls!TypeOK, CallerSound, TicketsDiffer, Calls!Registered, Calls!Leading
  <2>4. TicketsDiffer'
    BY <1>5 DEF Calls!TypeOK, TicketsDiffer
  <2>5. QED
    BY <2>1, <2>2, <2>3, <2>4
<1>6. ASSUME NEW c \in Callers, Calls!Signal(c) PROVE CallsInv'
  <2> USE DEF CallsInv, Calls!Signal
  <2>1. Calls!TypeOK'
    <3>1. callRef[c] \in Calls!Calls
      BY <1>6 DEF Calls!TypeOK, CallerSound, Calls!Leading
    <3>2. callCall \in CallSpace /\ callCall' = [callCall EXCEPT ![callRef[c]].done = TRUE]
      BY <1>6 DEF Calls!TypeOK, CallSpace
    <3>3. callCall' \in CallSpace
      BY <3>1, <3>2, CallSet
    <3>4. QED
      BY <1>6, <3>1, <3>3 DEF Calls!TypeOK, Calls!Leading, CallSpace
  <2>2. CallSound' /\ TableSound'
    BY <1>6 DEF Calls!TypeOK, CallSound, TableSound, CallerSound, Calls!Registered, Calls!Leading
  <2>3. (\A d \in Callers : CallerSound(d))'
    BY <1>6 DEF Calls!TypeOK, CallerSound, Calls!Registered, Calls!Leading
  <2>4. TicketsDiffer'
    BY <1>6 DEF Calls!TypeOK, TicketsDiffer
  <2>5. QED
    BY <2>1, <2>2, <2>3, <2>4
<1>7. ASSUME NEW c \in Callers, Calls!Return(c) PROVE CallsInv'
  <2> USE DEF CallsInv, Calls!Return
  <2>1. Calls!TypeOK'
    BY <1>7 DEF Calls!TypeOK, CallerSound, Calls!Leading
  <2>2. CallSound' /\ TableSound'
    BY <1>7 DEF Calls!TypeOK, CallSound, TableSound, Calls!Registered
  <2>3. (\A d \in Callers : CallerSound(d))'
    BY <1>7 DEF Calls!TypeOK, CallerSound, Calls!Registered, Calls!Leading
  <2>4. TicketsDiffer'
    BY <1>7 DEF Calls!TypeOK, TicketsDiffer
  <2>5. QED
    BY <2>1, <2>2, <2>3, <2>4
<1>8. QED
  BY <1>0, <1>1, <1>2, <1>3, <1>4, <1>5, <1>6, <1>7 DEF Calls!Next, Calls!Step

(* What SharedCall sees as an execution.                                   *)
Exec == [i \in Calls!Calls |->
    [key |-> callCall[i].key,
     outcome |-> IF Calls!Registered(i) THEN Pending ELSE callCall[i].outcome]]

(* The first states of the table are first states of the promise.          *)
LEMMA InitShared == ASSUME CallsBounds, Calls!Init PROVE Calls!Shared!Init
  BY DEF CallsBounds, Calls!Init, Calls!Shared!Init, Calls!Registered, Calls!NoCall, Calls!Calls

(* Every step is a step of the promise or leaves its state alone: a        *)
(* request asks, leading begins, leaving the table ends an execution;      *)
(* computing and signalling show nothing.                                  *)
LEMMA NextShared ==
    ASSUME CallsBounds, CallsInv, [Calls!Next]_(Calls!vars)
    PROVE  [Calls!Shared!Next]_(Calls!Shared!vars)
<1> USE DEF CallsBounds, Calls!Calls, Calls!NoCall
<1>0. CASE UNCHANGED Calls!vars
  <2>1. Exec' = Exec
    BY <1>0 DEF Calls!vars, Exec, Calls!Registered
  <2>2. QED
    BY <1>0, <2>1 DEF Calls!vars, Calls!Shared!vars, Exec
<1>1. ASSUME NEW c \in Callers, NEW k \in Keys, Calls!Request(c, k) PROVE Calls!Shared!Next
  <2>1. Exec' = Exec
    BY <1>1 DEF Calls!Request, Exec, Calls!Registered
  <2>2. Calls!Shared!Ask(c, k)
    BY <1>1, <2>1 DEF Calls!Request, Calls!Shared!Ask, Exec, CallsInv, CallerSound
  <2>3. QED
    BY <2>2 DEF Calls!Shared!Next
<1>2. ASSUME NEW c \in Callers, Calls!Lead(c) PROVE Calls!Shared!Next
  <2>1. /\ callKey[c] \in Keys /\ callTicket[c] \in Calls!Calls /\ callRef[c] = Calls!NoCall
        /\ callCall[callTicket[c]].key = NoKey
    BY <1>2 DEF Calls!Lead, CallsInv, Calls!TypeOK, CallerSound
  <2>2. \A i \in Calls!Calls : i # callTicket[c]
             => callCall'[i] = callCall[i] /\ (Calls!Registered(i)' <=> Calls!Registered(i))
    BY <1>2, <2>1 DEF Calls!Lead, CallsInv, Calls!TypeOK, CallSound, Calls!Registered
  <2>3. callCall'[callTicket[c]].key = callKey[c] /\ Calls!Registered(callTicket[c])'
    BY <1>2, <2>1 DEF Calls!Lead, CallsInv, Calls!TypeOK, Calls!Registered
  <2>4. Exec' = [Exec EXCEPT ![callTicket[c]] = [key |-> callKey[c], outcome |-> Pending]]
    <3>1. Exec'[callTicket[c]] = [key |-> callKey[c], outcome |-> Pending]
      BY <1>2, <2>1, <2>3 DEF Exec, Calls!Lead
    <3>2. \A i \in Calls!Calls : i # callTicket[c] => Exec'[i] = Exec[i]
      BY <2>2 DEF Exec
    <3>3. Exec = [i \in Calls!Calls |-> Exec[i]] /\ Exec' = [i \in Calls!Calls |-> Exec'[i]]
      BY Zenon DEF Exec
    <3>4. QED
      BY <2>1, <3>1, <3>2, <3>3
  <2>5. \A i \in Calls!Calls : ~Calls!Shared!InFlight(i, callKey[c])
    BY <1>2, <2>1 DEF Calls!Lead, Calls!Shared!InFlight, CallsInv, Calls!TypeOK, CallSound,
        Calls!Registered
  <2>6. PICK i \in Calls!Calls : i = callTicket[c]
    BY <2>1
  <2>7. Calls!Shared!Begin(c, i)
    BY <1>2, <2>1, <2>4, <2>5, <2>6 DEF Calls!Lead, Calls!Shared!Begin, Exec
  <2>8. QED
    BY <2>7 DEF Calls!Shared!Next
<1>3. ASSUME NEW c \in Callers, Calls!Join(c) PROVE Calls!Shared!Next
  <2>1. callKey[c] \in Keys /\ callTable[callKey[c]] \in Calls!Calls /\ callRef[c] = Calls!NoCall
    BY <1>3 DEF Calls!Join, CallsInv, Calls!TypeOK, CallerSound
  <2>2. Calls!Shared!InFlight(callTable[callKey[c]], callKey[c])
    BY <1>3, <2>1 DEF Calls!Join, Calls!Shared!InFlight, CallsInv, TableSound, Calls!Registered
  <2>3. Exec' = Exec
    BY <1>3 DEF Calls!Join, Exec, Calls!Registered
  <2>4. PICK i \in Calls!Calls : i = callTable[callKey[c]]
    BY <2>1
  <2>5. Calls!Shared!Join(c, i)
    BY <1>3, <2>1, <2>2, <2>3, <2>4 DEF Calls!Join, Calls!Shared!Join, Calls!Shared!InFlight, Exec
  <2>6. QED
    BY <2>5 DEF Calls!Shared!Next
<1>4. ASSUME NEW c \in Callers, NEW o \in Outcomes, Calls!Compute(c, o)
      PROVE  UNCHANGED Calls!Shared!vars
  <2>1. callRef[c] \in Calls!Calls /\ Calls!Registered(callRef[c])
    BY <1>4 DEF Calls!Compute, CallsInv, Calls!TypeOK, CallerSound, Calls!Leading
  <2>2. \A i \in Calls!Calls : callCall'[i].key = callCall[i].key
             /\ (i # callRef[c] => callCall'[i] = callCall[i])
    BY <1>4, <2>1 DEF Calls!Compute, CallsInv, Calls!TypeOK
  <2>3. Exec' = Exec
    BY <1>4, <2>1, <2>2 DEF Calls!Compute, Exec, Calls!Registered
  <2>4. QED
    BY <1>4, <2>3 DEF Calls!Compute, Calls!Shared!vars, Exec
<1>5. ASSUME NEW c \in Callers, Calls!Pop(c) PROVE Calls!Shared!Next
  <2> DEFINE e == callRef[c]
  <2>1. /\ callKey[c] \in Keys /\ e \in Calls!Calls /\ Calls!Registered(e)
        /\ callCall[e].key = callKey[c]
        /\ callCall[e].outcome \in Outcomes
    BY <1>5 DEF Calls!Pop, CallsInv, Calls!TypeOK, CallerSound, Calls!Leading
  <2>2. callCall' = callCall /\ ~Calls!Registered(e)'
    BY <1>5, <2>1 DEF Calls!Pop, CallsInv, Calls!TypeOK, Calls!Registered
  <2>3. \A i \in Calls!Calls : i # e => (Calls!Registered(i)' <=> Calls!Registered(i))
    BY <1>5, <2>1 DEF Calls!Pop, CallsInv, Calls!TypeOK, Calls!Registered
  <2>4. Exec' = [Exec EXCEPT ![e].outcome = callCall[e].outcome]
    <3>1. /\ Exec[e] = [key |-> callKey[c], outcome |-> Pending]
          /\ Exec'[e] = [key |-> callKey[c], outcome |-> callCall[e].outcome]
      BY <1>5, <2>1, <2>2 DEF Exec, Calls!Pop
    <3>2. \A i \in Calls!Calls : i # e => Exec'[i] = Exec[i]
      BY <2>2, <2>3 DEF Exec
    <3>3. Exec = [i \in Calls!Calls |-> Exec[i]] /\ Exec' = [i \in Calls!Calls |-> Exec'[i]]
      BY Zenon DEF Exec
    <3> HIDE DEF e
    <3>4. QED
      BY <2>1, <3>1, <3>2, <3>3
  <2>5. PICK i \in Calls!Calls, o \in Outcomes : i = e /\ o = callCall[e].outcome
    BY <2>1
  <2>6. Calls!Shared!End(i, o)
    BY <1>5, <2>1, <2>4, <2>5 DEF Calls!Pop, Calls!Shared!End, Exec
  <2>7. QED
    BY <2>6 DEF Calls!Shared!Next
<1>6. ASSUME NEW c \in Callers, Calls!Signal(c) PROVE UNCHANGED Calls!Shared!vars
  <2>1. callRef[c] \in Calls!Calls
    BY <1>6 DEF Calls!Signal, CallsInv, Calls!TypeOK, CallerSound, Calls!Leading
  <2>2. \A i \in Calls!Calls : callCall'[i].key = callCall[i].key
             /\ callCall'[i].outcome = callCall[i].outcome
    BY <1>6, <2>1 DEF Calls!Signal, CallsInv, Calls!TypeOK
  <2>3. Exec' = Exec
    BY <1>6, <2>2 DEF Calls!Signal, Exec, Calls!Registered
  <2>4. QED
    BY <1>6, <2>3 DEF Calls!Signal, Calls!Shared!vars, Exec
<1>7. ASSUME NEW c \in Callers, Calls!Return(c) PROVE Calls!Shared!Next
  <2>1. callRef[c] \in Calls!Calls /\ ~Calls!Registered(callRef[c])
             /\ callCall[callRef[c]].outcome # Pending
    BY <1>7 DEF Calls!Return, CallsInv, Calls!TypeOK, CallSound, CallerSound, Calls!Leading
  <2>2. Exec' = Exec
    BY <1>7 DEF Calls!Return, Exec, Calls!Registered
  <2>3. Exec[callRef[c]].outcome = callCall[callRef[c]].outcome /\ callRef[c] # Calls!NoCall
    BY <2>1 DEF Exec
  <2>4. Calls!Shared!Return(c)
    BY <1>7, <2>1, <2>2, <2>3 DEF Calls!Return, Calls!Shared!Return, Exec
  <2>5. QED
    BY <2>4 DEF Calls!Shared!Next
<1>8. QED
  BY <1>0, <1>1, <1>2, <1>3, <1>4, <1>5, <1>6, <1>7 DEF Calls!Next, Calls!Step

(* SingleFlight implements SharedCall, whatever the number of threads,     *)
(* keys and requests: one execution of a key at a time, and every caller   *)
(* is given the outcome of one that had not ended when it came             *)
(* (SingleFlight.do).                                                      *)
THEOREM Refinement == ASSUME CallsBounds PROVE Calls!Spec => Calls!ImplementsSharedCall
<1>1. Calls!Init => CallsInv
  BY CallsInitInv
<1>2. CallsInv /\ [Calls!Next]_(Calls!vars) => CallsInv'
  BY CallsNextInv
<1>3. Calls!Init => Calls!Shared!Init
  BY InitShared
<1>4. CallsInv /\ [Calls!Next]_(Calls!vars) => [Calls!Shared!Next]_(Calls!Shared!vars)
  BY NextShared
<1>5. QED
  BY <1>1, <1>2, <1>3, <1>4, PTL DEF Calls!Spec, Calls!ImplementsSharedCall, Calls!Shared!Spec

-----------------------------------------------------------------------------
\* JobEvents, for any number of writers, readers and events.

(* Numbers grow along the log and none is above the one given last.        *)
LogGrows ==
    /\ \A i, j \in 1..Len(evLog) : i < j => evLog[i] < evLog[j]
    /\ \A i \in 1..Len(evLog) : evLog[i] <= evSeq

(* A writer between the lock and its line is alone, and its number is new. *)
WriterIsAlone ==
    /\ evSeq <= evEvents
    /\ \A w \in Writers :
        /\ evWpc[w] \in {"number", "write"} => evHolder = w
        /\ evWpc[w] = "number" => evSeq < evEvents
        /\ evWpc[w] = "write" =>
            /\ evNumber[w] = evSeq /\ evSeq >= 1
            /\ \A i \in 1..Len(evLog) : evLog[i] < evSeq

(* What a reader was sent is a beginning of the log, what it has in hand   *)
(* comes next, and its cursor is the last number it was sent.              *)
SentUpTo(r, n) ==
    /\ evGot[r] = SubSeq(evLog, 1, n)
    /\ evCursor[r] = IF n = 0 THEN 0 ELSE evLog[n]
    /\ n + Len(evBatch[r]) <= Len(evLog)
    /\ \A i \in 1..Len(evBatch[r]) : evBatch[r][i] = evLog[n + i]

ReaderFollows == \A r \in Readers : \E n \in 0..Len(evLog) : SentUpTo(r, n)

EventsInv == Events!TypeOK /\ LogGrows /\ WriterIsAlone /\ ReaderFollows

(* The start.                                                              *)
LEMMA EventsInitInv == ASSUME EventsBounds PROVE Events!Init => EventsInv
<1> SUFFICES ASSUME Events!Init PROVE EventsInv
  OBVIOUS
<1>1. Events!TypeOK
  <2>1. <<>> \in Seq(Events!Numbers)
    OBVIOUS
  <2>2. evSeq \in 0..MaxEvents /\ evEvents \in 0..MaxEvents /\ evFaults \in 0..EvMaxFaults
    BY DEF EventsBounds, Events!Init
  <2>3. /\ evNumber \in [Writers -> 0..MaxEvents] /\ evCursor \in [Readers -> 0..MaxEvents]
        /\ evBatch \in [Readers -> Seq(Events!Numbers)]
        /\ evGot \in [Readers -> Seq(Events!Numbers)]
    BY <2>1 DEF EventsBounds, Events!Init
  <2>4. QED
    BY <2>1, <2>2, <2>3 DEF Events!Init, Events!TypeOK
<1>2. LogGrows /\ WriterIsAlone
  BY DEF EventsBounds, Events!Init, LogGrows, WriterIsAlone
<1>3. ReaderFollows
  <2> SUFFICES ASSUME NEW r \in Readers PROVE SentUpTo(r, 0) /\ 0 \in 0..Len(evLog)
    BY DEF ReaderFollows
  <2>1. QED
    BY DEF Events!Init, SentUpTo
<1>4. QED
  BY <1>1, <1>2, <1>3 DEF EventsInv

(* How many places there are after one place.                              *)
LEMMA PlacesAfter ==
    ASSUME NEW n \in Nat, NEW m \in Nat, n <= m
    PROVE  Cardinality((n + 1)..m) = m - n
<1>1. CASE n = m
  <2>1. (n + 1)..m = {}
    BY <1>1
  <2>2. QED
    BY <1>1, <2>1, FS_EmptySet
<1>2. CASE n < m
  <2>1. n + 1 \in Int /\ m \in Int /\ ~(n + 1 > m)
    BY <1>2
  <2>2. Cardinality((n + 1)..m) = m - (n + 1) + 1
    BY <2>1, FS_Interval
  <2>3. QED
    BY <2>2
<1>3. QED
  BY <1>1, <1>2

(* The k-th of the places after n is n + k.                                *)
LEMMA KthPlace ==
    ASSUME NEW n \in Nat, NEW m \in Nat, NEW k \in Nat \ {0}, n + k <= m
    PROVE  /\ n + k \in (n + 1)..m
           /\ Cardinality({j \in (n + 1)..m : j <= n + k}) = k
           /\ \A i \in (n + 1)..m :
                Cardinality({j \in (n + 1)..m : j <= i}) = k => i = n + k
<1>1. ASSUME NEW i \in (n + 1)..m
      PROVE  Cardinality({j \in (n + 1)..m : j <= i}) = i - n
  <2>1. i \in Nat /\ n <= i
    OBVIOUS
  <2>2. {j \in (n + 1)..m : j <= i} = (n + 1)..i
    OBVIOUS
  <2>3. Cardinality((n + 1)..i) = i - n
    BY <2>1, PlacesAfter
  <2>4. QED
    BY <2>2, <2>3
<1>2. n + k \in (n + 1)..m
  OBVIOUS
<1>3. QED
  BY <1>1, <1>2

(* What read_events returns to a reader at place n is the log from there.  *)
LEMMA UnreadIsNext ==
    ASSUME EventsBounds, Events!TypeOK, LogGrows, NEW r \in Readers, NEW n \in 0..Len(evLog),
              SentUpTo(r, n)
    PROVE  /\ Events!Unread(r) \in Seq(Events!Numbers)
           /\ n + Len(Events!Unread(r)) <= Len(evLog)
           /\ \A i \in 1..Len(Events!Unread(r)) : Events!Unread(r)[i] = evLog[n + i]
<1> DEFINE new == {i \in 1..Len(evLog) : evLog[i] > evCursor[r]}
           line(k) == CHOOSE i \in new : Cardinality({j \in new : j <= i}) = k
           many == Cardinality(new)
           taken == IF many < Batch THEN many ELSE Batch
<1>1. evLog \in Seq(Events!Numbers) /\ Len(evLog) \in Nat /\ n \in Nat /\ n <= Len(evLog)
  BY DEF Events!TypeOK
<1>2. \A i \in 1..Len(evLog) : evLog[i] \in Nat /\ evLog[i] >= 1
  BY <1>1 DEF Events!Numbers, EventsBounds
<1>3. new = (n + 1)..Len(evLog)
  <2>1. CASE n = 0
    BY <1>1, <1>2, <2>1 DEF SentUpTo
  <2>2. CASE n # 0
    <3>1. evCursor[r] = evLog[n] /\ n \in 1..Len(evLog)
      BY <1>1, <2>2 DEF SentUpTo
    <3>2. \A i \in 1..Len(evLog) : evLog[i] > evLog[n] <=> i > n
      BY <1>1, <1>2, <3>1 DEF LogGrows
    <3>3. QED
      BY <1>1, <3>1, <3>2
  <2>3. QED
    BY <2>1, <2>2
<1>4. many = Len(evLog) - n
  BY <1>1, <1>3, PlacesAfter
<1>5. taken \in Nat /\ n + taken <= Len(evLog)
  BY <1>1, <1>4 DEF EventsBounds
<1>6. ASSUME NEW k \in 1..taken PROVE line(k) = n + k
  <2>1. k \in Nat \ {0} /\ n + k <= Len(evLog)
    BY <1>1, <1>5
  <2>2. /\ n + k \in (n + 1)..Len(evLog)
        /\ Cardinality({j \in (n + 1)..Len(evLog) : j <= n + k}) = k
        /\ \A i \in (n + 1)..Len(evLog) :
                Cardinality({j \in (n + 1)..Len(evLog) : j <= i}) = k => i = n + k
    BY <1>1, <2>1, KthPlace
  <2> HIDE DEF new
  <2>3. QED
    BY <1>3, <2>2
<1>7. Events!Unread(r) = [k \in 1..taken |-> evLog[line(k)]]
  BY DEF Events!Unread, Events!Cardinality, Cardinality
<1>8. \A k \in 1..taken : evLog[line(k)] = evLog[n + k] /\ evLog[n + k] \in Events!Numbers
  <2> HIDE DEF new, line, taken
  <2>1. QED
    BY <1>1, <1>5, <1>6
<1> HIDE DEF line, taken
<1>9. Events!Unread(r) \in Seq(Events!Numbers) /\ Len(Events!Unread(r)) = taken
  BY <1>5, <1>7, <1>8
<1>10. QED
  BY <1>5, <1>7, <1>8, <1>9

(* A line more does not move a reader.                                     *)
LEMMA ReadersStay ==
    ASSUME Events!TypeOK, ReaderFollows, UNCHANGED <<evBatch, evCursor, evGot>>,
           evLog' = evLog \/ \E x \in Events!Numbers : evLog' = Append(evLog, x)
    PROVE  ReaderFollows'
<1> SUFFICES ASSUME NEW r \in Readers PROVE \E n \in 0..Len(evLog') : SentUpTo(r, n)'
  BY DEF ReaderFollows
<1>1. PICK n \in 0..Len(evLog) : SentUpTo(r, n)
  BY DEF ReaderFollows
<1>2. evLog \in Seq(Events!Numbers) /\ evLog' \in Seq(Events!Numbers)
  <2>1. evLog \in Seq(Events!Numbers)
    BY DEF Events!TypeOK
  <2>2. QED
    BY <2>1
<1>3. Len(evLog) <= Len(evLog') /\ \A i \in 1..Len(evLog) : evLog'[i] = evLog[i]
  BY <1>2
<1>4. evBatch[r] \in Seq(Events!Numbers)
  BY DEF Events!TypeOK
<1>5. SubSeq(evLog', 1, n) = SubSeq(evLog, 1, n)
  BY <1>2, <1>3
<1>6. \A i \in 1..Len(evBatch[r]) : n + i \in 1..Len(evLog)
  BY <1>1, <1>2, <1>4 DEF SentUpTo
<1>7. n # 0 => n \in 1..Len(evLog)
  BY <1>2
<1>8. SentUpTo(r, n)'
  BY <1>1, <1>2, <1>3, <1>4, <1>5, <1>6, <1>7 DEF SentUpTo
<1>9. QED
  BY <1>2, <1>3, <1>8

(* A step of one reader that puts it at a place of the log.                *)
LEMMA ReaderMoves ==
    ASSUME ReaderFollows, UNCHANGED evLog, NEW r \in Readers, NEW n \in 0..Len(evLog),
              SentUpTo(r, n)',
           \A q \in Readers \ {r} : evBatch'[q] = evBatch[q] /\ evCursor'[q] = evCursor[q]
                /\ evGot'[q] = evGot[q]
    PROVE  ReaderFollows'
<1> SUFFICES ASSUME NEW q \in Readers PROVE \E m \in 0..Len(evLog') : SentUpTo(q, m)'
  BY DEF ReaderFollows
<1>1. CASE q = r
  BY <1>1
<1>2. CASE q # r
  <2>1. PICK m \in 0..Len(evLog) : SentUpTo(q, m)
    BY DEF ReaderFollows
  <2>2. SentUpTo(q, m)'
    BY <1>2, <2>1 DEF SentUpTo
  <2>3. QED
    BY <2>2
<1>3. QED
  BY <1>1, <1>2

(* The lines of the log are numbers from 1.                                *)
LEMMA LogTyped ==
    ASSUME EventsBounds, Events!TypeOK
    PROVE  /\ evLog \in Seq(Events!Numbers) /\ Len(evLog) \in Nat /\ evSeq \in Nat
           /\ evEvents \in Nat
           /\ \A i \in 1..Len(evLog) : evLog[i] \in Nat /\ evLog[i] >= 1
<1>1. evLog \in Seq(Events!Numbers) /\ evSeq \in Nat /\ evEvents \in Nat
  BY DEF Events!TypeOK, EventsBounds
<1>2. \A i \in 1..Len(evLog) : evLog[i] \in Events!Numbers
  BY <1>1
<1>3. QED
  BY <1>1, <1>2 DEF Events!Numbers, EventsBounds

(* A step of a writer.                                                     *)
LEMMA WriterStep ==
    ASSUME EventsBounds, Events!TypeOK, LogGrows, WriterIsAlone, NEW w \in Writers,
           Events!StartAppend(w) \/ Events!TakeNumber(w) \/ Events!WriteLine(w)
           \/ \E place \in {"idle", "dead"} : Events!LoseLine(w, place)
    PROVE  /\ Events!TypeOK' /\ LogGrows' /\ WriterIsAlone'
           /\ UNCHANGED Events!readers
           /\ evLog' = evLog \/ \E x \in Events!Numbers : evLog' = Append(evLog, x)
<1>1. CASE Events!StartAppend(w)
  <2>1. Events!TypeOK'
    <3>1. evEvents' \in 0..MaxEvents /\ evWpc' \in [Writers -> {"idle", "number", "write", "dead"}]
      BY <1>1 DEF Events!StartAppend, Events!TypeOK, EventsBounds
    <3>2. QED
      BY <1>1, <3>1 DEF Events!StartAppend, Events!TypeOK, Events!readers
  <2>2. LogGrows'
    BY <1>1 DEF Events!StartAppend, LogGrows
  <2>3. WriterIsAlone'
    BY <1>1 DEF Events!StartAppend, WriterIsAlone, Events!TypeOK, Events!LockFree, EventsBounds
  <2>4. QED
    BY <1>1, <2>1, <2>2, <2>3 DEF Events!StartAppend
<1>2. CASE Events!TakeNumber(w)
  <2>1. evSeq + 1 \in 1..MaxEvents /\ evSeq + 1 <= evEvents
    BY <1>2 DEF Events!TakeNumber, Events!TypeOK, WriterIsAlone, EventsBounds
  <2>2. Events!TypeOK'
    BY <1>2, <2>1 DEF Events!TakeNumber, Events!TypeOK, Events!readers
  <2>3. LogGrows'
    BY <1>2, LogTyped DEF Events!TakeNumber, LogGrows
  <2>4. WriterIsAlone'
    <3>1. \A v \in Writers \ {w} : evWpc[v] \notin {"number", "write"}
      BY <1>2 DEF Events!TakeNumber, WriterIsAlone
    <3>2. \A i \in 1..Len(evLog) : evLog[i] < evSeq + 1
      BY LogTyped DEF LogGrows
    <3>3. QED
      BY <1>2, <2>1, <3>1, <3>2 DEF Events!TakeNumber, WriterIsAlone, Events!TypeOK
  <2>5. QED
    BY <1>2, <2>2, <2>3, <2>4 DEF Events!TakeNumber
<1>3. CASE Events!WriteLine(w)
  <2>1. evNumber[w] = evSeq /\ evNumber[w] \in Events!Numbers
             /\ \A i \in 1..Len(evLog) : evLog[i] < evNumber[w]
    BY <1>3 DEF Events!WriteLine, WriterIsAlone, Events!TypeOK, Events!Numbers, EventsBounds
  <2>2. evLog \in Seq(Events!Numbers) /\ \A i \in 1..Len(evLog) : evLog[i] \in Nat
    BY LogTyped
  <2>3. evLog' = evLog \/ evLog' = Append(evLog, evNumber[w])
    BY <1>3 DEF Events!WriteLine
  <2>4. evLog' \in Seq(Events!Numbers)
    BY <2>1, <2>2, <2>3
  <2>5. Events!TypeOK'
    BY <1>3, <2>4 DEF Events!WriteLine, Events!TypeOK, Events!readers
  <2>6. LogGrows'
    <3>1. CASE evLog' = evLog
      BY <1>3, <3>1 DEF Events!WriteLine, LogGrows
    <3>2. CASE evLog' = Append(evLog, evNumber[w])
      <4>1. /\ Len(evLog') = Len(evLog) + 1 /\ evLog'[Len(evLog) + 1] = evNumber[w]
            /\ \A i \in 1..Len(evLog) : evLog'[i] = evLog[i]
        BY <2>1, <2>2, <3>2
      <4>2. evSeq' = evSeq /\ evSeq \in Nat
        BY <1>3 DEF Events!WriteLine, Events!TypeOK
      <4>3. Len(evLog) \in Nat
        BY <2>2
      <4>4. QED
        BY <2>1, <2>2, <4>1, <4>2, <4>3 DEF LogGrows
    <3>3. QED
      BY <2>3, <3>1, <3>2
  <2>7. WriterIsAlone'
    <3>1. \A v \in Writers \ {w} : evWpc[v] \notin {"number", "write"}
      BY <1>3 DEF Events!WriteLine, WriterIsAlone
    <3>2. QED
      BY <1>3, <3>1 DEF Events!WriteLine, WriterIsAlone, Events!TypeOK
  <2>8. QED
    BY <1>3, <2>1, <2>3, <2>5, <2>6, <2>7 DEF Events!WriteLine
<1>4. ASSUME NEW place \in {"idle", "dead"}, Events!LoseLine(w, place)
      PROVE  Events!TypeOK' /\ LogGrows' /\ WriterIsAlone' /\ UNCHANGED <<Events!readers, evLog>>
  <2>1. Events!TypeOK'
    <3>1. evFaults' \in 0..EvMaxFaults /\ evTorn' \in BOOLEAN
      <4>1. evTorn \in BOOLEAN /\ evFaults \in 0..EvMaxFaults
        BY DEF Events!TypeOK
      <4>2. evTorn' \in {evTorn, TRUE}
        BY <1>4 DEF Events!LoseLine
      <4>3. evTorn' \in BOOLEAN
        BY <4>1, <4>2
      <4>4. evFaults' \in 0..EvMaxFaults
        BY <1>4, <4>1 DEF Events!LoseLine, EventsBounds
      <4>5. QED
        BY <4>3, <4>4
    <3>2. evWpc' \in [Writers -> {"idle", "number", "write", "dead"}]
      BY <1>4 DEF Events!LoseLine, Events!TypeOK
    <3>3. QED
      BY <1>4, <3>1, <3>2 DEF Events!LoseLine, Events!TypeOK, Events!readers
  <2>2. LogGrows'
    BY <1>4 DEF Events!LoseLine, LogGrows
  <2>3. WriterIsAlone'
    <3>1. \A v \in Writers \ {w} : evWpc[v] \notin {"number", "write"}
      BY <1>4 DEF Events!LoseLine, WriterIsAlone
    <3>2. QED
      BY <1>4, <3>1 DEF Events!LoseLine, WriterIsAlone, Events!TypeOK
  <2>4. QED
    BY <1>4, <2>1, <2>2, <2>3 DEF Events!LoseLine
<1>5. QED
  BY <1>1, <1>2, <1>3, <1>4

(* A step of a reader, or of its client.                                   *)
LEMMA ReaderStep ==
    ASSUME EventsBounds, EventsInv, NEW r \in Readers,
              Events!Connect(r) \/ Events!Stream(r) \/ Events!Disconnect(r)
    PROVE  EventsInv'
<1>1. PICK n \in 0..Len(evLog) : SentUpTo(r, n)
  BY DEF EventsInv, ReaderFollows
<1>2. UNCHANGED Events!readerFrame
  BY DEF Events!Connect, Events!Stream, Events!ReadEvents, Events!Send, Events!ReadState,
      Events!Disconnect
<1>3. LogGrows' /\ WriterIsAlone'
  BY <1>2 DEF Events!readerFrame, Events!writers, EventsInv, LogGrows, WriterIsAlone
<1>4. /\ evLog \in Seq(Events!Numbers) /\ evBatch[r] \in Seq(Events!Numbers)
      /\ evGot[r] \in Seq(Events!Numbers)
      /\ evBatch \in [Readers -> Seq(Events!Numbers)] /\ evGot \in [Readers -> Seq(Events!Numbers)]
      /\ evCursor \in [Readers -> 0..MaxEvents] /\ evSome \in [Readers -> BOOLEAN]
      /\ evRpc \in [Readers -> {"off", "read", "send", "state", "end"}]
  BY DEF EventsInv, Events!TypeOK
<1>5. ASSUME /\ evBatch' \in [Readers -> Seq(Events!Numbers)]
             /\ evGot' \in [Readers -> Seq(Events!Numbers)]
             /\ evCursor' \in [Readers -> 0..MaxEvents] /\ evSome' \in [Readers -> BOOLEAN]
             /\ evRpc' \in [Readers -> {"off", "read", "send", "state", "end"}]
      PROVE  Events!TypeOK'
  BY <1>2, <1>5 DEF Events!readerFrame, Events!writers, EventsInv, Events!TypeOK
<1>6. CASE Events!Connect(r) \/ Events!ReadState(r)
  <2>1. UNCHANGED <<evBatch, evCursor, evGot>>
    BY <1>6 DEF Events!Connect, Events!ReadState
  <2>2. ReaderFollows'
    BY <1>2, <2>1, ReadersStay DEF EventsInv, Events!readerFrame
  <2>3. Events!TypeOK'
    BY <1>4, <1>5, <1>6 DEF Events!Connect, Events!ReadState
  <2>4. QED
    BY <1>3, <2>2, <2>3 DEF EventsInv
<1>7. CASE Events!ReadEvents(r)
  <2>1. /\ Events!Unread(r) \in Seq(Events!Numbers)
        /\ n + Len(Events!Unread(r)) <= Len(evLog)
        /\ \A i \in 1..Len(Events!Unread(r)) : Events!Unread(r)[i] = evLog[n + i]
    BY <1>1, UnreadIsNext DEF EventsInv
  <2>2. evBatch' = [evBatch EXCEPT ![r] = Events!Unread(r)] /\ UNCHANGED <<evCursor, evGot, evLog>>
    BY <1>2, <1>7 DEF Events!ReadEvents, Events!readerFrame
  <2>3. evBatch'[r] = Events!Unread(r)
    BY <1>4, <2>2
  <2>4. SentUpTo(r, n)'
    BY <1>1, <2>1, <2>2, <2>3 DEF SentUpTo
  <2>5. ReaderFollows'
    BY <1>4, <2>2, <2>4, ReaderMoves DEF EventsInv
  <2>6. Events!TypeOK'
    BY <1>4, <1>5, <1>7, <2>1 DEF Events!ReadEvents
  <2>7. QED
    BY <1>3, <2>5, <2>6 DEF EventsInv
<1>8. CASE Events!Send(r) /\ evBatch[r] = <<>>
  <2>1. UNCHANGED <<evBatch, evCursor, evGot>>
    BY <1>8 DEF Events!Send
  <2>2. ReaderFollows'
    BY <1>2, <2>1, ReadersStay DEF EventsInv, Events!readerFrame
  <2>3. Events!TypeOK'
    BY <1>4, <1>5, <1>8 DEF Events!Send
  <2>4. QED
    BY <1>3, <2>2, <2>3 DEF EventsInv
<1>9. CASE Events!Send(r) /\ evBatch[r] # <<>>
  <2> DEFINE head == Head(evBatch[r])
  <2>1. /\ evGot' = [evGot EXCEPT ![r] = Append(evGot[r], head)]
        /\ evCursor' = [evCursor EXCEPT ![r] = IF head > evCursor[r] THEN head ELSE evCursor[r]]
        /\ evBatch' = [evBatch EXCEPT ![r] = Tail(evBatch[r])]
        /\ UNCHANGED <<evLog, evRpc, evSome>>
    BY <1>2, <1>9 DEF Events!Send, Events!readerFrame
  <2>2. /\ Len(evBatch[r]) >= 1 /\ head = evBatch[r][1] /\ head \in Events!Numbers
        /\ Tail(evBatch[r]) \in Seq(Events!Numbers) /\ Len(Tail(evBatch[r])) = Len(evBatch[r]) - 1
        /\ \A i \in 1..(Len(evBatch[r]) - 1) : Tail(evBatch[r])[i] = evBatch[r][i + 1]
    BY <1>4, <1>9
  <2>3. n \in Nat /\ Len(evLog) \in Nat /\ Len(evBatch[r]) \in Nat /\ n + 1 \in 1..Len(evLog)
    BY <1>1, <1>4, <2>2 DEF SentUpTo
  <2>4. head = evLog[n + 1]
    BY <1>1, <2>2, <2>3 DEF SentUpTo
  <2>5. head > evCursor[r]
    <3>1. CASE n = 0
      BY <1>1, <2>2, <3>1 DEF SentUpTo, Events!Numbers
    <3>2. CASE n # 0
      <4>1. n \in 1..Len(evLog) /\ evCursor[r] = evLog[n]
        BY <1>1, <2>3, <3>2 DEF SentUpTo
      <4>2. evLog[n] < evLog[n + 1]
        BY <2>3, <4>1 DEF EventsInv, LogGrows
      <4>3. QED
        BY <1>4, <2>2, <2>3, <2>4, <4>1, <4>2 DEF Events!Numbers
    <3>3. QED
      BY <3>1, <3>2
  <2> HIDE DEF head
  <2>6. evCursor'[r] = head /\ evGot'[r] = Append(evGot[r], head) /\ evBatch'[r] = Tail(evBatch[r])
    BY <1>4, <2>1, <2>5
  <2>7. SubSeq(evLog, 1, n + 1) = Append(SubSeq(evLog, 1, n), evLog[n + 1])
    BY <1>4, <2>3
  <2>8. \A i \in 1..Len(evBatch'[r]) : evBatch'[r][i] = evLog[n + 1 + i]
    <3> SUFFICES ASSUME NEW i \in 1..(Len(evBatch[r]) - 1)
                 PROVE  evBatch[r][i + 1] = evLog[n + 1 + i]
      BY <2>2, <2>6
    <3>1. i + 1 \in 1..Len(evBatch[r]) /\ n + (i + 1) = n + 1 + i
      BY <2>3
    <3>2. QED
      BY <1>1, <3>1 DEF SentUpTo
  <2>9. SentUpTo(r, n + 1)'
    <3>1. evGot'[r] = SubSeq(evLog', 1, n + 1)
      BY <1>1, <2>1, <2>4, <2>6, <2>7 DEF SentUpTo
    <3>2. evCursor'[r] = IF n + 1 = 0 THEN 0 ELSE evLog'[n + 1]
      BY <2>1, <2>3, <2>4, <2>6
    <3>3. n + 1 + Len(evBatch'[r]) <= Len(evLog')
      <4>1. n + Len(evBatch[r]) <= Len(evLog)
        BY <1>1 DEF SentUpTo
      <4>2. Len(evBatch'[r]) = Len(evBatch[r]) - 1 /\ Len(evLog') = Len(evLog)
        BY <2>1, <2>2, <2>6
      <4>3. n + 1 + (Len(evBatch[r]) - 1) <= Len(evLog)
        <5> DEFINE a == Len(evBatch[r])
                   b == Len(evLog)
        <5>1. a \in Nat /\ b \in Nat /\ n \in Nat /\ n + a <= b
          BY <2>3, <4>1
        <5> HIDE DEF a, b
        <5>2. n + 1 + (a - 1) <= b
          BY <5>1
        <5>3. QED
          BY <5>2 DEF a, b
      <4>4. QED
        BY <4>2, <4>3, Zenon
    <3>4. QED
      BY <2>1, <2>8, <3>1, <3>2, <3>3 DEF SentUpTo
  <2>10. ReaderFollows'
    BY <1>4, <2>1, <2>3, <2>9, ReaderMoves DEF EventsInv
  <2>11. Events!TypeOK'
    <3>1. evCursor' \in [Readers -> 0..MaxEvents]
      BY <1>4, <2>1, <2>2 DEF Events!Numbers
    <3>2. evBatch' \in [Readers -> Seq(Events!Numbers)]
               /\ evGot' \in [Readers -> Seq(Events!Numbers)]
      BY <1>4, <2>1, <2>2
    <3>3. QED
      BY <1>4, <1>5, <2>1, <3>1, <3>2
  <2>12. QED
    BY <1>3, <2>10, <2>11 DEF EventsInv
<1>10. CASE Events!Disconnect(r)
  <2>1. evBatch' = [evBatch EXCEPT ![r] = <<>>] /\ UNCHANGED <<evCursor, evGot, evLog>>
    BY <1>2, <1>10 DEF Events!Disconnect, Events!readerFrame
  <2>2. evBatch'[r] = <<>> /\ Len(<<>>) = 0 /\ <<>> \in Seq(Events!Numbers)
    BY <1>4, <2>1
  <2>3. SentUpTo(r, n)'
    BY <1>1, <2>1, <2>2 DEF SentUpTo
  <2>4. ReaderFollows'
    BY <1>4, <2>1, <2>3, ReaderMoves DEF EventsInv
  <2>5. Events!TypeOK'
    BY <1>4, <1>5, <1>10, <2>2 DEF Events!Disconnect
  <2>6. QED
    BY <1>3, <2>4, <2>5 DEF EventsInv
<1>11. QED
  BY <1>6, <1>7, <1>8, <1>9, <1>10 DEF Events!Stream

(* Every step.                                                             *)
LEMMA EventsNextInv ==
    ASSUME EventsBounds
    PROVE  EventsInv /\ [Events!Next]_(Events!vars) => EventsInv'
<1> SUFFICES ASSUME EventsInv, [Events!Next]_(Events!vars) PROVE EventsInv'
  OBVIOUS
<1>1. ASSUME NEW w \in Writers,
             Events!StartAppend(w) \/ Events!TakeNumber(w) \/ Events!WriteLine(w)
             \/ Events!LoseLine(w, "idle") \/ Events!LoseLine(w, "dead")
      PROVE  EventsInv'
  <2>1. /\ Events!TypeOK' /\ LogGrows' /\ WriterIsAlone' /\ UNCHANGED Events!readers
        /\ evLog' = evLog \/ \E x \in Events!Numbers : evLog' = Append(evLog, x)
    BY <1>1, WriterStep DEF EventsInv
  <2>2. UNCHANGED <<evBatch, evCursor, evGot>>
    BY <2>1 DEF Events!readers
  <2>3. ReaderFollows'
    BY <2>1, <2>2, ReadersStay DEF EventsInv
  <2>4. QED
    BY <2>1, <2>3 DEF EventsInv
<1>2. CASE Events!EndJob \/ UNCHANGED Events!vars
  <2>1. UNCHANGED <<evHolder, evSeq, evLog, evTorn, Events!writers, Events!readers>>
             /\ evEnded' \in BOOLEAN
    BY <1>2 DEF Events!EndJob, Events!vars, EventsInv, Events!TypeOK
  <2>2. ReaderFollows'
    BY <2>1, ReadersStay DEF EventsInv, Events!readers
  <2>3. Events!TypeOK'
    BY <2>1 DEF EventsInv, Events!TypeOK, Events!writers, Events!readers
  <2>4. LogGrows' /\ WriterIsAlone'
    BY <2>1 DEF EventsInv, LogGrows, WriterIsAlone, Events!writers
  <2>5. QED
    BY <2>2, <2>3, <2>4 DEF EventsInv
<1>3. ASSUME NEW r \in Readers, Events!Connect(r) \/ Events!Stream(r) \/ Events!Disconnect(r)
             PROVE EventsInv'
  BY <1>3, ReaderStep
<1>4. QED
  BY <1>1, <1>2, <1>3 DEF Events!Next

(* The property from the invariant.                                        *)
LEMMA EventsInvOnce == ASSUME EventsBounds PROVE EventsInv => Events!EachEventOnce
<1> SUFFICES ASSUME EventsInv, NEW r \in Readers
             PROVE  \E n \in 0..Len(evLog) :
                        /\ evGot[r] = SubSeq(evLog, 1, n)
                        /\ \A i \in 1..Len(evLog) : i <= n <=> evLog[i] <= evCursor[r]
  BY DEF Events!EachEventOnce
<1>1. PICK n \in 0..Len(evLog) : SentUpTo(r, n)
  BY DEF EventsInv, ReaderFollows
<1>2. evLog \in Seq(Events!Numbers) /\ \A i \in 1..Len(evLog) : evLog[i] \in Nat /\ evLog[i] >= 1
  <2>1. evLog \in Seq(Events!Numbers)
    BY DEF EventsInv, Events!TypeOK
  <2>2. \A i \in 1..Len(evLog) : evLog[i] \in Events!Numbers
    BY <2>1
  <2> QED
    BY ONLY <2>1, <2>2, EventsBounds DEF Events!Numbers, EventsBounds
<1>3. ASSUME NEW i \in 1..Len(evLog) PROVE i <= n <=> evLog[i] <= evCursor[r]
  <2>1. CASE n = 0
    BY <1>1, <1>2, <2>1 DEF SentUpTo
  <2>2. CASE n # 0
    <3>1. n \in 1..Len(evLog) /\ evCursor[r] = evLog[n] /\ Len(evLog) \in Nat
      BY <1>1, <1>2, <2>2 DEF SentUpTo
    <3>2. (i < n => evLog[i] < evLog[n]) /\ (n < i => evLog[n] < evLog[i])
      BY <3>1 DEF EventsInv, LogGrows
    <3>3. QED
      BY <1>2, <3>1, <3>2
  <2>3. QED
    BY <2>1, <2>2
<1>4. QED
  BY <1>1, <1>3 DEF SentUpTo

(* A client was sent each readable event once and in order, whichever      *)
(* writer died holding a number and whenever the client came               *)
(* (append_event, read_events, stream_job_events).                         *)
THEOREM EventsOnce == ASSUME EventsBounds PROVE Events!Spec => []Events!EachEventOnce
  BY EventsInitInv, EventsNextInv, EventsInvOnce, PTL DEF Events!Spec

-----------------------------------------------------------------------------
\* The composition.

(* The proofs of the two services that have a module of their own.         *)
Emb == INSTANCE EmbeddingIndexProofs WITH
    MaxSource <- EmbMaxSource, MaxFaults <- EmbMaxFaults,
    source <- embSource, vectors <- embVectors, parts <- embParts,
    checkpoint <- embCheckpoint, manifest <- embManifest, pc <- embPc,
    signature <- embSignature, read <- embRead, rows <- embRows,
    numbered <- embNumbered, kept <- embKept, faults <- embFaults,
    spoiled <- embSpoiled

Cut == INSTANCE DatasetSplitsProofs WITH
    Sources <- CutSources,
    mode <- cutMode, ratio <- cutRatio, geo <- cutGeo, links <- cutLinks,
    parents <- cutParents, unmerged <- cutUnmerged, group <- cutGroup,
    split <- cutSplit, stage <- cutStage

(* The bounds are those the proofs assume.                                 *)
LEMMA BoundsSound == Emb!Sound /\ Cut!Sound
  BY BoundsAssumption
     DEF EmbeddingsBounds, SplittingBounds, Emb!Sound, Cut!Sound, Cut!IsFiniteSet, IsFiniteSet

(* What the proofs are about is the service of the composition.            *)
LEMMA EmbeddingsSame ==
    /\ Embeddings!Spec => Emb!Spec
    /\ Emb!TypeOK => Embeddings!TypeOK
    /\ Emb!IndexIsWhole => Embeddings!IndexIsWhole
<1>1. Embeddings!Init => Emb!Init
  BY DEF Embeddings!Init, Emb!Init, Embeddings!NoCheckpoint, Emb!NoCheckpoint,
      Embeddings!NoManifest, Emb!NoManifest, Embeddings!NoSource, Emb!NoSource
<1>2. [Embeddings!Next]_(Embeddings!vars) => [Emb!Next]_(Emb!vars)
  BY DEF Embeddings!Next, Emb!Next, Embeddings!vars, Emb!vars,
      Embeddings!ChangeSource, Emb!ChangeSource, Embeddings!BuildStep, Emb!BuildStep,
      Embeddings!Die, Emb!Die, Embeddings!disk, Emb!disk, Embeddings!build, Emb!build,
      Embeddings!StartBuild, Emb!StartBuild, Embeddings!ReadCheckpoint, Emb!ReadCheckpoint,
      Embeddings!ResetManifest, Emb!ResetManifest,
      Embeddings!ResetCheckpoint, Emb!ResetCheckpoint,
      Embeddings!ResetParts, Emb!ResetParts, Embeddings!Truncate, Emb!Truncate,
      Embeddings!TrimParts, Emb!TrimParts, Embeddings!ReadBatch, Emb!ReadBatch,
      Embeddings!AppendVectors, Emb!AppendVectors, Embeddings!WritePart, Emb!WritePart,
      Embeddings!Commit, Emb!Commit, Embeddings!Finish, Emb!Finish,
      Embeddings!BuildEnds, Emb!BuildEnds, Embeddings!Loads, Emb!Loads,
      Embeddings!StartReset, Emb!StartReset, Embeddings!NoManifest, Emb!NoManifest,
      Embeddings!NoCheckpoint, Emb!NoCheckpoint, Embeddings!Truncated, Emb!Truncated,
      Embeddings!InOrder, Emb!InOrder, Embeddings!NoSource, Emb!NoSource,
      Embeddings!Zero, Emb!Zero
<1>3. Emb!TypeOK => Embeddings!TypeOK
  BY DEF Embeddings!TypeOK, Emb!TypeOK, Embeddings!Sources, Emb!Sources,
      Embeddings!Objects, Emb!Objects, Embeddings!Zero, Emb!Zero,
      Embeddings!Cursor, Emb!Cursor, Embeddings!NoSource, Emb!NoSource
<1>4. Emb!IndexIsWhole => Embeddings!IndexIsWhole
  BY DEF Embeddings!IndexIsWhole, Emb!IndexIsWhole, Embeddings!Loads, Emb!Loads,
      Embeddings!RowOf, Emb!RowOf
<1>5. QED
  BY <1>1, <1>2, <1>3, <1>4, PTL DEF Embeddings!Spec, Emb!Spec

(* The same for the splits, action by action.                              *)
LEMMA SplittingSame ==
    /\ Splitting!Spec => Cut!Spec
    /\ Cut!TypeOK => Splitting!TypeOK
    /\ Cut!NothingLeaks => Splitting!NothingLeaks
<1>1. Splitting!Init => Cut!Init
  BY DEF Splitting!Init, Cut!Init, Splitting!GroupedModes, Cut!GroupedModes,
      Splitting!SpatialModes, Cut!SpatialModes, Splitting!Unplaced, Cut!Unplaced
<1>2. ASSUME NEW s \in CutSources PROVE Splitting!MergeSource(s) => Cut!MergeSource(s)
  BY DEF Splitting!MergeSource, Cut!MergeSource, Splitting!First, Cut!First,
      Splitting!Union, Cut!Union, Splitting!Root, Cut!Root,
      Splitting!SameGroup, Cut!SameGroup, Splitting!ImageBlock, Cut!ImageBlock,
      Splitting!Located, Cut!Located, Splitting!GeoBlock, Cut!GeoBlock,
      Splitting!Span, Cut!Span, Splitting!Min, Cut!Min
<1>3. ASSUME NEW r \in Tiles PROVE Splitting!PlaceGroup(r) => Cut!PlaceGroup(r)
  <2>1. \A S : Splitting!Cardinality(S) = Cut!Cardinality(S)
    BY DEF Splitting!Cardinality, Cut!Cardinality
  <2>2. /\ \A s : Splitting!Target(s) = Cut!Target(s)
        /\ \A s : Splitting!Count(s) = Cut!Count(s)
        /\ \A s : Splitting!Rank(s) = Cut!Rank(s)
        /\ \A q : Splitting!Group(q) = Cut!Group(q)
        /\ Splitting!Roots = Cut!Roots /\ Splitting!Left = Cut!Left
    BY <2>1 DEF Splitting!Target, Cut!Target, Splitting!NumTiles, Cut!NumTiles,
        Splitting!Count, Cut!Count, Splitting!Members, Cut!Members, Splitting!Rank, Cut!Rank,
        Splitting!Group, Cut!Group, Splitting!Roots, Cut!Roots, Splitting!Left, Cut!Left,
        Splitting!Unplaced, Cut!Unplaced
  <2>3. Splitting!Wanted = Cut!Wanted
    BY <2>2 DEF Splitting!Wanted, Cut!Wanted, Splitting!Splits, Cut!Splits
  <2>4. Splitting!LeastFull = Cut!LeastFull
    BY <2>2, <2>3 DEF Splitting!LeastFull, Cut!LeastFull, Splitting!LessFull, Cut!LessFull
  <2>5. \A sp : Splitting!WithTest(sp) = Cut!WithTest(sp)
    BY DEF Splitting!WithTest, Cut!WithTest, Splitting!Members, Cut!Members,
        Splitting!Roots, Cut!Roots, Splitting!Group, Cut!Group, Splitting!Target, Cut!Target,
        Splitting!NumTiles, Cut!NumTiles, Splitting!Cardinality, Cut!Cardinality
  <2>6. QED
    BY <2>1, <2>2, <2>4, <2>5
       DEF Splitting!PlaceGroup, Cut!PlaceGroup, Splitting!Placed, Cut!Placed,
           Splitting!GroupedModes, Cut!GroupedModes, Splitting!SpatialModes, Cut!SpatialModes
<1>4. Splitting!PlaceBalanced => Cut!PlaceBalanced
  BY DEF Splitting!PlaceBalanced, Cut!PlaceBalanced, Splitting!Roots, Cut!Roots,
      Splitting!Splits, Cut!Splits
<1>5. Splitting!PlaceRandom => Cut!PlaceRandom
  BY DEF Splitting!PlaceRandom, Cut!PlaceRandom, Splitting!Splits, Cut!Splits,
      Splitting!Members, Cut!Members, Splitting!Target, Cut!Target,
      Splitting!NumTiles, Cut!NumTiles, Splitting!Cardinality, Cut!Cardinality
<1>6. Splitting!ApplyBuffer => Cut!ApplyBuffer
  BY DEF Splitting!ApplyBuffer, Cut!ApplyBuffer, Splitting!SpatialModes, Cut!SpatialModes,
      Splitting!Located, Cut!Located, Splitting!TooClose, Cut!TooClose,
      Splitting!Dropped, Cut!Dropped, Splitting!Cell, Cut!Cell,
      Splitting!Searched, Cut!Searched, Splitting!Near, Cut!Near,
      Splitting!Buffer, Cut!Buffer, Splitting!Neighbours, Cut!Neighbours,
      Splitting!Square, Cut!Square, Splitting!Span, Cut!Span
<1>7. [Splitting!Next]_(Splitting!vars) => [Cut!Next]_(Cut!vars)
  BY <1>2, <1>3, <1>4, <1>5, <1>6 DEF Splitting!Next, Cut!Next, Splitting!vars, Cut!vars
<1>8. Cut!TypeOK => Splitting!TypeOK
  BY DEF Splitting!TypeOK, Cut!TypeOK, Splitting!Splits, Cut!Splits,
      Splitting!Unplaced, Cut!Unplaced, Splitting!Dropped, Cut!Dropped
<1>9. Cut!NothingLeaks => Splitting!NothingLeaks
  BY DEF Splitting!NothingLeaks, Cut!NothingLeaks, Splitting!GroupedModes, Cut!GroupedModes,
      Splitting!Splits, Cut!Splits, Splitting!SpatialModes, Cut!SpatialModes,
      Splitting!Located, Cut!Located, Splitting!Near, Cut!Near,
      Splitting!Square, Cut!Square, Splitting!Buffer, Cut!Buffer, Splitting!Span, Cut!Span
<1>10. QED
  BY <1>1, <1>7, <1>8, <1>9, PTL DEF Splitting!Spec, Cut!Spec

(* A behaviour of the composition is one of each service: the service that *)
(* runs takes its step and the others stand still.                         *)
LEMMA ServicesRun ==
    ServicesSpec => /\ Spec /\ Pub!Spec /\ Calls!Spec /\ Events!Spec
                    /\ Embeddings!Spec /\ Splitting!Spec
<1>1. ServicesInit => /\ Init /\ Pub!Init /\ Calls!Init /\ Events!Init
                      /\ Embeddings!Init /\ Splitting!Init
  BY DEF ServicesInit
<1> USE DEF ServicesNext, allVars, InLock, InPublication, InCalls, InEvents, InEmbeddings,
            InSplits, lockVars, pubVars, callVars, evVars, embVars, cutVars
<1>2. [ServicesNext]_allVars => [Next]_vars
  BY DEF vars
<1>3. [ServicesNext]_allVars => [Pub!Next]_(Pub!vars)
  BY DEF Pub!vars, Pub!files, Pub!workerVars, Pub!views
<1>4. [ServicesNext]_allVars => [Calls!Next]_(Calls!vars)
  BY DEF Calls!vars
<1>5. [ServicesNext]_allVars => [Events!Next]_(Events!vars)
  BY DEF Events!vars, Events!writers, Events!readers
<1>6. [ServicesNext]_allVars => [Embeddings!Next]_(Embeddings!vars)
  BY DEF Embeddings!vars, Embeddings!disk, Embeddings!build
<1>7. [ServicesNext]_allVars => [Splitting!Next]_(Splitting!vars)
  BY DEF Splitting!vars
<1>8. QED
  BY <1>1, <1>2, <1>3, <1>4, <1>5, <1>6, <1>7, PTL
     DEF ServicesSpec, Spec, Pub!Spec, Calls!Spec, Events!Spec, Embeddings!Spec, Splitting!Spec

(* In the composition two processes that do not come back exclude each     *)
(* other, and the lock file of a live one stays (interprocess_lock).       *)
THEOREM ServicesExclude ==
  ASSUME Prompt, ~Restarts, NEW p \in Procs, NEW q \in Procs, Procs = {p, q}
  PROVE  ServicesSpec => []MutualExclusion /\ LiveLockStays
<1>1. Spec => []MutualExclusion /\ LiveLockStays
  BY TwoProcessesExclude
<1>2. QED
  BY <1>1, ServicesRun, PTL

(* The values every service works with stay of their types.                *)
THEOREM ServicesTypes == ServicesSpec => []TypesOK
<1>1. Pub!Spec => []Pub!TypeOK
  BY BoundsAssumption, PublicationTypes
<1>2. Calls!Spec => []Calls!TypeOK
  <2>1. Calls!Init => CallsInv
    BY BoundsAssumption, CallsInitInv
  <2>2. CallsInv /\ [Calls!Next]_(Calls!vars) => CallsInv'
    BY BoundsAssumption, CallsNextInv
  <2>3. CallsInv => Calls!TypeOK
    BY DEF CallsInv
  <2>4. QED
    BY <2>1, <2>2, <2>3, PTL DEF Calls!Spec
<1>3. Events!Spec => []Events!TypeOK
  <2>1. Events!Init => EventsInv
    BY BoundsAssumption, EventsInitInv
  <2>2. EventsInv /\ [Events!Next]_(Events!vars) => EventsInv'
    BY BoundsAssumption, EventsNextInv
  <2>3. EventsInv => Events!TypeOK
    BY DEF EventsInv
  <2>4. QED
    BY <2>1, <2>2, <2>3, PTL DEF Events!Spec
<1>4. Emb!Spec => []Emb!TypeOK
  BY BoundsSound, Emb!IndexTypes
<1>5. Cut!Spec => []Cut!TypeOK
  BY BoundsSound, Cut!SplitTypes
<1>6. /\ Embeddings!Spec => Emb!Spec
      /\ Emb!TypeOK => Embeddings!TypeOK
      /\ Splitting!Spec => Cut!Spec
      /\ Cut!TypeOK => Splitting!TypeOK
  BY EmbeddingsSame, SplittingSame
<1>7. /\ TypeOK /\ Pub!TypeOK /\ Calls!TypeOK /\ Events!TypeOK
      /\ Embeddings!TypeOK /\ Splitting!TypeOK
      => TypesOK
  BY DEF TypesOK
<1>8. QED
  BY <1>1, <1>2, <1>3, <1>4, <1>5, <1>6, <1>7, LockTyped, ServicesRun, PTL

(* FullresPublication: a view is never shown another source's pixels, in   *)
(* the composition, with the same exemption (vanished).                    *)
THEOREM ShownPixelsAreCurrent == ServicesSpec => []ShownIsCurrent
<1>1. Pub!Spec => []Pub!ShownIsCurrent
  BY BoundsAssumption, PixelsAreOfTheSource
<1>2. QED
  BY <1>1, ServicesRun, PTL DEF ShownIsCurrent

(* SingleFlight: the table implements SharedCall, in the composition.      *)
THEOREM CallsAreShared == ServicesSpec => ImplementsSharedCall
<1>1. Calls!Spec => Calls!ImplementsSharedCall
  BY BoundsAssumption, Refinement
<1>2. QED
  BY <1>1, ServicesRun DEF ImplementsSharedCall

(* JobEvents: a client was sent each readable event once and in order,     *)
(* whichever writer died holding a number and whenever the client came.    *)
THEOREM EventsAreSentOnce == ServicesSpec => []EachEventOnce
<1>1. Events!Spec => []Events!EachEventOnce
  BY BoundsAssumption, EventsOnce
<1>2. QED
  BY <1>1, ServicesRun, PTL DEF EachEventOnce

(* EmbeddingIndex: an index that loads has the right object in every row,  *)
(* whenever the worker dies and the source changes.                        *)
THEOREM LoadedIndexIsWhole == ServicesSpec => []IndexIsWhole
<1>1. Emb!Spec => []Emb!IndexIsWhole
  BY BoundsSound, Emb!IndexWhole
<1>2. /\ Embeddings!Spec => Emb!Spec
      /\ Emb!IndexIsWhole => Embeddings!IndexIsWhole
  BY EmbeddingsSame
<1>3. QED
  BY <1>1, <1>2, ServicesRun, PTL DEF IndexIsWhole

(* DatasetSplits: no source annotation in two splits, no train tile in the *)
(* belt around val and test.                                               *)
THEOREM SplitsDoNotLeak == ServicesSpec => []NothingLeaks
<1>1. Cut!Spec => []Cut!NothingLeaks
  BY BoundsSound, Cut!SplitsLeakNothing
<1>2. /\ Splitting!Spec => Cut!Spec
      /\ Cut!NothingLeaks => Splitting!NothingLeaks
  BY SplittingSame
<1>3. Splitting!NothingLeaks => NothingLeaks
  BY DEF NothingLeaks
<1>4. QED
  BY <1>1, <1>2, <1>3, ServicesRun, PTL
=============================================================================
