----------------------------- MODULE JobEvents -----------------------------
(***************************************************************************)
(* The event log of one job and the streams that tail it: append_event,    *)
(* read_events and stream_job_events of services/jobs/events.py.           *)
(*                                                                         *)
(* Writers (the worker and the backend) number an event in state.json and  *)
(* then write its line, both under .events.lock; readers take no lock and  *)
(* go by the numbers.  A writer may die in between.  What an event says is *)
(* left out, and with it the choice legacy_only makes among the delivered  *)
(* events; a reader that sees part of a line skips it and reads it again.  *)
(***************************************************************************)
EXTENDS Naturals, Sequences, FiniteSets

CONSTANTS
    Writers, Readers,
    MaxEvents,   \* bound on calls of append_event
    MaxFaults,   \* bound on writers killed and writes failed
    Batch,       \* limit of read_events
    Nobody

VARIABLES
    holder,   \* who holds .events.lock
    seq,      \* event_seq of state.json
    log,      \* the readable lines, by number
    torn,     \* does the file end in part of a line?
    ended,    \* is the job's status terminal?
    wpc, number, events, faults,   \* writers
    rpc, batch, some, cursor, got  \* readers: place, records read and not yet
                                   \* sent, were there any, last number, sent

writers == <<wpc, number, events, faults>>
readers == <<rpc, batch, some, cursor, got>>
vars == <<holder, seq, log, torn, ended, writers, readers>>

Numbers == 1..MaxEvents

TypeOK ==
    /\ holder \in Writers \union {Nobody}
    /\ seq \in 0..MaxEvents
    /\ log \in Seq(Numbers) /\ torn \in BOOLEAN /\ ended \in BOOLEAN
    /\ wpc \in [Writers -> {"idle", "number", "write", "dead"}]
    /\ number \in [Writers -> 0..MaxEvents]
    /\ events \in 0..MaxEvents /\ faults \in 0..MaxFaults
    /\ rpc \in [Readers -> {"off", "read", "send", "state", "end"}]
    /\ batch \in [Readers -> Seq(Numbers)] /\ got \in [Readers -> Seq(Numbers)]
    /\ some \in [Readers -> BOOLEAN] /\ cursor \in [Readers -> 0..MaxEvents]

Init ==
    /\ holder = Nobody /\ seq = 0 /\ log = <<>> /\ torn = FALSE /\ ended = FALSE
    /\ wpc = [w \in Writers |-> "idle"] /\ number = [w \in Writers |-> 0]
    /\ events = 0 /\ faults = 0
    /\ rpc = [r \in Readers |-> "off"] /\ batch = [r \in Readers |-> <<>>]
    /\ some = [r \in Readers |-> FALSE] /\ cursor = [r \in Readers |-> 0]
    /\ got = [r \in Readers |-> <<>>]

-----------------------------------------------------------------------------
(* Writers.                                                                *)

(* Mutant of LockFree: the lock is not taken.                              *)
NoLock == TRUE

LockFree == holder = Nobody

StartAppend(w) ==
    /\ wpc[w] = "idle" /\ events < MaxEvents /\ LockFree
    /\ holder' = w
    /\ wpc' = [wpc EXCEPT ![w] = "number"]
    /\ events' = events + 1
    /\ UNCHANGED <<seq, log, torn, ended, number, faults, readers>>

TakeNumber(w) ==
    /\ wpc[w] = "number"
    /\ seq' = seq + 1
    /\ number' = [number EXCEPT ![w] = seq + 1]
    /\ wpc' = [wpc EXCEPT ![w] = "write"]
    /\ UNCHANGED <<holder, log, torn, ended, events, faults, readers>>

(* A line after part of a line makes one unreadable line with it.          *)
WriteLine(w) ==
    /\ wpc[w] = "write"
    /\ log' = IF torn THEN log ELSE Append(log, number[w])
    /\ torn' = FALSE
    /\ wpc' = [wpc EXCEPT ![w] = "idle"]
    /\ holder' = Nobody
    /\ UNCHANGED <<seq, ended, number, events, faults, readers>>

(* A full disk, or the writer is killed: the line is missing or torn.  The *)
(* lock of a dead writer goes by the rules of InterprocessLock.            *)
LoseLine(w, place) ==
    /\ faults < MaxFaults
    /\ wpc[w] \in {"number", "write"}
    /\ faults' = faults + 1
    /\ torn' \in IF wpc[w] = "write" THEN {torn, TRUE} ELSE {torn}
    /\ wpc' = [wpc EXCEPT ![w] = place]
    /\ holder' = Nobody
    /\ UNCHANGED <<seq, log, ended, number, events, readers>>

(* Somebody writes the last status: the worker, a cancel or the recovery.  *)
EndJob ==
    /\ ~ended
    /\ ended' = TRUE
    /\ UNCHANGED <<holder, seq, log, torn, writers, readers>>

-----------------------------------------------------------------------------
(* Readers.                                                                *)

readerFrame == <<holder, seq, log, torn, ended, writers>>

(* A stream is opened, anew or after the last number it was sent (after).  *)
(* The endpoints of data sets and predictions give none and begin anew.    *)
Connect(r) ==
    /\ rpc[r] = "off"
    /\ rpc' = [rpc EXCEPT ![r] = "read"]
    /\ UNCHANGED <<batch, some, cursor, got, readerFrame>>

(* read_events: in the order of the file, and at most so many.  The n-th   *)
(* new line is the one with n new lines up to it.                          *)
Unread(r) ==
    LET new == {i \in 1..Len(log) : log[i] > cursor[r]}
        line(n) == CHOOSE i \in new : Cardinality({j \in new : j <= i}) = n
        many == Cardinality(new)
    IN  [n \in 1..(IF many < Batch THEN many ELSE Batch) |-> log[line(n)]]

ReadEvents(r) ==
    /\ rpc[r] = "read"
    /\ batch' = [batch EXCEPT ![r] = Unread(r)]
    /\ some' = [some EXCEPT ![r] = Unread(r) # <<>>]
    /\ rpc' = [rpc EXCEPT ![r] = "send"]
    /\ UNCHANGED <<cursor, got, readerFrame>>

Send(r) ==
    /\ rpc[r] = "send"
    /\ IF batch[r] = <<>>
       THEN rpc' = [rpc EXCEPT ![r] = "state"] /\ UNCHANGED <<batch, cursor, got>>
       ELSE /\ got' = [got EXCEPT ![r] = Append(@, Head(batch[r]))]
            /\ cursor' = [cursor EXCEPT ![r] = IF Head(batch[r]) > @ THEN Head(batch[r]) ELSE @]
            /\ batch' = [batch EXCEPT ![r] = Tail(@)]
            /\ UNCHANGED rpc
    /\ UNCHANGED <<some, readerFrame>>

(* Mutant of MayEnd: the stream waits for every number that was given.     *)
MayEndAtSeq(r) == ended /\ cursor[r] = seq

MayEnd(r) == ended /\ ~some[r]

ReadState(r) ==
    /\ rpc[r] = "state"
    /\ rpc' = [rpc EXCEPT ![r] = IF MayEnd(r) THEN "end" ELSE "read"]
    /\ UNCHANGED <<batch, some, cursor, got, readerFrame>>

Disconnect(r) ==
    /\ rpc[r] \in {"read", "send", "state"}
    /\ rpc' = [rpc EXCEPT ![r] = "off"]
    /\ batch' = [batch EXCEPT ![r] = <<>>]
    /\ some' = [some EXCEPT ![r] = FALSE]
    /\ UNCHANGED <<cursor, got, readerFrame>>

Stream(r) == ReadEvents(r) \/ Send(r) \/ ReadState(r)

Next ==
    \/ \E w \in Writers :
        \/ StartAppend(w) \/ TakeNumber(w) \/ WriteLine(w)
        \/ LoseLine(w, "idle") \/ LoseLine(w, "dead")
    \/ EndJob
    \/ \E r \in Readers : Connect(r) \/ Stream(r) \/ Disconnect(r)

Spec == Init /\ [][Next]_vars

(* Every job settles (JobManager), and a stream polls on.                  *)
Fairness == WF_vars(EndJob) /\ \A r \in Readers : WF_vars(Stream(r))

FairSpec == Spec /\ Fairness

-----------------------------------------------------------------------------
(* Properties.                                                             *)

(* A client has been sent every readable event up to the number it would   *)
(* come back with, each once and in order, whoever else appends, dies or   *)
(* tears a line (stream_job_events, "reconnectable polling stream").       *)
EachEventOnce ==
    \A r \in Readers :
        \E n \in 0..Len(log) :
            /\ got[r] = SubSeq(log, 1, n)
            /\ \A i \in 1..Len(log) : i <= n <=> log[i] <= cursor[r]

(* A stream that its client does not leave ends, also when numbers were    *)
(* given to events that were never written (stream_job_events).            *)
StreamEnds == \A r \in Readers : rpc[r] = "read" ~> rpc[r] \in {"off", "end"}
=============================================================================
