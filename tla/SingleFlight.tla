---------------------------- MODULE SingleFlight ----------------------------
(***************************************************************************)
(* SingleFlight.do of services/single_flight.py, which lets the requests   *)
(* for one tile (routers/scenes.py) share one rendering.                   *)
(*                                                                         *)
(* The leader sets the outcome, takes its call out of the table, and only  *)
(* then wakes the waiters: three steps, and a caller may come between any  *)
(* two of them.  A call is named by the number of the request that made    *)
(* it.  fn is the rendering: it ends, with a result or an exception.       *)
(***************************************************************************)
EXTENDS Naturals

CONSTANTS
    Callers,     \* request threads
    Keys,
    Outcomes,    \* what fn may end with, an exception included
    NoKey, Pending,
    MaxRequests  \* bound on requests

NoCall == 0
Calls == 1..MaxRequests

VARIABLES
    table,    \* _calls
    call,     \* the call objects: key, value or error, done
    pc, key, ref,   \* a caller: place, key, the call it leads or waits for
    ticket,   \* the number of its request
    requests, \* requests so far
    got       \* what it was last given

vars == <<table, call, pc, key, ref, ticket, requests, got>>

Leading == {"lead", "pop", "signal", "return"}

TypeOK ==
    /\ table \in [Keys -> Calls \union {NoCall}]
    /\ call \in [Calls -> [key: Keys \union {NoKey}, done: BOOLEAN,
                           outcome: Outcomes \union {Pending}]]
    /\ pc \in [Callers -> {"idle", "enter", "wait"} \union Leading]
    /\ key \in [Callers -> Keys \union {NoKey}]
    /\ ref \in [Callers -> Calls \union {NoCall}]
    /\ ticket \in [Callers -> Calls \union {NoCall}]
    /\ requests \in 0..MaxRequests
    /\ got \in [Callers -> Outcomes \union {Pending}]

Init ==
    /\ table = [k \in Keys |-> NoCall]
    /\ call = [i \in Calls |-> [key |-> NoKey, done |-> FALSE, outcome |-> Pending]]
    /\ pc = [c \in Callers |-> "idle"]
    /\ key = [c \in Callers |-> NoKey]
    /\ ref = [c \in Callers |-> NoCall]
    /\ ticket = [c \in Callers |-> NoCall]
    /\ requests = 0
    /\ got = [c \in Callers |-> Pending]

Request(c, k) ==
    /\ requests < MaxRequests
    /\ pc[c] = "idle"
    /\ requests' = requests + 1
    /\ pc' = [pc EXCEPT ![c] = "enter"]
    /\ key' = [key EXCEPT ![c] = k]
    /\ ticket' = [ticket EXCEPT ![c] = requests + 1]
    /\ UNCHANGED <<table, call, ref, got>>

(* The first section under the lock: lead ...                              *)
Lead(c) ==
    /\ pc[c] = "enter" /\ table[key[c]] = NoCall
    /\ table' = [table EXCEPT ![key[c]] = ticket[c]]
    /\ call' = [call EXCEPT ![ticket[c]].key = key[c]]
    /\ ref' = [ref EXCEPT ![c] = ticket[c]]
    /\ pc' = [pc EXCEPT ![c] = "lead"]
    /\ UNCHANGED <<key, ticket, requests, got>>

(* ... or wait.                                                            *)
Join(c) ==
    /\ pc[c] = "enter" /\ table[key[c]] # NoCall
    /\ ref' = [ref EXCEPT ![c] = table[key[c]]]
    /\ pc' = [pc EXCEPT ![c] = "wait"]
    /\ UNCHANGED <<table, call, key, ticket, requests, got>>

Compute(c, o) ==
    /\ pc[c] = "lead"
    /\ call' = [call EXCEPT ![ref[c]].outcome = o]
    /\ pc' = [pc EXCEPT ![c] = "pop"]
    /\ UNCHANGED <<table, key, ref, ticket, requests, got>>

(* Mutant of Pop: the call stays in the table until somebody replaces it.  *)
PopLater(c) ==
    /\ pc[c] = "pop"
    /\ pc' = [pc EXCEPT ![c] = "signal"]
    /\ UNCHANGED <<table, call, key, ref, ticket, requests, got>>

(* The second section under the lock.                                      *)
Pop(c) ==
    /\ pc[c] = "pop"
    /\ table' = [table EXCEPT ![key[c]] = NoCall]
    /\ pc' = [pc EXCEPT ![c] = "signal"]
    /\ UNCHANGED <<call, key, ref, ticket, requests, got>>

(* Mutant of Signal: a leader that raised does not wake the waiters.       *)
SignalResult(c) ==
    /\ pc[c] = "signal"
    /\ \E succeeded \in BOOLEAN :
        call' = IF succeeded THEN [call EXCEPT ![ref[c]].done = TRUE] ELSE call
    /\ pc' = [pc EXCEPT ![c] = "return"]
    /\ UNCHANGED <<table, key, ref, ticket, requests, got>>

Signal(c) ==
    /\ pc[c] = "signal"
    /\ call' = [call EXCEPT ![ref[c]].done = TRUE]
    /\ pc' = [pc EXCEPT ![c] = "return"]
    /\ UNCHANGED <<table, key, ref, ticket, requests, got>>

Return(c) ==
    /\ \/ pc[c] = "return"
       \/ pc[c] = "wait" /\ call[ref[c]].done
    /\ got' = [got EXCEPT ![c] = call[ref[c]].outcome]
    /\ pc' = [pc EXCEPT ![c] = "idle"]
    /\ key' = [key EXCEPT ![c] = NoKey]
    /\ ref' = [ref EXCEPT ![c] = NoCall]
    /\ ticket' = [ticket EXCEPT ![c] = NoCall]
    /\ UNCHANGED <<table, call, requests>>

Step(c) ==
    \/ Lead(c) \/ Join(c) \/ Pop(c) \/ Signal(c) \/ Return(c)
    \/ \E o \in Outcomes : Compute(c, o)

Next == \E c \in Callers : Step(c) \/ \E k \in Keys : Request(c, k)

Spec == Init /\ [][Next]_vars

(* A request thread goes on, and a rendering ends.                         *)
Fairness == \A c \in Callers : WF_vars(Step(c))

FairSpec == Spec /\ Fairness

-----------------------------------------------------------------------------
(* Properties.                                                             *)

(* An execution is over when its call has left the table.                  *)
Registered(i) == call[i].key # NoKey /\ table[call[i].key] = i

Shared == INSTANCE SharedCall WITH
    Executions <- Calls, NoExecution <- NoCall,
    wants <- key, server <- ref, got <- got,
    exec <- [i \in Calls |->
        [key |-> call[i].key,
         outcome |-> IF Registered(i) THEN Pending ELSE call[i].outcome]]

(* The table implements the promise: one execution of a key at a time, and *)
(* every caller is given the outcome of an execution for its own key that  *)
(* had not ended when it came, never an empty outcome and never one of an  *)
(* earlier request (SingleFlight.do).                                      *)
ImplementsSharedCall == Shared!Spec

(* A caller's request returns, also when its leader raised; every caller's.*)
CallReturns(c) == pc[c] = "enter" ~> pc[c] = "idle"

EveryCallReturns == \A c \in Callers : CallReturns(c)
=============================================================================
